--------------------------- MODULE SessionsProofs ---------------------------
(***************************************************************************)
(* The promises of the sessions, for any users, calls and interleaving: a  *)
(* hand-over is used once, a system administrator remains, a change of     *)
(* grants ends the sessions of its users, a logout its own session, no two *)
(* students sign in with one login, and the tables agree on who a student  *)
(* is, whatever rosters are planned and applied in between.                *)
(***************************************************************************)
EXTENDS Sessions, StudentRoster, FiniteSetTheorems, TLAPS

Places == {"idle", "reading", "coded", "taking", "storing", "indexing", "expiring",
           "counting", "checked", "loaded", "ending", "listed", "deleted", "crashed", "refused", "done"}

TTLs == {ShortTTL, LongTTL}

Notes ==
    [user : Users \cup {None}, roles : (SUBSET Roles) \cup {None},
     permissions : (SUBSET Permissions) \cup {None}, ttl : TTLs \cup {0},
     token : Tokens \cup {None}, users : SUBSET Users, tokens : SUBSET Tokens]

Shapes == TypeOK /\ seen \in [Calls -> Notes]

\* What a call at place p has in its notes r: the last two are the check of
\* the last administrator, which leaves another one.
Others(c, r) == r.users # {} /\ UserOf[c] \notin r.users

CallKnows(c, p, r) ==
    /\ c \in Logins /\ p \in {"reading", "indexing", "expiring"} => r.user \in Users /\ r.ttl \in TTLs
    /\ c \in Exchanges /\ p = "coded" => r.token \in Tokens
    /\ c \in Exchanges /\ p \in {"taking", "storing", "indexing", "expiring"} =>
        /\ r.user \in Users /\ r.ttl \in TTLs
        /\ r.roles \in SUBSET Roles /\ r.permissions \in SUBSET Permissions
    /\ c \in Continues /\ p \in {"taking", "storing"} => r.token \in Tokens
    /\ c \in RoleChanges /\ p = "checked" /\ SystemAdmin \in r.roles \ NewRoles[c] => Others(c, r)
    /\ c \in Deactivations /\ p \in {"checked", "loaded"} /\ SystemAdmin \in r.roles => Others(c, r)
    /\ c \in Changes \cup Logouts /\ p \in {"listed", "deleted"} => r.user \in Users

Known == \A c \in Calls : CallKnows(c, pc[c], seen[c])

\* The calls that took what they carry.
TookRequest(k) == k \in Continues /\ pc[k] \in {"storing", "done"}
TookCode(x) == x \in Exchanges /\ pc[x] \in {"storing", "indexing", "expiring", "done"}

TakenOnce ==
    /\ \A k \in Continues : TookRequest(k) => RequestOf[k] \notin requests
    /\ \A k, m \in Continues :
        TookRequest(k) /\ TookRequest(m) /\ RequestOf[k] = RequestOf[m] => k = m
    /\ \A k \in Continues : codes[k] # None => pc[k] = "done"
    /\ \A x \in Exchanges : TookCode(x) => codes[CodeOf[x]] = None /\ pc[CodeOf[x]] = "done"
    /\ \A x, y \in Exchanges : TookCode(x) /\ TookCode(y) /\ CodeOf[x] = CodeOf[y] => x = y

SessionsInv == Shapes /\ Known /\ TakenOnce /\ (Administrators # {} \/ outdated)

-----------------------------------------------------------------------------
\* One call moves to another place with other notes.
LEMMA CallMoves ==
    ASSUME Shapes, Known, NEW c \in Calls, NEW p \in Places, NEW r \in Notes,
           CallKnows(c, p, r),
           pc' = [pc EXCEPT ![c] = p], seen' = [seen EXCEPT ![c] = r]
    PROVE  /\ pc' \in [Calls -> Places] /\ seen' \in [Calls -> Notes]
           /\ \A d \in Calls : pc'[d] = IF d = c THEN p ELSE pc[d]
           /\ Known'
<1>1. pc \in [Calls -> Places] /\ seen \in [Calls -> Notes]
  BY DEF Shapes, TypeOK, Places
<1>2. /\ \A d \in Calls : pc'[d] = IF d = c THEN p ELSE pc[d]
      /\ \A d \in Calls : seen'[d] = IF d = c THEN r ELSE seen[d]
  BY <1>1
<1>3. \A d \in Calls : CallKnows(d, pc'[d], seen'[d])
  BY <1>2 DEF Known
<1> QED BY <1>1, <1>2, <1>3 DEF Known, CallKnows, Others

\* A place from which, or to which, nothing was taken.
Holding == {"storing", "indexing", "expiring", "done"}

\* A step of one call that changes neither the database nor Redis.
LEMMA QuietStep ==
    ASSUME SessionsInv, NEW c \in Calls, NEW p \in Places, NEW r \in Notes,
           CallKnows(c, p, r),
           pc' = [pc EXCEPT ![c] = p], seen' = [seen EXCEPT ![c] = r],
           c \in Continues \cup Exchanges => pc[c] \notin Holding /\ p \notin Holding,
           UNCHANGED <<database, redis, now>>,
           overtaken' \cup dropped' \cup lapsed' \subseteq Tokens,
           outdated' = outdated, crashes' \in Nat
    PROVE  SessionsInv'
<1>1. /\ pc' \in [Calls -> Places] /\ seen' \in [Calls -> Notes] /\ Known'
      /\ \A d \in Calls : pc'[d] = IF d = c THEN p ELSE pc[d]
  BY CallMoves DEF SessionsInv
<1>2. /\ active' = active /\ roles' = roles /\ granted' = granted /\ session' = session
      /\ index' = index /\ requests' = requests /\ codes' = codes /\ now' = now
  BY DEF database, redis
<1>3. Shapes'
  BY <1>1, <1>2 DEF SessionsInv, Shapes, TypeOK, Places
<1>4. TakenOnce'
  <2>1. Continues \subseteq Calls /\ Exchanges \subseteq Calls /\ CodeOf \in [Exchanges -> Continues]
    BY SessionsAssumption DEF Calls, Tokens
  <2>2. \A k \in Continues : TookRequest(k)' <=> TookRequest(k)
    BY <1>1, <2>1 DEF TookRequest, Holding
  <2>3. \A x \in Exchanges : TookCode(x)' <=> TookCode(x)
    BY <1>1, <2>1 DEF TookCode, Holding
  <2>4. \A k \in Continues : pc[k] = "done" => pc'[k] = "done"
    BY <1>1, <2>1 DEF Holding
  <2> QED BY <1>2, <2>1, <2>2, <2>3, <2>4 DEF SessionsInv, TakenOnce
<1> QED BY <1>1, <1>2, <1>3, <1>4 DEF SessionsInv, Administrators

LEMMA SessionsBegin == Init => SessionsInv
<1> SUFFICES ASSUME Init PROVE SessionsInv
  OBVIOUS
<1> USE DEF Init, InitWith
<1>1. \A c \in Calls : pc[c] = "idle" /\ seen[c] = Nothing
  OBVIOUS
<1>2. Nothing \in Notes
  BY DEF Nothing, Notes
<1>3. Shapes
  BY <1>2, SessionsAssumption DEF Shapes, TypeOK, NoEntry
<1>4. Known
  BY <1>1 DEF Known, CallKnows
<1>5. TakenOnce
  BY <1>1, SessionsAssumption DEF TakenOnce, TookRequest, TookCode, Calls, Tokens
<1>6. Administrators # {}
  BY SessionsAssumption DEF Administrators
<1> QED BY <1>3, <1>4, <1>5, <1>6 DEF SessionsInv

-----------------------------------------------------------------------------
LEMMA LoginReads ==
    ASSUME SessionsInv, NEW l \in Logins, FindAccount(l) \/ ReadRoles(l) \/ ReadPermissions(l)
    PROVE  SessionsInv'
<1>1. /\ l \in Calls /\ l \notin Continues \cup Exchanges \cup Changes
      /\ UserOf[l] \in Users /\ pc[l] \in Places
  BY SessionsAssumption DEF SessionsInv, Shapes, TypeOK, Places, Calls, Tokens
<1>2. seen \in [Calls -> Notes] /\ seen[l] \in Notes /\ pc \in [Calls -> Places]
  BY <1>1 DEF SessionsInv, Shapes, TypeOK, Places
<1>3. overtaken' \cup dropped' \cup lapsed' \subseteq Tokens /\ outdated' = outdated /\ crashes' \in Nat
  BY DEF FindAccount, ReadRoles, ReadPermissions, history, ghosts, SessionsInv, Shapes, TypeOK
<1>4. GrantsOf(UserOf[l]).roles \in SUBSET Roles /\ GrantsOf(UserOf[l]).permissions \in SUBSET Permissions
  <2>1. SystemAdmin \in Roles /\ Student \in Roles
    BY SessionsAssumption
  <2>2. /\ roles[UserOf[l]] \in SUBSET Roles /\ granted \in [Roles -> SUBSET Permissions]
        /\ Given[UserOf[l]] \in SUBSET Permissions
    BY <1>1, SessionsAssumption DEF SessionsInv, Shapes, TypeOK
  <2> QED BY <2>1, <2>2 DEF GrantsOf
<1>5. UNCHANGED <<database, redis, now>>
  BY DEF FindAccount, ReadRoles, ReadPermissions
<1>6. CallKnows(l, pc[l], seen[l])
  BY <1>1 DEF SessionsInv, Known
<1>7. CASE FindAccount(l)
  <2> DEFINE ttl == IF l \in Persistent THEN LongTTL ELSE ShortTTL
             r == [seen[l] EXCEPT !.user = UserOf[l], !.ttl = ttl]
  <2>1. r \in Notes /\ r.user = UserOf[l] /\ r.ttl \in TTLs
    BY <1>1, <1>2 DEF Notes, TTLs
  <2>2. seen' = [seen EXCEPT ![l] = r] /\ pc' = [pc EXCEPT ![l] = "reading"]
    BY <1>2, <1>7 DEF FindAccount, Goto, Notes
  <2> HIDE DEF r
  <2>3. CallKnows(l, "reading", r)
    BY <1>1, <2>1 DEF CallKnows, Changes
  <2> QED BY <1>1, <1>3, <1>5, <2>1, <2>2, <2>3, QuietStep DEF Places
<1>8. CASE ReadRoles(l)
  <2> DEFINE g == GrantsOf(UserOf[l]).roles
             r == [seen[l] EXCEPT !.roles = g]
  <2> HIDE DEF g
  <2>1. r \in Notes /\ r.user = seen[l].user /\ r.ttl = seen[l].ttl
    BY <1>2, <1>4 DEF Notes, g
  <2>2. seen' = [seen EXCEPT ![l] = r] /\ pc' = [pc EXCEPT ![l] = pc[l]]
    BY <1>2, <1>8 DEF ReadRoles, Notes, g
  <2> HIDE DEF r
  <2>3. CallKnows(l, pc[l], r)
    BY <1>1, <1>6, <2>1 DEF CallKnows, Changes
  <2> QED BY <1>1, <1>3, <1>5, <2>1, <2>2, <2>3, QuietStep
<1>9. CASE ReadPermissions(l)
  <2> DEFINE g == GrantsOf(UserOf[l]).permissions
             r == [seen[l] EXCEPT !.permissions = g]
  <2> HIDE DEF g
  <2>1. r \in Notes /\ r.user = seen[l].user /\ r.ttl = seen[l].ttl
    BY <1>2, <1>4 DEF Notes, g
  <2>2. seen' = [seen EXCEPT ![l] = r] /\ pc' = [pc EXCEPT ![l] = pc[l]]
    BY <1>2, <1>9 DEF ReadPermissions, Notes, g
  <2> HIDE DEF r
  <2>3. CallKnows(l, pc[l], r)
    BY <1>1, <1>6, <2>1 DEF CallKnows, Changes
  <2> QED BY <1>1, <1>3, <1>5, <2>1, <2>2, <2>3, QuietStep
<1> QED BY <1>7, <1>8, <1>9

LEMMA RequestIsRead ==
    ASSUME SessionsInv, NEW k \in Continues, NEW t \in Tokens, ReadRequest(k, t)
    PROVE  SessionsInv'
<1> DEFINE r == [seen[k] EXCEPT !.token = t]
<1>1. k \in Calls /\ k \notin Tokens \cup Changes
  BY SessionsAssumption DEF Calls
<1>2. seen \in [Calls -> Notes] /\ seen[k] \in Notes /\ pc \in [Calls -> Places]
  BY <1>1 DEF SessionsInv, Shapes, TypeOK, Places
<1>3. overtaken' \cup dropped' \cup lapsed' \subseteq Tokens /\ outdated' = outdated /\ crashes' \in Nat
  BY DEF ReadRequest, history, ghosts, SessionsInv, Shapes, TypeOK
<1>4. r \in Notes /\ r.token = t
  BY <1>2 DEF Notes
<1>5. /\ seen' = [seen EXCEPT ![k] = r] /\ pc' = [pc EXCEPT ![k] = "taking"] /\ pc[k] = "idle"
      /\ UNCHANGED <<database, redis, now>>
  BY <1>2 DEF ReadRequest, Goto, Notes
<1> HIDE DEF r
<1>6. CallKnows(k, "taking", r)
  BY <1>1, <1>4 DEF CallKnows, Tokens, Changes
<1> QED BY <1>1, <1>3, <1>4, <1>5, <1>6, QuietStep DEF Places, Holding

LEMMA CodeIsRead ==
    ASSUME SessionsInv, NEW x \in Exchanges, ReadCode(x) \/ ReadCentralSession(x)
    PROVE  SessionsInv'
<1>1. /\ x \in Calls /\ x \in Tokens /\ x \notin Logins \cup Continues \cup Changes
      /\ CodeOf[x] \in Continues
  BY SessionsAssumption DEF Calls, Tokens
<1>2. seen \in [Calls -> Notes] /\ seen[x] \in Notes /\ pc \in [Calls -> Places]
  BY <1>1 DEF SessionsInv, Shapes, TypeOK, Places
<1>3. CASE ReadCode(x)
  <2> DEFINE t == codes[CodeOf[x]]
             r == [seen[x] EXCEPT !.token = t]
  <2>1. t \in Tokens
    BY <1>1, <1>3 DEF ReadCode, SessionsInv, Shapes, TypeOK
  <2> HIDE DEF t
  <2>2. r \in Notes /\ r.token = t
    BY <1>2, <2>1 DEF Notes
  <2>3. /\ seen' = [seen EXCEPT ![x] = r] /\ pc' = [pc EXCEPT ![x] = "coded"] /\ pc[x] = "idle"
        /\ UNCHANGED <<database, redis, now>>
    BY <1>2, <1>3 DEF ReadCode, Goto, Notes, t
  <2> HIDE DEF r
  <2>4. overtaken' \cup dropped' \cup lapsed' \subseteq Tokens /\ outdated' = outdated /\ crashes' \in Nat
    BY <1>3 DEF ReadCode, history, ghosts, SessionsInv, Shapes, TypeOK
  <2>5. CallKnows(x, "coded", r)
    BY <1>1, <2>1, <2>2 DEF CallKnows, Changes
  <2> QED BY <1>1, <2>2, <2>3, <2>4, <2>5, QuietStep DEF Places, Holding
<1>4. CASE ReadCentralSession(x)
  <2> DEFINE s == session[seen[x].token]
             r == [seen[x] EXCEPT !.user = s.user, !.roles = s.roles,
                                  !.permissions = s.permissions, !.ttl = s.ttl]
  <2>1. seen[x].token \in Tokens
    BY <1>1, <1>4 DEF ReadCentralSession, Goto, SessionsInv, Known, CallKnows
  <2>2. s \in StoredSessions
    BY <1>4, <2>1 DEF ReadCentralSession, Admits, SessionsInv, Shapes, TypeOK
  <2> HIDE DEF s
  <2>3. /\ s.user \in Users /\ s.roles \in SUBSET Roles
        /\ s.permissions \in SUBSET Permissions /\ s.ttl \in TTLs
    BY <2>2 DEF StoredSessions, TTLs
  <2>4. /\ r \in Notes /\ r.user = s.user /\ r.roles = s.roles
        /\ r.permissions = s.permissions /\ r.ttl = s.ttl
    BY <1>2, <2>3 DEF Notes
  <2>5. /\ seen' = [seen EXCEPT ![x].user = s.user, ![x].roles = s.roles,
                                ![x].permissions = s.permissions, ![x].ttl = s.ttl]
        /\ pc' = [pc EXCEPT ![x] = "taking"] /\ pc[x] = "coded"
        /\ UNCHANGED <<database, redis, now>>
    BY <1>4 DEF ReadCentralSession, Goto, s
  <2>6. seen' = [seen EXCEPT ![x] = r]
    BY <1>2, <2>5 DEF Notes
  <2> HIDE DEF r
  <2>7. overtaken' \cup dropped' \cup lapsed' \subseteq Tokens /\ outdated' = outdated /\ crashes' \in Nat
    BY <1>1, <1>4 DEF ReadCentralSession, history, ghosts, SessionsInv, Shapes, TypeOK
  <2>8. CallKnows(x, "taking", r)
    BY <1>1, <2>3, <2>4 DEF CallKnows, Changes
  <2> QED BY <1>1, <2>4, <2>5, <2>6, <2>7, <2>8, QuietStep DEF Places, Holding
<1> QED BY <1>3, <1>4

LEMMA AnotherOne ==
    ASSUME NEW S, Cardinality(S) > 1, NEW u
    PROVE  S \ {u} # {}
<1> SUFFICES ASSUME S \ {u} = {} PROVE FALSE
  OBVIOUS
<1>1. S = {} \/ S = {u}
  OBVIOUS
<1>2. Cardinality({}) = 0 /\ Cardinality({u}) = 1
  BY FS_EmptySet, FS_Singleton
<1> QED BY <1>1, <1>2

LEMMA ChangesAreChecked ==
    ASSUME SessionsInv, NEW c \in Changes,
           ReadTarget(c) \/ CheckRoles(c) \/ CheckStatus(c) \/ LoadIdentity(c) \/ ReadHolders(c)
    PROVE  SessionsInv'
<1>1. /\ c \in Calls /\ c \notin Tokens \cup Continues
      /\ (c \in RoleChanges => c \notin Deactivations \cup GrantChanges)
      /\ (c \in GrantChanges => c \notin Deactivations)
      /\ (c \notin GrantChanges => UserOf[c] \in Users)
  BY SessionsAssumption DEF Calls, Changes
<1>2. seen \in [Calls -> Notes] /\ seen[c] \in Notes /\ pc \in [Calls -> Places]
  BY <1>1 DEF SessionsInv, Shapes, TypeOK, Places
<1>3. overtaken' \cup dropped' \cup lapsed' \subseteq Tokens /\ outdated' = outdated /\ crashes' \in Nat
  BY DEF ReadTarget, CheckRoles, CheckStatus, LoadIdentity, ReadHolders, history, ghosts,
         SessionsInv, Shapes, TypeOK
<1>4. UNCHANGED <<database, redis, now>>
  BY DEF ReadTarget, CheckRoles, CheckStatus, LoadIdentity, ReadHolders
<1>r. CASE ReadTarget(c)
  <2> DEFINE rs == roles[UserOf[c]]
             r == [seen[c] EXCEPT !.roles = rs]
  <2>1. rs \in SUBSET Roles
    BY <1>1, <1>r, SessionsAssumption DEF ReadTarget, SessionsInv, Shapes, TypeOK
  <2> HIDE DEF rs
  <2>2. r \in Notes
    BY <1>2, <2>1 DEF Notes
  <2>3. seen' = [seen EXCEPT ![c] = r] /\ pc' = [pc EXCEPT ![c] = "counting"]
    BY <1>2, <1>r DEF ReadTarget, Goto, Notes, rs
  <2> HIDE DEF r
  <2>4. CallKnows(c, "counting", r)
    BY <1>1 DEF CallKnows, Tokens
  <2> QED BY <1>1, <1>3, <1>4, <2>2, <2>3, <2>4, QuietStep DEF Places, Tokens
<1>5. CASE CheckRoles(c)
  <2> DEFINE us == Administrators \ {UserOf[c]}
             r == [seen[c] EXCEPT !.users = us]
  <2>1. c \in RoleChanges /\ UserOf[c] \in Users
    BY <1>1, <1>5 DEF CheckRoles
  <2>2. us \in SUBSET Users
    BY DEF Administrators
  <2>3. SystemAdmin \in seen[c].roles \ NewRoles[c] => us # {} /\ UserOf[c] \notin us
    BY <1>5, AnotherOne DEF CheckRoles, MayAssign
  <2> HIDE DEF us
  <2>4. r \in Notes /\ r.roles = seen[c].roles /\ r.users = us
    BY <1>2, <2>2 DEF Notes
  <2>5. seen' = [seen EXCEPT ![c] = r] /\ pc' = [pc EXCEPT ![c] = "checked"]
    BY <1>2, <1>5 DEF CheckRoles, Goto, Notes, us
  <2> HIDE DEF r
  <2>6. CallKnows(c, "checked", r)
    BY <1>1, <2>1, <2>3, <2>4 DEF CallKnows, Others, Tokens
  <2> QED BY <1>1, <1>3, <1>4, <2>4, <2>5, <2>6, QuietStep DEF Places, Tokens
<1>6. CASE CheckStatus(c)
  <2> DEFINE us == (Administrators \cap active) \ {UserOf[c]}
             r == [seen[c] EXCEPT !.users = us]
  <2>1. c \in Deactivations /\ UserOf[c] \in Users /\ c \notin RoleChanges
    BY <1>1, <1>6 DEF CheckStatus
  <2>2. us \in SUBSET Users
    BY DEF Administrators
  <2>3. SystemAdmin \in seen[c].roles => us # {} /\ UserOf[c] \notin us
    BY <1>6, AnotherOne DEF CheckStatus, MayDeactivate
  <2> HIDE DEF us
  <2>4. r \in Notes /\ r.roles = seen[c].roles /\ r.users = us
    BY <1>2, <2>2 DEF Notes
  <2>5. seen' = [seen EXCEPT ![c] = r] /\ pc' = [pc EXCEPT ![c] = "checked"]
    BY <1>2, <1>6 DEF CheckStatus, Goto, Notes, us
  <2> HIDE DEF r
  <2>6. CallKnows(c, "checked", r)
    BY <1>1, <2>1, <2>3, <2>4 DEF CallKnows, Others, Tokens
  <2> QED BY <1>1, <1>3, <1>4, <2>4, <2>5, <2>6, QuietStep DEF Places, Tokens
<1>l. CASE LoadIdentity(c)
  <2> DEFINE p == IF UserOf[c] \in active THEN "loaded" ELSE "done"
  <2>1. /\ c \in Deactivations /\ c \notin RoleChanges /\ pc[c] = "checked"
        /\ seen' = [seen EXCEPT ![c] = seen[c]] /\ pc' = [pc EXCEPT ![c] = p]
    BY <1>1, <1>2, <1>l DEF LoadIdentity, Goto
  <2>2. CallKnows(c, pc[c], seen[c])
    BY <1>1 DEF SessionsInv, Known
  <2>3. p \in {"loaded", "done"} /\ p \in Places
    BY DEF Places
  <2> HIDE DEF p
  <2>4. CallKnows(c, p, seen[c])
    BY <1>1, <2>1, <2>2, <2>3 DEF CallKnows, Tokens
  <2>5. c \notin Continues \cup Exchanges
    BY <1>1 DEF Tokens
  <2> QED BY <1>1, <1>2, <1>3, <1>4, <2>1, <2>3, <2>4, <2>5, QuietStep
<1>7. CASE ReadHolders(c)
  <2> DEFINE us == {u \in Users : RoleOf[c] \in roles[u]}
             r == [seen[c] EXCEPT !.users = us]
  <2>1. us \in SUBSET Users /\ c \in GrantChanges
    BY <1>7 DEF ReadHolders
  <2> HIDE DEF us
  <2>2. r \in Notes
    BY <1>2, <2>1 DEF Notes
  <2>3. seen' = [seen EXCEPT ![c] = r] /\ pc' = [pc EXCEPT ![c] = "checked"]
    BY <1>2, <1>7 DEF ReadHolders, Goto, Notes, us
  <2> HIDE DEF r
  <2>4. CallKnows(c, "checked", r)
    BY <1>1, <2>1 DEF CallKnows, Tokens
  <2> QED BY <1>1, <1>3, <1>4, <2>2, <2>3, <2>4, QuietStep DEF Places, Tokens
<1> QED BY <1>r, <1>5, <1>6, <1>l, <1>7

\* A call that ends sessions, and one whose process dies.
LEMMA EndingBegins ==
    ASSUME SessionsInv, NEW c \in Changes \cup Logouts,
           \/ c \in Changes /\ Crash(c)
           \/ c \in Logouts /\ \E t \in Tokens : Logout(c, t)
           \/ \E u \in Users : ListTokens(c, u)
    PROVE  SessionsInv'
<1>1. c \in Calls /\ c \notin Tokens \cup Continues
  BY SessionsAssumption DEF Calls
<1>2. seen \in [Calls -> Notes] /\ seen[c] \in Notes /\ pc \in [Calls -> Places]
  BY <1>1 DEF SessionsInv, Shapes, TypeOK, Places
<1>3. CASE Crash(c)
  <2>1. seen' = [seen EXCEPT ![c] = seen[c]] /\ pc' = [pc EXCEPT ![c] = "crashed"]
        /\ UNCHANGED <<database, redis, now>>
    BY <1>2, <1>3 DEF Crash
  <2>2. overtaken' \cup dropped' \cup lapsed' \subseteq Tokens /\ outdated' = outdated /\ crashes' \in Nat
    BY <1>3 DEF Crash, ghosts, SessionsInv, Shapes, TypeOK
  <2>3. CallKnows(c, "crashed", seen[c])
    BY <1>1 DEF CallKnows, Tokens
  <2> QED BY <1>1, <1>2, <2>1, <2>2, <2>3, QuietStep DEF Places, Tokens
<1>4. CASE \E t \in Tokens : Logout(c, t)
  <2> PICK t \in Tokens : Logout(c, t)
    BY <1>4
  <2> DEFINE us == {session[t].user}
             r == [seen[c] EXCEPT !.token = t, !.users = us]
  <2>1. us \in SUBSET Users
    BY DEF Logout, SessionsInv, Shapes, TypeOK, StoredSessions
  <2> HIDE DEF us
  <2>2. r \in Notes
    BY <1>2, <2>1 DEF Notes
  <2>3. seen' = [seen EXCEPT ![c] = r] /\ pc' = [pc EXCEPT ![c] = "ending"]
        /\ UNCHANGED <<database, redis, now>>
    BY <1>2 DEF Logout, Goto, Notes, us
  <2> HIDE DEF r
  <2>4. overtaken' \cup dropped' \cup lapsed' \subseteq Tokens /\ outdated' = outdated /\ crashes' \in Nat
    BY DEF Logout, history, ghosts, SessionsInv, Shapes, TypeOK
  <2>5. CallKnows(c, "ending", r)
    BY <1>1 DEF CallKnows, Tokens
  <2> QED BY <1>1, <2>2, <2>3, <2>4, <2>5, QuietStep DEF Places, Tokens
<1>5. CASE \E u \in Users : ListTokens(c, u)
  <2> PICK u \in Users : ListTokens(c, u)
    BY <1>5
  <2> DEFINE ts == index[u].tokens
             r == [seen[c] EXCEPT !.user = u, !.tokens = ts]
  <2>1. ts \in SUBSET Tokens
    BY DEF SessionsInv, Shapes, TypeOK
  <2> HIDE DEF ts
  <2>2. r \in Notes /\ r.user = u
    BY <1>2, <2>1 DEF Notes
  <2>3. /\ seen' = [seen EXCEPT ![c].user = u, ![c].tokens = ts]
        /\ pc' = [pc EXCEPT ![c] = "listed"] /\ UNCHANGED <<database, redis, now>>
    BY DEF ListTokens, Goto, ts
  <2>6. seen' = [seen EXCEPT ![c] = r]
    BY <1>2, <2>3 DEF Notes
  <2> HIDE DEF r
  <2>4. overtaken' \cup dropped' \cup lapsed' \subseteq Tokens /\ outdated' = outdated /\ crashes' \in Nat
    BY DEF ListTokens, Issuing, SessionsInv, Shapes, TypeOK
  <2>5. CallKnows(c, "listed", r)
    BY <1>1, <2>2 DEF CallKnows, Tokens
  <2> QED BY <1>1, <2>2, <2>3, <2>4, <2>5, <2>6, QuietStep DEF Places, Tokens
<1> QED BY <1>3, <1>4, <1>5

-----------------------------------------------------------------------------
\* Who has taken a request or a code has not taken another, as long as nobody
\* takes one: requests and codes only disappear.
LEMMA NothingTaken ==
    ASSUME SessionsInv,
           \A k \in Continues : TookRequest(k)' <=> TookRequest(k),
           \A x \in Exchanges : TookCode(x)' <=> TookCode(x),
           \A k \in Continues : pc[k] = "done" => pc'[k] = "done",
           requests' \subseteq requests,
           \A k \in Continues : codes'[k] # None => codes'[k] = codes[k]
    PROVE  TakenOnce'
BY SessionsAssumption DEF SessionsInv, TakenOnce

LEMMA SessionIsStored ==
    ASSUME SessionsInv, NEW t \in Tokens,
           \/ t \in Logins /\ StoreSession(t)
           \/ t \in Exchanges /\ StoreDelegatedSession(t)
    PROVE  SessionsInv'
<1>1. t \in Calls /\ t \notin Continues \cup Changes
  BY SessionsAssumption DEF Calls, Tokens
<1>2. /\ seen \in [Calls -> Notes] /\ seen[t] \in Notes /\ pc \in [Calls -> Places]
      /\ session \in [Tokens -> StoredSessions \cup {None}] /\ now \in Nat
  BY <1>1 DEF SessionsInv, Shapes, TypeOK, Places
<1>3. CallKnows(t, pc[t], seen[t])
  BY <1>1 DEF SessionsInv, Known
<1>4. Stored(t) \in StoredSessions
  <2>1. /\ seen[t].user \in Users /\ seen[t].ttl \in TTLs
        /\ seen[t].roles \in SUBSET Roles /\ seen[t].permissions \in SUBSET Permissions
    BY <1>2, <1>3 DEF StoreSession, StoreDelegatedSession, Goto, CallKnows, Notes
  <2> QED BY <1>2, <2>1, SessionsAssumption DEF Stored, StoredSessions, TTLs
<1>5. /\ session' = [session EXCEPT ![t] = Stored(t)] /\ pc' = [pc EXCEPT ![t] = "indexing"]
      /\ pc[t] \in {"reading", "storing"} /\ (t \in Exchanges => pc[t] = "storing")
      /\ UNCHANGED <<database, index, requests, codes, now, seen, history>>
  BY SessionsAssumption DEF StoreSession, StoreDelegatedSession, Goto
<1>6. seen' = [seen EXCEPT ![t] = seen[t]] /\ CallKnows(t, "indexing", seen[t])
  <2>1. seen' = [seen EXCEPT ![t] = seen[t]]
    BY <1>2, <1>5
  <2>2. t \in Logins => pc[t] = "reading"
    BY SessionsAssumption DEF StoreSession, StoreDelegatedSession, Goto
  <2>3. CallKnows(t, "indexing", seen[t])
    BY <1>1, <1>3, <1>5, <2>2 DEF CallKnows, Changes, Tokens
  <2> QED BY <2>1, <2>3
<1>s. Shapes /\ Known
  BY DEF SessionsInv
<1>m. /\ pc' = [pc EXCEPT ![t] = "indexing"] /\ seen' = [seen EXCEPT ![t] = seen[t]]
      /\ t \in Calls /\ "indexing" \in Places /\ seen[t] \in Notes /\ CallKnows(t, "indexing", seen[t])
  BY <1>1, <1>2, <1>5, <1>6 DEF Places
<1>7. /\ pc' \in [Calls -> Places] /\ seen' \in [Calls -> Notes] /\ Known'
      /\ \A d \in Calls : pc'[d] = IF d = t THEN "indexing" ELSE pc[d]
  BY <1>s, <1>m, CallMoves
<1>8. session' \in [Tokens -> StoredSessions \cup {None}]
  BY <1>2, <1>4, <1>5
<1>9. Shapes'
  BY <1>5, <1>7, <1>8 DEF SessionsInv, Shapes, TypeOK, Places, database, history, ghosts
<1>10. TakenOnce'
  <2>1. Continues \subseteq Calls /\ Exchanges \subseteq Calls
    BY DEF Calls, Tokens
  <2>2. \A k \in Continues : (TookRequest(k)' <=> TookRequest(k)) /\ pc'[k] = pc[k]
    BY <1>1, <1>7, <2>1 DEF TookRequest
  <2>3. \A x \in Exchanges : TookCode(x)' <=> TookCode(x)
    BY <1>5, <1>7, <2>1 DEF TookCode
  <2> QED BY <1>5, <2>2, <2>3, NothingTaken
<1>q. Administrators' = Administrators /\ outdated' = outdated
  BY <1>5 DEF Administrators, database, history, ghosts
<1> QED BY <1>5, <1>7, <1>9, <1>10, <1>q DEF SessionsInv

\* A step of the issuing of t that changes nothing but the index.
LEMMA IndexStep ==
    ASSUME SessionsInv, NEW t \in Tokens, NEW p \in {"expiring", "done"}, NEW r \in Notes,
           CallKnows(t, p, r), pc[t] \in {"indexing", "expiring"},
           pc' = [pc EXCEPT ![t] = p], seen' = [seen EXCEPT ![t] = r],
           index' \in [Users -> [tokens : SUBSET Tokens, expires : Nat \cup {None}]],
           UNCHANGED <<database, session, requests, codes, now, history>>
    PROVE  SessionsInv'
<1>1. t \in Calls /\ t \notin Continues \cup Changes
  BY SessionsAssumption DEF Calls, Tokens
<1>s. Shapes /\ Known
  BY DEF SessionsInv
<1>m. /\ pc' = [pc EXCEPT ![t] = p] /\ seen' = [seen EXCEPT ![t] = r]
      /\ t \in Calls /\ p \in Places /\ r \in Notes /\ CallKnows(t, p, r)
  BY <1>1 DEF Places
<1>5. /\ pc' \in [Calls -> Places] /\ seen' \in [Calls -> Notes] /\ Known'
      /\ \A d \in Calls : pc'[d] = IF d = t THEN p ELSE pc[d]
  BY <1>s, <1>m, CallMoves
<1>7. Shapes'
  BY <1>5 DEF SessionsInv, Shapes, TypeOK, Places, database, history, ghosts
<1>8. TakenOnce'
  <2>1. Continues \subseteq Calls /\ Exchanges \subseteq Calls
    BY DEF Calls, Tokens
  <2>2. \A k \in Continues : (TookRequest(k)' <=> TookRequest(k)) /\ pc'[k] = pc[k]
    BY <1>1, <1>5, <2>1 DEF TookRequest
  <2>3. \A x \in Exchanges : TookCode(x)' <=> TookCode(x)
    BY <1>5, <2>1 DEF TookCode
  <2> QED BY <2>2, <2>3, NothingTaken
<1>q. Administrators' = Administrators /\ outdated' = outdated
  BY DEF Administrators, database, history, ghosts
<1> QED BY <1>5, <1>7, <1>8, <1>q DEF SessionsInv

LEMMA SessionIsIndexed ==
    ASSUME SessionsInv, NEW t \in Tokens, IndexSession(t) \/ ExpireIndex(t)
    PROVE  SessionsInv'
<1>1. t \in Calls /\ t \notin Continues \cup Changes /\ (t \in Logins \/ t \in Exchanges)
  BY SessionsAssumption DEF Calls, Tokens
<1>2. /\ seen \in [Calls -> Notes] /\ seen[t] \in Notes /\ pc \in [Calls -> Places]
      /\ index \in [Users -> [tokens : SUBSET Tokens, expires : Nat \cup {None}]] /\ now \in Nat
  BY <1>1 DEF SessionsInv, Shapes, TypeOK, Places
<1>3. CallKnows(t, pc[t], seen[t])
  BY <1>1 DEF SessionsInv, Known
<1>4. CASE IndexSession(t)
  <2> DEFINE u == seen[t].user
             e == IF index[u].tokens = {} THEN None ELSE index[u].expires
  <2>1. /\ pc' = [pc EXCEPT ![t] = "expiring"] /\ seen' = [seen EXCEPT ![t] = seen[t]]
        /\ pc[t] = "indexing"
        /\ index' = [index EXCEPT ![u] = [tokens |-> index[u].tokens \cup {t}, expires |-> e]]
        /\ UNCHANGED <<database, session, requests, codes, now, history>>
    BY <1>2, <1>4 DEF IndexSession, Goto
  <2>2. u \in Users /\ CallKnows(t, "expiring", seen[t])
    BY <1>1, <1>3, <2>1 DEF CallKnows, Changes
  <2>3. e \in Nat \cup {None}
    BY <1>2, <2>2
  <2>4. index' \in [Users -> [tokens : SUBSET Tokens, expires : Nat \cup {None}]]
    <3> HIDE DEF e
    <3> QED BY <1>2, <2>1, <2>2, <2>3
  <2> QED BY <1>2, <2>1, <2>2, <2>4, IndexStep
<1>5. CASE ExpireIndex(t)
  <2> DEFINE u == seen[t].user
             e == IF index[u].tokens = {} THEN index[u].expires ELSE now + seen[t].ttl
  <2>1. /\ pc' = [pc EXCEPT ![t] = "done"] /\ seen' = [seen EXCEPT ![t] = Nothing]
        /\ pc[t] = "expiring"
        /\ index' = [index EXCEPT ![u].expires = e]
        /\ UNCHANGED <<database, session, requests, codes, now, history>>
    BY <1>2, <1>5 DEF ExpireIndex, Finish, Goto
  <2>2. u \in Users /\ seen[t].ttl \in Nat
    <3>1. u \in Users /\ seen[t].ttl \in TTLs
      BY <1>1, <1>3, <2>1 DEF CallKnows
    <3> QED BY <3>1, SessionsAssumption DEF TTLs
  <2>3. e \in Nat \cup {None}
    <3>1. now + seen[t].ttl \in Nat
      BY <1>2, <2>2
    <3> QED BY <1>2, <2>2, <3>1
  <2>4. index' \in [Users -> [tokens : SUBSET Tokens, expires : Nat \cup {None}]]
    <3> HIDE DEF e
    <3> QED BY <1>2, <2>1, <2>2, <2>3
  <2>5. CallKnows(t, "done", Nothing) /\ Nothing \in Notes
    BY <1>1 DEF CallKnows, Changes, Nothing, Notes
  <2> QED BY <1>2, <2>1, <2>4, <2>5, IndexStep
<1> QED BY <1>4, <1>5

\* Of several who read a request, one takes it.
LEMMA RequestIsTaken ==
    ASSUME SessionsInv, NEW k \in Continues, TakeRequest(k) \/ StoreCode(k)
    PROVE  SessionsInv'
<1>1. k \in Calls /\ k \notin Tokens \cup Changes /\ Exchanges \subseteq Calls /\ Continues \subseteq Calls
  BY SessionsAssumption DEF Calls, Tokens
<1>2. /\ seen \in [Calls -> Notes] /\ seen[k] \in Notes /\ pc \in [Calls -> Places]
      /\ codes \in [Continues -> Tokens \cup {None}]
  BY <1>1 DEF SessionsInv, Shapes, TypeOK, Places
<1>3. CallKnows(k, pc[k], seen[k])
  BY <1>1 DEF SessionsInv, Known
<1>4. CASE TakeRequest(k)
  <2> DEFINE p == IF RequestOf[k] \in requests THEN "storing" ELSE "refused"
  <2>1. /\ pc' = [pc EXCEPT ![k] = p] /\ pc[k] = "taking" /\ requests' = requests \ {RequestOf[k]}
        /\ UNCHANGED <<database, session, index, codes, now, seen, history>>
    BY <1>4 DEF TakeRequest, Goto
  <2>2. seen' = [seen EXCEPT ![k] = seen[k]] /\ CallKnows(k, p, seen[k])
    BY <1>1, <1>2, <1>3, <2>1 DEF CallKnows, Changes, Tokens
  <2>p. p \in Places
    BY DEF Places
  <2>c. p = "storing" <=> RequestOf[k] \in requests
    OBVIOUS
  <2>d. p # "done"
    OBVIOUS
  <2> HIDE DEF p
  <2>s. Shapes /\ Known
    BY DEF SessionsInv
  <2>m. /\ pc' = [pc EXCEPT ![k] = p] /\ seen' = [seen EXCEPT ![k] = seen[k]]
        /\ k \in Calls /\ p \in Places /\ seen[k] \in Notes /\ CallKnows(k, p, seen[k])
    BY <1>1, <1>2, <2>1, <2>2, <2>p
  <2>3. /\ pc' \in [Calls -> Places] /\ seen' \in [Calls -> Notes] /\ Known'
        /\ \A d \in Calls : pc'[d] = IF d = k THEN p ELSE pc[d]
    BY <2>s, <2>m, CallMoves
  <2>4. Shapes'
    BY <2>1, <2>3 DEF SessionsInv, Shapes, TypeOK, Places, database, history, ghosts
  <2>5. TakenOnce'
    <3>1. \A m \in Continues : TookRequest(m)' <=> (TookRequest(m) \/ (m = k /\ RequestOf[k] \in requests))
      BY <1>1, <2>1, <2>3, <2>c, <2>d DEF TookRequest
    <3>2. \A x \in Exchanges : TookCode(x)' <=> TookCode(x)
      BY <1>1, <2>3 DEF TookCode, Tokens
    <3>3. \A m \in Continues : pc[m] = "done" => pc'[m] = "done"
      BY <1>1, <2>1, <2>3
    <3>4. \A m \in Continues : TookRequest(m) => RequestOf[m] \notin requests
      BY DEF SessionsInv, TakenOnce
    <3>5. \A m \in Continues : TookRequest(m)' => RequestOf[m] \notin requests'
      BY <2>1, <3>1, <3>4
    <3>6. \A m, n \in Continues :
            TookRequest(m)' /\ TookRequest(n)' /\ RequestOf[m] = RequestOf[n] => m = n
      BY <3>1, <3>4 DEF SessionsInv, TakenOnce
    <3> QED BY <2>1, <3>2, <3>3, <3>5, <3>6, SessionsAssumption DEF SessionsInv, TakenOnce
  <2>q. Administrators' = Administrators /\ outdated' = outdated
    BY <2>1 DEF Administrators, database, history, ghosts
  <2> QED BY <2>1, <2>3, <2>4, <2>5, <2>q DEF SessionsInv
<1>5. CASE StoreCode(k)
  <2>1. /\ pc' = [pc EXCEPT ![k] = "done"] /\ seen' = [seen EXCEPT ![k] = Nothing] /\ pc[k] = "storing"
        /\ codes' = [codes EXCEPT ![k] = seen[k].token]
        /\ UNCHANGED <<database, session, index, requests, now, history>>
    BY <1>5 DEF StoreCode, Finish, Goto
  <2>2. CallKnows(k, "done", Nothing) /\ Nothing \in Notes
    BY <1>1 DEF CallKnows, Changes, Nothing, Notes
  <2>s. Shapes /\ Known
    BY DEF SessionsInv
  <2>m. /\ pc' = [pc EXCEPT ![k] = "done"] /\ seen' = [seen EXCEPT ![k] = Nothing]
        /\ k \in Calls /\ "done" \in Places /\ Nothing \in Notes /\ CallKnows(k, "done", Nothing)
    BY <1>1, <1>2, <2>1, <2>2 DEF Places
  <2>3. /\ pc' \in [Calls -> Places] /\ seen' \in [Calls -> Notes] /\ Known'
        /\ \A d \in Calls : pc'[d] = IF d = k THEN "done" ELSE pc[d]
    BY <2>s, <2>m, CallMoves
  <2>4. codes' \in [Continues -> Tokens \cup {None}]
    BY <1>2, <2>1 DEF Notes
  <2>5. Shapes'
    BY <2>1, <2>3, <2>4 DEF SessionsInv, Shapes, TypeOK, Places, database, history, ghosts
  <2>6. TakenOnce'
    <3>1. \A m \in Continues : TookRequest(m)' <=> TookRequest(m)
      BY <1>1, <2>1, <2>3 DEF TookRequest
    <3>2. \A x \in Exchanges : TookCode(x)' <=> TookCode(x)
      BY <1>1, <2>3 DEF TookCode, Tokens
    <3>3. \A m \in Continues : (pc[m] = "done" => pc'[m] = "done") /\ (m # k => codes'[m] = codes[m])
      BY <1>1, <1>2, <2>1, <2>3
    <3>4. \A x \in Exchanges : TookCode(x) => CodeOf[x] # k
      BY <2>1 DEF SessionsInv, TakenOnce
    <3>5. \A m \in Continues : codes'[m] # None => pc'[m] = "done"
      BY <1>1, <2>3, <3>3 DEF SessionsInv, TakenOnce
    <3> QED BY <2>1, <3>1, <3>2, <3>3, <3>4, <3>5, SessionsAssumption DEF SessionsInv, TakenOnce
  <2>q. Administrators' = Administrators /\ outdated' = outdated
    BY <2>1 DEF Administrators, database, history, ghosts
  <2> QED BY <2>1, <2>3, <2>5, <2>6, <2>q DEF SessionsInv
<1> QED BY <1>4, <1>5

LEMMA CodeIsTaken ==
    ASSUME SessionsInv, NEW x \in Exchanges, TakeCode(x)
    PROVE  SessionsInv'
<1> DEFINE k == CodeOf[x]
           p == IF codes[k] # None THEN "storing" ELSE "refused"
<1>1. /\ x \in Calls /\ x \in Tokens /\ x \notin Logins \cup Continues \cup Changes
      /\ Exchanges \subseteq Calls /\ Continues \subseteq Calls /\ k \in Continues
  BY SessionsAssumption DEF Calls, Tokens
<1>2. /\ seen \in [Calls -> Notes] /\ seen[x] \in Notes /\ pc \in [Calls -> Places]
      /\ codes \in [Continues -> Tokens \cup {None}]
  BY <1>1 DEF SessionsInv, Shapes, TypeOK, Places
<1>3. CallKnows(x, pc[x], seen[x])
  BY <1>1 DEF SessionsInv, Known
<1>4. /\ pc' = [pc EXCEPT ![x] = p] /\ pc[x] = "taking" /\ codes' = [codes EXCEPT ![k] = None]
      /\ UNCHANGED <<database, session, index, requests, now, seen, history>>
  BY DEF TakeCode, Goto
<1>5. seen' = [seen EXCEPT ![x] = seen[x]] /\ CallKnows(x, p, seen[x])
  BY <1>1, <1>2, <1>3, <1>4 DEF CallKnows, Changes
<1>p. p \in Places /\ (p \in {"storing", "indexing", "expiring", "done"} <=> codes[k] # None)
  BY DEF Places
<1> HIDE DEF p
<1>s. Shapes /\ Known
  BY DEF SessionsInv
<1>m. /\ pc' = [pc EXCEPT ![x] = p] /\ seen' = [seen EXCEPT ![x] = seen[x]]
      /\ x \in Calls /\ p \in Places /\ seen[x] \in Notes /\ CallKnows(x, p, seen[x])
  BY <1>1, <1>2, <1>4, <1>5, <1>p
<1>6. /\ pc' \in [Calls -> Places] /\ seen' \in [Calls -> Notes] /\ Known'
      /\ \A d \in Calls : pc'[d] = IF d = x THEN p ELSE pc[d]
  BY <1>s, <1>m, CallMoves
<1>7. codes' \in [Continues -> Tokens \cup {None}] /\ \A m \in Continues : codes'[m] = IF m = k THEN None ELSE codes[m]
  BY <1>1, <1>2, <1>4
<1>8. Shapes'
  BY <1>4, <1>6, <1>7 DEF SessionsInv, Shapes, TypeOK, Places, database, history, ghosts
<1>9. TakenOnce'
  <2>1. \A m \in Continues : (TookRequest(m)' <=> TookRequest(m)) /\ pc'[m] = pc[m]
    BY <1>1, <1>6 DEF TookRequest
  <2>2. \A y \in Exchanges : TookCode(y)' <=> (TookCode(y) \/ (y = x /\ codes[k] # None))
    BY <1>1, <1>4, <1>6, <1>p DEF TookCode
  <2>3. \A y \in Exchanges : TookCode(y) => codes[CodeOf[y]] = None /\ pc[CodeOf[y]] = "done"
    BY DEF SessionsInv, TakenOnce
  <2>4. codes[k] # None => pc[k] = "done"
    BY <1>1 DEF SessionsInv, TakenOnce
  <2>5. \A y \in Exchanges : CodeOf[y] \in Continues
    BY SessionsAssumption
  <2>6. \A y \in Exchanges : TookCode(y)' => codes'[CodeOf[y]] = None /\ pc'[CodeOf[y]] = "done"
    BY <1>7, <2>1, <2>2, <2>3, <2>4, <2>5
  <2>7. \A y, z \in Exchanges : TookCode(y)' /\ TookCode(z)' /\ CodeOf[y] = CodeOf[z] => y = z
    BY <2>2, <2>3 DEF SessionsInv, TakenOnce
  <2> QED BY <1>4, <1>7, <2>1, <2>6, <2>7 DEF SessionsInv, TakenOnce
<1>q. Administrators' = Administrators /\ outdated' = outdated
  BY <1>4 DEF Administrators, database, history, ghosts
<1> QED BY <1>4, <1>6, <1>8, <1>9, <1>q DEF SessionsInv

-----------------------------------------------------------------------------
\* A removal of the role that relied on current roles leaves another one.
LEMMA RolesAreSet ==
    ASSUME SessionsInv, NEW c \in RoleChanges \cup Deactivations, NEW rs \in SUBSET Roles,
           SetRoles(c, rs), pc' = [pc EXCEPT ![c] = "ending"],
           SystemAdmin \in seen[c].roles \ rs => Others(c, seen[c]),
           active' \subseteq active
    PROVE  SessionsInv'
<1> DEFINE u == UserOf[c]
           r == [Nothing EXCEPT !.users = {u}]
<1>1. c \in Calls /\ c \notin Tokens \cup Continues /\ u \in Users
  BY SessionsAssumption DEF Calls, Changes
<1>2. seen \in [Calls -> Notes] /\ pc \in [Calls -> Places] /\ roles \in [Users -> SUBSET Roles]
  BY DEF SessionsInv, Shapes, TypeOK, Places
<1>3. r \in Notes
  BY <1>1 DEF Nothing, Notes
<1>4. /\ seen' = [seen EXCEPT ![c] = r] /\ roles' = [roles EXCEPT ![u] = rs]
      /\ outdated' = (outdated \/ (/\ SystemAdmin \in roles[u] \ rs
                                   /\ \/ SystemAdmin \notin seen[c].roles
                                      \/ ~(seen[c].users \subseteq Administrators)))
      /\ UNCHANGED <<granted, redis, now, overtaken, dropped, lapsed, crashes>>
  BY DEF SetRoles
<1> HIDE DEF r
<1>5. CallKnows(c, "ending", r)
  BY <1>1 DEF CallKnows, Tokens
<1>s. Shapes /\ Known
  BY DEF SessionsInv
<1>m. /\ pc' = [pc EXCEPT ![c] = "ending"] /\ seen' = [seen EXCEPT ![c] = r]
      /\ c \in Calls /\ "ending" \in Places /\ r \in Notes /\ CallKnows(c, "ending", r)
  BY <1>1, <1>3, <1>4, <1>5 DEF Places
<1>6. /\ pc' \in [Calls -> Places] /\ seen' \in [Calls -> Notes] /\ Known'
      /\ \A d \in Calls : pc'[d] = IF d = c THEN "ending" ELSE pc[d]
  BY <1>s, <1>m, CallMoves
<1>7. roles' \in [Users -> SUBSET Roles] /\ outdated' \in BOOLEAN
  <2>1. outdated \in BOOLEAN
    BY DEF SessionsInv, Shapes, TypeOK
  <2> QED BY <1>2, <1>4, <2>1
<1>8. Shapes'
  BY <1>4, <1>6, <1>7 DEF SessionsInv, Shapes, TypeOK, Places, redis
<1>9. TakenOnce'
  <2>1. Continues \subseteq Calls /\ Exchanges \subseteq Calls /\ Exchanges \subseteq Tokens
    BY DEF Calls, Tokens
  <2>2. \A k \in Continues : (TookRequest(k)' <=> TookRequest(k)) /\ pc'[k] = pc[k]
    BY <1>1, <1>6, <2>1 DEF TookRequest
  <2>3. \A x \in Exchanges : TookCode(x)' <=> TookCode(x)
    BY <1>1, <1>6, <2>1 DEF TookCode
  <2>4. requests' = requests /\ codes' = codes
    BY <1>4 DEF redis
  <2> QED BY <2>2, <2>3, <2>4, NothingTaken
<1>10. Administrators' # {} \/ outdated'
  <2>1. \A v \in Users : v # u => roles'[v] = roles[v]
    BY <1>2, <1>4
  <2>2. roles'[u] = rs
    BY <1>1, <1>2, <1>4
  <2>3. CASE SystemAdmin \in roles[u] \ rs
    <3> SUFFICES ASSUME ~outdated' PROVE Administrators' # {}
      OBVIOUS
    <3>1. SystemAdmin \in seen[c].roles \ rs /\ seen[c].users \subseteq Administrators
      BY <1>4, <2>3
    <3>2. Others(c, seen[c])
      BY <3>1
    <3>3. PICK v \in Administrators : v # u
      BY <3>1, <3>2 DEF Others
    <3> QED BY <2>1, <3>3 DEF Administrators
  <2>4. CASE SystemAdmin \notin roles[u] \ rs
    <3>1. Administrators \subseteq Administrators'
      BY <2>1, <2>2, <2>4 DEF Administrators
    <3> QED BY <1>4, <3>1 DEF SessionsInv
  <2> QED BY <2>3, <2>4
<1> QED BY <1>6, <1>8, <1>9, <1>10 DEF SessionsInv

LEMMA RolesChange ==
    ASSUME SessionsInv, NEW c \in Changes, AssignUserRoles(c) \/ ChangeStatus(c)
    PROVE  SessionsInv'
<1>1. c \in Calls
  BY DEF Calls
<1>2. CallKnows(c, pc[c], seen[c])
  BY <1>1 DEF SessionsInv, Known
<1>3. CASE AssignUserRoles(c)
  <2>1. c \in RoleChanges /\ NewRoles[c] \in SUBSET Roles
    BY <1>3, SessionsAssumption DEF AssignUserRoles
  <2>2. pc[c] = "checked" /\ pc' = [pc EXCEPT ![c] = "ending"] /\ active' = active
    BY <1>3 DEF AssignUserRoles, Goto
  <2>3. SystemAdmin \in seen[c].roles \ NewRoles[c] => Others(c, seen[c])
    BY <1>2, <2>1, <2>2 DEF CallKnows
  <2> QED BY <1>3, <2>1, <2>2, <2>3, RolesAreSet DEF AssignUserRoles
<1>4. CASE ChangeStatus(c)
  <2>1. c \in Deactivations /\ {} \in SUBSET Roles
    BY <1>4 DEF ChangeStatus
  <2>2. pc[c] = "loaded" /\ pc' = [pc EXCEPT ![c] = "ending"] /\ active' \subseteq active
    BY <1>4 DEF ChangeStatus, Goto
  <2>3. SystemAdmin \in seen[c].roles \ {} => Others(c, seen[c])
    BY <1>2, <2>1, <2>2 DEF CallKnows
  <2> QED BY <1>4, <2>1, <2>2, <2>3, RolesAreSet DEF ChangeStatus
<1> QED BY <1>3, <1>4

\* A step of a change or a logout that leaves accounts, requests and codes alone.
LEMMA EndingStep ==
    ASSUME SessionsInv, NEW c \in Changes \cup Logouts, NEW p \in Places, NEW r \in Notes,
           p \notin {"checked", "loaded", "listed"}, p = "deleted" => r.user \in Users,
           pc' = [pc EXCEPT ![c] = p], seen' = [seen EXCEPT ![c] = r],
           UNCHANGED <<active, roles, requests, codes, now, outdated, crashes>>,
           granted' \in [Roles -> SUBSET Permissions],
           session' \in [Tokens -> StoredSessions \cup {None}],
           index' \in [Users -> [tokens : SUBSET Tokens, expires : Nat \cup {None}]],
           overtaken' \cup dropped' \cup lapsed' \subseteq Tokens
    PROVE  SessionsInv'
<1>1. c \in Calls /\ c \notin Tokens \cup Continues
  BY SessionsAssumption DEF Calls
<1>2. CallKnows(c, p, r)
  BY <1>1 DEF CallKnows, Tokens
<1>s. Shapes /\ Known
  BY DEF SessionsInv
<1>m. /\ pc' = [pc EXCEPT ![c] = p] /\ seen' = [seen EXCEPT ![c] = r]
      /\ c \in Calls /\ p \in Places /\ r \in Notes /\ CallKnows(c, p, r)
  BY <1>1, <1>2
<1>3. /\ pc' \in [Calls -> Places] /\ seen' \in [Calls -> Notes] /\ Known'
      /\ \A d \in Calls : pc'[d] = IF d = c THEN p ELSE pc[d]
  BY <1>s, <1>m, CallMoves
<1>4. Shapes'
  BY <1>3 DEF SessionsInv, Shapes, TypeOK, Places
<1>5. TakenOnce'
  <2>1. Continues \subseteq Calls /\ Exchanges \subseteq Calls /\ Exchanges \subseteq Tokens
    BY DEF Calls, Tokens
  <2>2. \A k \in Continues : (TookRequest(k)' <=> TookRequest(k)) /\ pc'[k] = pc[k]
    BY <1>1, <1>3, <2>1 DEF TookRequest
  <2>3. \A x \in Exchanges : TookCode(x)' <=> TookCode(x)
    BY <1>1, <1>3, <2>1 DEF TookCode
  <2> QED BY <2>2, <2>3, NothingTaken
<1> QED BY <1>3, <1>4, <1>5 DEF SessionsInv, Administrators

LEMMA SessionsEnd ==
    ASSUME SessionsInv, NEW c \in Changes \cup Logouts,
           \/ c \in Changes /\ AssignRolePermissions(c)
           \/ DeleteTokens(c)
           \/ DeleteIndex(c)
    PROVE  SessionsInv'
<1>1. c \in Calls /\ seen \in [Calls -> Notes] /\ seen[c] \in Notes
  BY DEF SessionsInv, Shapes, Calls
<1>2. /\ granted \in [Roles -> SUBSET Permissions]
      /\ session \in [Tokens -> StoredSessions \cup {None}]
      /\ index \in [Users -> [tokens : SUBSET Tokens, expires : Nat \cup {None}]]
      /\ overtaken \cup dropped \cup lapsed \subseteq Tokens
  BY DEF SessionsInv, Shapes, TypeOK
<1>3. CASE AssignRolePermissions(c)
  <2> DEFINE p == IF seen[c].users = {} THEN "done" ELSE "ending"
  <2>1. p \in Places /\ p \notin {"checked", "loaded", "listed", "deleted"}
    BY DEF Places
  <2>2. pc' = [pc EXCEPT ![c] = p] /\ seen' = [seen EXCEPT ![c] = seen[c]]
    BY <1>1, <1>3 DEF AssignRolePermissions, Goto
  <2>3. granted' \in [Roles -> SUBSET Permissions]
    BY <1>2, <1>3, SessionsAssumption DEF AssignRolePermissions
  <2>4. /\ overtaken' \cup dropped' \cup lapsed' \subseteq Tokens
        /\ UNCHANGED <<active, roles, requests, codes, now, outdated, crashes, session, index>>
    BY <1>2, <1>3 DEF AssignRolePermissions, redis
  <2> HIDE DEF p
  <2> QED BY <1>1, <1>2, <2>1, <2>2, <2>3, <2>4, EndingStep
<1>4. CASE DeleteTokens(c)
  <2>1. /\ pc' = [pc EXCEPT ![c] = "deleted"] /\ seen' = [seen EXCEPT ![c] = seen[c]]
        /\ UNCHANGED <<active, roles, granted, requests, codes, now, outdated, crashes, index>>
    BY <1>1, <1>4 DEF DeleteTokens, Goto, database
  <2>2. session' \in [Tokens -> StoredSessions \cup {None}]
    BY <1>2, <1>4 DEF DeleteTokens
  <2>3. overtaken' \cup dropped' \cup lapsed' \subseteq Tokens
    BY <1>2, <1>4 DEF DeleteTokens, Issuing
  <2>4. pc[c] = "listed" /\ CallKnows(c, pc[c], seen[c])
    BY <1>4 DEF DeleteTokens, Goto, Calls, SessionsInv, Known
  <2>5. seen[c].user \in Users
    BY <2>4 DEF CallKnows
  <2> QED BY <1>1, <1>2, <2>1, <2>2, <2>3, <2>5, EndingStep DEF Places
<1>5. CASE DeleteIndex(c)
  <2> DEFINE left == seen[c].users \ {seen[c].user}
             p == IF left = {} THEN "done" ELSE "ending"
             r == [seen[c] EXCEPT !.users = left, !.user = None, !.tokens = {}]
  <2>1. p \in Places /\ p \notin {"checked", "loaded", "listed", "deleted"}
    BY DEF Places
  <2>2. left \in SUBSET Users
    BY <1>1 DEF Notes
  <2>3. /\ pc' = [pc EXCEPT ![c] = p]
        /\ seen' = [seen EXCEPT ![c].users = left, ![c].user = None, ![c].tokens = {}]
        /\ UNCHANGED <<active, roles, granted, requests, codes, now, outdated, crashes, session>>
        /\ index' = [index EXCEPT ![seen[c].user] = NoEntry]
    BY <1>5 DEF DeleteIndex, Goto, database
  <2>4. overtaken' \cup dropped' \cup lapsed' \subseteq Tokens
    <3>1. pc[c] = "deleted" /\ CallKnows(c, pc[c], seen[c])
      BY <1>5 DEF DeleteIndex, Goto, Calls, SessionsInv, Known
    <3>2. dropped' = dropped \cup (index[seen[c].user].tokens \ seen[c].tokens)
          /\ overtaken' = overtaken /\ lapsed' = lapsed
      BY <1>5 DEF DeleteIndex
    <3>3. seen[c].user \in Users
      BY <3>1 DEF CallKnows
    <3> QED BY <1>2, <3>2, <3>3
  <2> HIDE DEF left, p
  <2>5. r \in Notes
    BY <1>1, <2>2 DEF Notes
  <2>6. seen' = [seen EXCEPT ![c] = r]
    BY <1>1, <2>3 DEF Notes
  <2>7. index' \in [Users -> [tokens : SUBSET Tokens, expires : Nat \cup {None}]]
    BY <1>2, <2>3 DEF NoEntry
  <2> HIDE DEF r
  <2> QED BY <1>2, <2>1, <2>3, <2>4, <2>5, <2>6, <2>7, EndingStep
<1> QED BY <1>3, <1>4, <1>5

LEMMA TimePasses == SessionsInv /\ Tick => SessionsInv'
<1> SUFFICES ASSUME SessionsInv, Tick PROVE SessionsInv'
  OBVIOUS
<1>1. /\ UNCHANGED <<active, roles, granted, pc, seen, overtaken, dropped, outdated, crashes>>
      /\ requests' = {} /\ codes' = [k \in Continues |-> None] /\ now' = now + 1
  BY DEF Tick, database
<1>2. /\ session \in [Tokens -> StoredSessions \cup {None}]
      /\ index \in [Users -> [tokens : SUBSET Tokens, expires : Nat \cup {None}]]
  BY DEF SessionsInv, Shapes, TypeOK
<1>3. session' \in [Tokens -> StoredSessions \cup {None}]
  BY <1>2 DEF Tick
<1>4. index' \in [Users -> [tokens : SUBSET Tokens, expires : Nat \cup {None}]]
  BY <1>2 DEF Tick, NoEntry
<1>5. lapsed' \subseteq Tokens
  BY DEF Tick, SessionsInv, Shapes, TypeOK
<1>6. Shapes'
  BY <1>1, <1>3, <1>4, <1>5 DEF SessionsInv, Shapes, TypeOK
<1>7. Known'
  BY <1>1 DEF SessionsInv, Known, CallKnows, Others
<1>8. TakenOnce'
  <2>1. \A k \in Continues : TookRequest(k)' <=> TookRequest(k)
    BY <1>1 DEF TookRequest
  <2>2. \A x \in Exchanges : TookCode(x)' <=> TookCode(x)
    BY <1>1 DEF TookCode
  <2> QED BY <1>1, <2>1, <2>2, NothingTaken
<1> QED BY <1>1, <1>6, <1>7, <1>8 DEF SessionsInv, Administrators

LEMMA SessionsStay == SessionsInv /\ UNCHANGED vars => SessionsInv'
BY DEF SessionsInv, Shapes, TypeOK, Known, CallKnows, Others, TakenOnce, TookRequest, TookCode,
       Administrators, vars

-----------------------------------------------------------------------------
\* What login, continue, exchange, the changes of roles and the endings keep.
THEOREM SessionsInvAlways == Spec => []SessionsInv
<1>1. SessionsInv /\ [Next]_vars => SessionsInv'
  <2> SUFFICES ASSUME SessionsInv, [Next]_vars PROVE SessionsInv'
    OBVIOUS
  <2>1. CASE UNCHANGED vars
    BY <2>1, SessionsStay
  <2>2. CASE \E l \in Logins : FindAccount(l) \/ ReadRoles(l) \/ ReadPermissions(l)
    BY <2>2, LoginReads
  <2>3. CASE \E l \in Logins : StoreSession(l)
    <3>1. PICK l \in Logins : StoreSession(l)
      BY <2>3
    <3>2. l \in Tokens
      BY DEF Tokens
    <3> QED BY <3>1, <3>2, SessionIsStored
  <2>4. CASE \E t \in Tokens : IndexSession(t) \/ ExpireIndex(t)
    BY <2>4, SessionIsIndexed
  <2>5. CASE \E k \in Continues : TakeRequest(k) \/ StoreCode(k)
    BY <2>5, RequestIsTaken
  <2>6. CASE \E k \in Continues, t \in Tokens : ReadRequest(k, t)
    BY <2>6, RequestIsRead
  <2>7. CASE \E x \in Exchanges : ReadCode(x) \/ ReadCentralSession(x)
    BY <2>7, CodeIsRead
  <2>8. CASE \E x \in Exchanges : TakeCode(x)
    BY <2>8, CodeIsTaken
  <2>9. CASE \E x \in Exchanges : StoreDelegatedSession(x)
    <3>1. PICK x \in Exchanges : StoreDelegatedSession(x)
      BY <2>9
    <3>2. x \in Tokens
      BY DEF Tokens
    <3> QED BY <3>1, <3>2, SessionIsStored
  <2>10. CASE \E c \in Changes : ReadTarget(c) \/ CheckRoles(c) \/ CheckStatus(c) \/ LoadIdentity(c) \/ ReadHolders(c)
    BY <2>10, ChangesAreChecked
  <2>11. CASE \E c \in Changes : AssignUserRoles(c) \/ ChangeStatus(c)
    BY <2>11, RolesChange
  <2>12. CASE \E c \in Changes : AssignRolePermissions(c)
    BY <2>12, SessionsEnd
  <2>13. CASE \E c \in Changes : Crash(c)
    BY <2>13, EndingBegins
  <2>14. CASE \E o \in Logouts, t \in Tokens : Logout(o, t)
    BY <2>14, EndingBegins
  <2>15. CASE \E c \in Changes \cup Logouts : DeleteTokens(c) \/ DeleteIndex(c)
    BY <2>15, SessionsEnd
  <2>16. CASE \E c \in Changes \cup Logouts, u \in Users : ListTokens(c, u)
    BY <2>16, EndingBegins
  <2>17. CASE Tick
    BY <2>17, TimePasses
  <2> QED
    BY <2>1, <2>2, <2>3, <2>4, <2>5, <2>6, <2>7, <2>8, <2>9, <2>10, <2>11, <2>12, <2>13,
       <2>14, <2>15, <2>16, <2>17 DEF Next
<1> QED BY <1>1, SessionsBegin, PTL DEF Spec

LEMMA AtMostOne ==
    ASSUME NEW S, \A a, b \in S : a = b
    PROVE  Cardinality(S) <= 1
<1>1. CASE S = {}
  BY <1>1, FS_EmptySet
<1>2. CASE S # {}
  <2>1. PICK a \in S : TRUE
    BY <1>2
  <2>2. S = {a}
    BY <2>1
  <2> QED BY <2>2, FS_Singleton
<1> QED BY <1>1, <1>2

\* Of the calls of continue that carry one request at most one gets a code, and
\* of the calls of exchange that carry one code at most one gets a session,
\* whatever their order: takeIfValue and take decide, not the reads before.
THEOREM HandoversOnce == Spec => []HandoversAreUsedOnce
<1>1. SessionsInv => HandoversAreUsedOnce
  <2> SUFFICES ASSUME SessionsInv PROVE HandoversAreUsedOnce
    OBVIOUS
  <2>1. ASSUME NEW r \in Requests
        PROVE  Cardinality({k \in Continues :
                    RequestOf[k] = r /\ pc[k] \in {"storing", "done"}}) <= 1
    <3> DEFINE S == {k \in Continues : RequestOf[k] = r /\ pc[k] \in {"storing", "done"}}
    <3>1. \A k, m \in S : k = m
      BY DEF SessionsInv, TakenOnce, TookRequest
    <3> HIDE DEF S
    <3>2. Cardinality(S) <= 1
      BY <3>1, AtMostOne
    <3> QED BY <3>2 DEF S
  <2>2. ASSUME NEW k \in Continues
        PROVE  Cardinality({x \in Exchanges :
                    CodeOf[x] = k /\ pc[x] \in {"storing", "indexing", "expiring", "done"}}) <= 1
    <3> DEFINE S == {x \in Exchanges : CodeOf[x] = k /\ pc[x] \in {"storing", "indexing", "expiring", "done"}}
    <3>1. \A x, y \in S : x = y
      BY DEF SessionsInv, TakenOnce, TookCode
    <3> HIDE DEF S
    <3>2. Cardinality(S) <= 1
      BY <3>1, AtMostOne
    <3> QED BY <3>2 DEF S
  <2> QED BY <2>1, <2>2 DEF HandoversAreUsedOnce
<1> QED BY <1>1, SessionsInvAlways, PTL

\* A system administrator remains, unless one was removed on a check that
\* another change had overtaken (assignUserRoles, updateUserStatus).
THEOREM AdministratorRemains == Spec => []AnAdministratorRemains
<1>1. SessionsInv => AnAdministratorRemains
  BY DEF SessionsInv, AnAdministratorRemains
<1> QED BY <1>1, SessionsInvAlways, PTL

-----------------------------------------------------------------------------
(***************************************************************************)
(* The endings of sessions.  Three things hold together: what anybody      *)
(* holds has been issued and was stored as it was read (Issued); a session *)
(* is found under its user in the index, and what an ending has listed is  *)
(* deleted before the index is (Listed); what a call carries, or a session *)
(* says, is current, or a change has yet to list it (Explained).           *)
(***************************************************************************)
USE DEF Entered

InProgress == {"reading", "taking", "storing", "indexing"}

\* Tokens no ending of sessions can find any more, and all that are excused.
Unlisted == dropped \cup lapsed
Excused == overtaken \cup dropped \cup lapsed

\* What the token t is being issued with is what the database says now.
Current(t) ==
    LET r == seen[t]
        unread == IF pc[t] = "reading" THEN {None} ELSE {}
    IN  /\ r.user \in active
        /\ r.roles \in unread \cup {GrantsOf(r.user).roles}
        /\ r.permissions \in unread \cup {GrantsOf(r.user).permissions}

\* The change c has yet to list the tokens of u.
StillToList(c, u) ==
    /\ u \in seen[c].users
    /\ \/ pc[c] \in {"ending", "crashed"}
       \/ pc[c] \in {"listed", "deleted"} /\ seen[c].user # u

\* A token that anybody holds has been issued, and an issued session is as
\* the call that issued it had read it.
Issued ==
    /\ \A l \in Logins :
        /\ pc[l] = "idle" => seen[l] = Nothing
        /\ pc[l] \in {"reading", "indexing"} => seen[l].user = UserOf[l]
    /\ \A c \in Calls : seen[c].token # None => Entered(seen[c].token)
    /\ \A c \in Calls : \A t \in seen[c].tokens : Entered(t)
    /\ \A k \in Continues : codes[k] # None => Entered(codes[k])
    /\ \A u \in Users : \A t \in index[u].tokens : Entered(t)
    /\ \A t \in Tokens : session[t] # None =>
        /\ pc[t] \in {"indexing", "expiring", "done"}
        /\ pc[t] = "indexing" =>
            /\ session[t].user = seen[t].user
            /\ session[t].roles = seen[t].roles
            /\ session[t].permissions = seen[t].permissions

\* A session is listed under its user, what a call has deleted stays deleted,
\* and a logout is after its own session.
Listed ==
    /\ \A t \in Tokens : Entered(t) /\ session[t] # None =>
        t \in Unlisted \/ t \in index[session[t].user].tokens
    /\ \A c \in Changes \cup Logouts : pc[c] = "deleted" =>
        \A t \in seen[c].tokens : session[t] = None
    /\ \A o \in Logouts : pc[o] \in {"ending", "listed", "deleted", "done"} =>
        LET t == seen[o].token IN
        /\ t \in Tokens
        /\ \/ session[t] = None
           \/ t \in Unlisted
           \/ pc[o] = "ending" /\ seen[o].users = {session[t].user}
           \/ pc[o] = "listed" /\ t \in seen[o].tokens

\* A session being issued says what the database says, or a change has yet to
\* list the tokens of its user.
Explained ==
    /\ \A t \in Tokens : pc[t] \in InProgress /\ t \notin Excused =>
        \/ Current(t)
        \/ \E c \in Changes : StillToList(c, seen[t].user)
    /\ StaleSessionsAreExplained

LEMMA Kinds ==
    ASSUME SessionsInv
    PROVE  /\ pc \in [Calls -> Places] /\ seen \in [Calls -> Notes]
           /\ roles \in [Users -> SUBSET Roles] /\ granted \in [Roles -> SUBSET Permissions]
           /\ session \in [Tokens -> StoredSessions \cup {None}]
           /\ index \in [Users -> [tokens : SUBSET Tokens, expires : Nat \cup {None}]]
           /\ codes \in [Continues -> Tokens \cup {None}]
BY DEF SessionsInv, Shapes, TypeOK, Places

LEMMA CallsAreApart ==
    /\ Calls = Tokens \cup Continues \cup Changes \cup Logouts
    /\ Tokens = Logins \cup Exchanges
    /\ Logins \cap Exchanges = {}
    /\ Tokens \cap (Continues \cup Changes \cup Logouts) = {}
    /\ Continues \cap (Changes \cup Logouts) = {}
    /\ Logouts \cap Changes = {} /\ None \notin Tokens
BY SessionsAssumption DEF Calls, Tokens, Changes

\* Every step but that of time is one of a single call c.
Moved(c) == \A d \in Calls \ {c} : pc'[d] = pc[d] /\ seen'[d] = seen[d]

LEMMA IssuedStays ==
    ASSUME SessionsInv, Issued, NEW c \in Calls, Moved(c),
           c \in Tokens /\ Entered(c) => Entered(c)',
           c \in Logins => /\ pc'[c] # "idle"
                           /\ pc'[c] \in {"reading", "indexing"} => seen'[c].user = UserOf[c],
           seen'[c].token # None => seen'[c].token = seen[c].token \/ pc[seen'[c].token] \in {"expiring", "done"},
           seen'[c].token \in Tokens \cup {None}, seen'[c].tokens \subseteq Tokens,
           \A t \in seen'[c].tokens : t \in seen[c].tokens \/ Entered(t),
           \A k \in Continues : codes'[k] # None =>
                codes'[k] = codes[k] \/ (codes'[k] \in Tokens /\ pc[codes'[k]] \in {"expiring", "done"}),
           \A u \in Users : \A t \in index'[u].tokens :
                t \in index[u].tokens \/ (t \in Tokens /\ Entered(t)'),
           \A t \in Tokens \ {c} : session'[t] # None => session'[t] = session[t],
           c \in Tokens /\ session'[c] # None =>
                /\ pc'[c] \in {"indexing", "expiring", "done"}
                /\ pc'[c] = "indexing" => /\ session'[c].user = seen'[c].user
                                          /\ session'[c].roles = seen'[c].roles
                                          /\ session'[c].permissions = seen'[c].permissions
    PROVE  Issued'
<1>1. /\ Tokens \subseteq Calls /\ Logins \subseteq Calls
      /\ \A t \in Tokens : Entered(t) => Entered(t)'
      /\ \A d \in Calls : seen[d].token \in Tokens \cup {None} /\ seen[d].tokens \subseteq Tokens
      /\ \A k \in Continues : codes[k] \in Tokens \cup {None}
      /\ \A u \in Users : index[u].tokens \subseteq Tokens
  BY CallsAreApart, Kinds DEF Moved, Notes
<1>2. \A l \in Logins : /\ pc'[l] = "idle" => seen'[l] = Nothing
                        /\ pc'[l] \in {"reading", "indexing"} => seen'[l].user = UserOf[l]
  BY <1>1 DEF Issued, Moved
<1>3. \A d \in Calls : seen'[d].token # None => pc'[seen'[d].token] \in {"expiring", "done"}
  BY <1>1 DEF Issued, Moved
<1>4. \A d \in Calls : \A t \in seen'[d].tokens : Entered(t)'
  BY <1>1 DEF Issued, Moved
<1>5. /\ \A k \in Continues : codes'[k] # None => pc'[codes'[k]] \in {"expiring", "done"}
      /\ \A u \in Users : \A t \in index'[u].tokens : Entered(t)'
  BY <1>1 DEF Issued
<1>6. ASSUME NEW t \in Tokens, session'[t] # None
      PROVE  /\ pc'[t] \in {"indexing", "expiring", "done"}
             /\ pc'[t] = "indexing" =>
                    /\ session'[t].user = seen'[t].user
                    /\ session'[t].roles = seen'[t].roles
                    /\ session'[t].permissions = seen'[t].permissions
  BY <1>1, <1>6 DEF Issued, Moved
<1> QED BY <1>2, <1>3, <1>4, <1>5, <1>6 DEF Issued

\* Where a logout is after its session.
After(o) ==
    LET t == seen[o].token IN
    pc[o] \in {"ending", "listed", "deleted", "done"} =>
        /\ t \in Tokens
        /\ \/ session[t] = None
           \/ t \in Unlisted
           \/ pc[o] = "ending" /\ seen[o].users = {session[t].user}
           \/ pc[o] = "listed" /\ t \in seen[o].tokens

LEMMA ListedStays ==
    ASSUME SessionsInv, Issued, Listed, NEW c \in Calls, Moved(c),
           Unlisted \subseteq Unlisted',
           \A t \in Tokens : Entered(t)' /\ session'[t] # None =>
                /\ session'[t] = session[t]
                /\ Entered(t) \/ t \in index'[session'[t].user].tokens,
           \A t \in Tokens : Entered(t) => session'[t] \in {session[t], None},
           \A u \in Users : \A t \in index[u].tokens :
                t \in index'[u].tokens \/ t \in Unlisted' \/ session'[t] = None,
           c \in Changes \cup Logouts /\ pc'[c] = "deleted" =>
                \A t \in seen'[c].tokens : t \in Tokens /\ session'[t] = None,
           c \in Logouts => After(c)'
    PROVE  Listed'
<1>1. /\ Tokens \subseteq Calls /\ Changes \cup Logouts \subseteq Calls
      /\ \A d \in Calls : seen[d].token \in Tokens \cup {None} /\ seen[d].tokens \subseteq Tokens
      /\ \A t \in Tokens : session[t] # None => session[t].user \in Users
  BY CallsAreApart, Kinds DEF Notes, StoredSessions
<1>2. \A t \in Tokens : Entered(t)' /\ session'[t] # None =>
        t \in Unlisted' \/ t \in index'[session'[t].user].tokens
  BY <1>1 DEF Listed
<1>3. ASSUME NEW d \in Changes \cup Logouts, pc'[d] = "deleted", NEW t \in seen'[d].tokens
      PROVE  session'[t] = None
  <2>1. CASE d = c
    BY <1>3, <2>1
  <2>2. CASE d # c
    <3>1. pc[d] = "deleted" /\ t \in seen[d].tokens /\ t \in Tokens /\ d \in Calls
      BY <1>1, <1>3, <2>2 DEF Moved
    <3>2. session[t] = None /\ Entered(t)
      BY <3>1 DEF Listed, Issued
    <3> QED BY <3>1, <3>2
  <2> QED BY <2>1, <2>2
<1>4. ASSUME NEW o \in Logouts PROVE After(o)'
  <2>1. CASE o # c
    <3>1. pc'[o] = pc[o] /\ seen'[o] = seen[o] /\ After(o)
      BY <1>1, <2>1 DEF Moved, Listed, After
    <3>2. seen[o].token \in Tokens => Entered(seen[o].token)
      BY <1>1, CallsAreApart DEF Issued
    <3> QED BY <3>1, <3>2 DEF After
  <2> QED BY <2>1
<1> QED BY <1>2, <1>3, <1>4 DEF Listed, After

\* The change c is going to end the sessions of u, or died before it did.
Ends(c, u) == pc[c] \in {"ending", "listed", "deleted", "crashed"} /\ u \in seen[c].users

\* What the step of a call must not leave unexplained, as the database stays.
LEMMA ExplainedStays ==
    ASSUME SessionsInv, Issued, Explained, NEW c \in Calls, Moved(c), UNCHANGED database,
           Excused \subseteq Excused',
           \A t \in Tokens \ {c} : session'[t] # None => session'[t] = session[t],
           \A u : c \in Changes /\ StillToList(c, u) /\ ~StillToList(c, u)' =>
                \A t \in Tokens : ~Entered(t) /\ seen[t].user = u => t \in Excused',
           \A u : c \in Changes /\ Ends(c, u) /\ ~Ends(c, u)' =>
                \A t \in Tokens : Entered(t) /\ session[t] # None /\ session[t].user = u =>
                    session'[t] = None \/ t \in Excused',
           c \in Tokens /\ pc'[c] \in InProgress /\ c \notin Excused' =>
                \/ Current(c)'
                \/ \E d \in Changes : StillToList(d, seen[c].user)',
           c \in Tokens /\ Entered(c)' /\ Stale(c)' =>
                BeingEnded(session[c].user)' \/ c \in Excused'
    PROVE  Explained'
<1>1. /\ Tokens \subseteq Calls /\ Changes \subseteq Calls
      /\ active' = active /\ \A u : GrantsOf(u)' = GrantsOf(u)
  BY CallsAreApart DEF database, GrantsOf
<1>2. ASSUME NEW t \in Tokens, pc'[t] \in InProgress, t \notin Excused'
      PROVE  \/ Current(t)'
             \/ \E d \in Changes : StillToList(d, seen[t].user)'
  <2>1. CASE t # c
    <3>1. pc'[t] = pc[t] /\ seen'[t] = seen[t] /\ t \notin Excused /\ ~Entered(t)
      BY <1>1, <1>2, <2>1 DEF Moved, InProgress
    <3>2. CASE Current(t)
      BY <1>1, <3>1, <3>2 DEF Current
    <3>3. CASE \E d \in Changes : StillToList(d, seen[t].user)
      <4>1. PICK d \in Changes : StillToList(d, seen[t].user)
        BY <3>3
      <4>2. CASE d = c
        BY <1>2, <3>1, <4>1, <4>2
      <4>3. CASE d # c
        <5>1. StillToList(d, seen[t].user)'
          BY <1>1, <3>1, <4>1, <4>3 DEF Moved, StillToList
        <5> QED BY <3>1, <5>1
      <4> QED BY <4>2, <4>3
    <3> QED BY <1>2, <3>1, <3>2, <3>3 DEF Explained
  <2> QED BY <1>2, <2>1
<1>3. ASSUME NEW t \in Tokens, Entered(t)', Stale(t)'
      PROVE  BeingEnded(session[t].user)' \/ t \in Excused'
  <2>1. CASE t # c
    <3>1. Entered(t) /\ session'[t] = session[t] /\ session[t] # None /\ session'[t] # None
      BY <1>1, <1>3, <2>1 DEF Moved, Stale
    <3>2. Stale(t)
      BY <1>1, <1>3, <3>1 DEF Stale
    <3>3. t \in Excused \/ \E d \in Changes : Ends(d, session[t].user)
      BY <3>1, <3>2 DEF Explained, StaleSessionsAreExplained, BeingEnded, Ends, Excused
    <3>4. CASE \E d \in Changes : Ends(d, session[t].user)
      <4>1. PICK d \in Changes : Ends(d, session[t].user)
        BY <3>4
      <4>2. CASE d = c
        BY <3>1, <4>1, <4>2 DEF BeingEnded, Ends
      <4>3. CASE d # c
        <5>1. Ends(d, session[t].user)'
          BY <1>1, <3>1, <4>1, <4>3 DEF Moved, Ends
        <5> QED BY <3>1, <5>1 DEF BeingEnded, Ends
      <4> QED BY <4>2, <4>3
    <3> QED BY <3>3, <3>4
  <2> QED BY <1>3, <2>1
<1> QED BY <1>2, <1>3 DEF Explained, StaleSessionsAreExplained, Excused

-----------------------------------------------------------------------------
\* What the steps of each kind do, call by call.
LEMMA ReadingMoves ==
    ASSUME SessionsInv, NEW l \in Logins, FindAccount(l) \/ ReadRoles(l) \/ ReadPermissions(l)
    PROVE  /\ l \in Calls /\ Moved(l) /\ pc[l] \in {"idle", "reading"} /\ pc'[l] = "reading"
           /\ seen'[l].token = seen[l].token /\ seen'[l].tokens = seen[l].tokens
           /\ IF pc[l] = "idle"
              THEN /\ seen'[l].user = UserOf[l] /\ UserOf[l] \in active
                   /\ seen'[l].roles = seen[l].roles /\ seen'[l].permissions = seen[l].permissions
              ELSE /\ seen'[l].user = seen[l].user
                   /\ seen'[l].roles \in {seen[l].roles, GrantsOf(UserOf[l]).roles}
                   /\ seen'[l].permissions \in {seen[l].permissions, GrantsOf(UserOf[l]).permissions}
           /\ UNCHANGED <<database, redis, overtaken, dropped, lapsed>>
<1>1. l \in Calls /\ seen[l] \in Notes
  BY CallsAreApart, Kinds
<1>2. CASE FindAccount(l)
  BY <1>1, <1>2, Kinds DEF FindAccount, Goto, Moved, Notes, history, ghosts
<1>3. CASE ReadRoles(l)
  BY <1>1, <1>3, Kinds DEF ReadRoles, Moved, Notes, history, ghosts
<1>4. CASE ReadPermissions(l)
  BY <1>1, <1>4, Kinds DEF ReadPermissions, Moved, Notes, history, ghosts
<1> QED BY <1>2, <1>3, <1>4

LEMMA HandoverMoves ==
    ASSUME SessionsInv, NEW c \in Continues \cup Exchanges,
           \/ c \in Continues /\ (TakeRequest(c) \/ StoreCode(c) \/ \E t \in Tokens : ReadRequest(c, t))
           \/ c \in Exchanges /\ (ReadCode(c) \/ TakeCode(c))
    PROVE  /\ c \in Calls /\ c \notin Logins \cup Changes \cup Logouts /\ Moved(c)
           /\ c \in Tokens => \/ pc[c] = "idle" /\ pc'[c] = "coded"
                              \/ /\ pc[c] = "taking" /\ pc'[c] \in {"storing", "refused"}
                                 /\ seen'[c] = seen[c]
           /\ \/ seen'[c].token \in {seen[c].token, None}
              \/ seen'[c].token \in Tokens /\ pc[seen'[c].token] \in {"expiring", "done"}
              \/ \E k \in Continues : codes[k] # None /\ seen'[c].token = codes[k]
           /\ seen'[c].tokens \subseteq seen[c].tokens
           /\ \A k \in Continues : codes'[k] \in {codes[k], None, seen[c].token}
           /\ UNCHANGED <<database, session, index, overtaken, dropped, lapsed>>
<1>1. /\ c \in Calls /\ c \notin Logins \cup Changes \cup Logouts /\ seen[c] \in Notes
      /\ c \in Tokens => c \in Exchanges
      /\ c \in Continues => c \notin Tokens
      /\ c \in Exchanges => CodeOf[c] \in Continues
  BY CallsAreApart, Kinds, SessionsAssumption
<1>2. CASE c \in Continues /\ \E t \in Tokens : ReadRequest(c, t)
  <2> PICK t \in Tokens : ReadRequest(c, t)
    BY <1>2
  <2>1. c \notin Tokens
    BY <1>1, <1>2
  <2> QED BY <1>1, <2>1, Kinds DEF ReadRequest, Goto, Moved, Notes, redis, history, ghosts
<1>3. CASE TakeRequest(c)
  <2>1. c \in Continues /\ c \notin Tokens
    BY <1>1, <1>3 DEF TakeRequest
  <2> QED BY <1>1, <1>3, <2>1, Kinds DEF TakeRequest, Goto, Moved, Notes, history, ghosts
<1>4. CASE StoreCode(c)
  BY <1>1, <1>4, Kinds DEF StoreCode, Finish, Goto, Moved, Notes, Nothing, history, ghosts
<1>5. CASE c \in Exchanges /\ ReadCode(c)
  BY <1>1, <1>5, Kinds DEF ReadCode, Goto, Moved, Notes, redis, history, ghosts
<1>6. CASE TakeCode(c)
  BY <1>1, <1>6, Kinds DEF TakeCode, Goto, Moved, Notes, history, ghosts
<1> QED BY <1>2, <1>3, <1>4, <1>5, <1>6

LEMMA CopyMoves ==
    ASSUME SessionsInv, NEW x \in Exchanges, ReadCentralSession(x)
    PROVE  LET t == seen[x].token IN
           /\ x \in Calls /\ x \in Tokens /\ x \notin Logins \cup Changes \cup Logouts /\ Moved(x)
           /\ pc[x] = "coded" /\ pc'[x] = "taking"
           /\ t \in Tokens /\ session[t] # None
           /\ seen'[x].token = t /\ seen'[x].tokens = seen[x].tokens
           /\ seen'[x].user = session[t].user
           /\ seen'[x].roles = session[t].roles /\ seen'[x].permissions = session[t].permissions
           /\ overtaken \subseteq overtaken'
           /\ t \in Excused \/ InTheAct(session[t].user) => x \in overtaken'
           /\ UNCHANGED <<database, redis, dropped, lapsed>>
<1>1. /\ x \in Calls /\ x \in Tokens /\ x \notin Logins \cup Changes \cup Logouts /\ seen[x] \in Notes
  BY CallsAreApart, Kinds
<1>2. pc[x] = "coded" /\ CallKnows(x, pc[x], seen[x])
  BY <1>1 DEF ReadCentralSession, Goto, SessionsInv, Known
<1>3. seen[x].token \in Tokens
  BY <1>2 DEF CallKnows
<1>4. session[seen[x].token] # None
  BY DEF ReadCentralSession, Admits
<1>5. seen[x].token \in Excused \/ InTheAct(session[seen[x].token].user) => x \in overtaken'
  BY DEF ReadCentralSession, Excused
<1>6. overtaken \subseteq overtaken' /\ UNCHANGED <<database, redis, dropped, lapsed>>
  BY DEF ReadCentralSession
<1>7. /\ Moved(x) /\ pc'[x] = "taking"
      /\ seen'[x].token = seen[x].token /\ seen'[x].tokens = seen[x].tokens
      /\ seen'[x].user = session[seen[x].token].user
      /\ seen'[x].roles = session[seen[x].token].roles
      /\ seen'[x].permissions = session[seen[x].token].permissions
  BY <1>1, Kinds DEF ReadCentralSession, Goto, Moved, Notes
<1> QED BY <1>1, <1>2, <1>3, <1>4, <1>5, <1>6, <1>7

LEMMA StoringMoves ==
    ASSUME SessionsInv, NEW t \in Tokens,
           \/ t \in Logins /\ StoreSession(t)
           \/ t \in Exchanges /\ StoreDelegatedSession(t)
    PROVE  /\ t \in Calls /\ t \notin Changes \cup Logouts /\ Moved(t)
           /\ pc[t] \in {"reading", "storing"} /\ pc'[t] = "indexing" /\ seen'[t] = seen[t]
           /\ t \in Logins => pc[t] = "reading"
           /\ pc[t] = "reading" => seen[t].roles # None /\ seen[t].permissions # None
           /\ \A s \in Tokens \ {t} : session'[s] = session[s]
           /\ session'[t].user = seen[t].user
           /\ session'[t].roles = seen[t].roles /\ session'[t].permissions = seen[t].permissions
           /\ UNCHANGED <<database, index, codes, overtaken, dropped, lapsed>>
<1>1. t \in Calls /\ t \notin Changes \cup Logouts /\ (t \in Logins <=> t \notin Exchanges)
  BY CallsAreApart
<1>2. /\ session' = [session EXCEPT ![t] = Stored(t)] /\ pc' = [pc EXCEPT ![t] = "indexing"]
      /\ pc[t] \in {"reading", "storing"} /\ (t \in Logins => pc[t] = "reading")
      /\ pc[t] = "reading" => seen[t].roles # None /\ seen[t].permissions # None
      /\ seen' = seen /\ UNCHANGED <<database, index, codes, overtaken, dropped, lapsed>>
  BY <1>1 DEF StoreSession, StoreDelegatedSession, Goto, history, ghosts
<1>4. session'[t] = Stored(t) /\ \A s \in Tokens \ {t} : session'[s] = session[s]
  BY <1>2, Kinds
<1> QED BY <1>1, <1>2, <1>4, Kinds DEF Moved, Stored

LEMMA IndexingMoves ==
    ASSUME SessionsInv, NEW t \in Tokens, IndexSession(t)
    PROVE  /\ t \in Calls /\ t \notin Changes \cup Logouts /\ Moved(t)
           /\ pc[t] = "indexing" /\ pc'[t] = "expiring" /\ seen'[t] = seen[t] /\ seen[t].user \in Users
           /\ \A u \in Users : index'[u].tokens = IF u = seen[t].user THEN index[u].tokens \cup {t}
                                                  ELSE index[u].tokens
           /\ UNCHANGED <<database, session, codes, overtaken, dropped, lapsed>>
<1>1. t \in Calls /\ t \notin Changes \cup Logouts /\ (t \in Logins \/ t \in Exchanges)
  BY CallsAreApart
<1>2. /\ pc' = [pc EXCEPT ![t] = "expiring"] /\ seen' = seen /\ pc[t] = "indexing"
      /\ index' = [index EXCEPT ![seen[t].user] =
                    [tokens |-> @.tokens \cup {t}, expires |-> IF @.tokens = {} THEN None ELSE @.expires]]
      /\ UNCHANGED <<database, session, codes, overtaken, dropped, lapsed>>
  BY DEF IndexSession, Goto, history, ghosts
<1>3. CallKnows(t, pc[t], seen[t])
  BY <1>1 DEF SessionsInv, Known
<1>4. seen[t].user \in Users
  BY <1>1, <1>2, <1>3 DEF CallKnows
<1> QED BY <1>1, <1>2, <1>4, Kinds DEF Moved

LEMMA ExpiringMoves ==
    ASSUME SessionsInv, NEW t \in Tokens, ExpireIndex(t)
    PROVE  /\ t \in Calls /\ t \notin Changes \cup Logouts /\ Moved(t)
           /\ pc[t] = "expiring" /\ pc'[t] = "done" /\ seen'[t] = Nothing
           /\ \A u \in Users : index'[u].tokens = index[u].tokens
           /\ UNCHANGED <<database, session, codes, overtaken, dropped, lapsed>>
<1>1. t \in Calls /\ t \notin Changes \cup Logouts
  BY CallsAreApart
<1>2. /\ pc' = [pc EXCEPT ![t] = "done"] /\ seen' = [seen EXCEPT ![t] = Nothing] /\ pc[t] = "expiring"
      /\ \E e : index' = [index EXCEPT ![seen[t].user].expires = e]
      /\ UNCHANGED <<database, session, codes, overtaken, dropped, lapsed>>
  BY DEF ExpireIndex, Finish, Goto, history, ghosts
<1>3. \A u \in Users : index'[u].tokens = index[u].tokens
  BY <1>2, Kinds
<1> QED BY <1>1, <1>2, <1>3, Kinds DEF Moved

LEMMA CheckingMoves ==
    ASSUME SessionsInv, NEW c \in Changes,
           ReadTarget(c) \/ CheckRoles(c) \/ CheckStatus(c) \/ LoadIdentity(c) \/ ReadHolders(c)
    PROVE  /\ c \in Calls /\ c \notin Tokens \cup Logouts /\ Moved(c)
           /\ pc[c] \in {"idle", "counting", "checked"}
           /\ pc'[c] \in {"counting", "checked", "loaded", "done"}
           /\ seen'[c].token = seen[c].token /\ seen'[c].tokens = seen[c].tokens
           /\ UNCHANGED <<database, redis, overtaken, dropped, lapsed>>
<1>1. c \in Calls /\ c \notin Tokens \cup Logouts
  BY CallsAreApart
<1>2. /\ Moved(c) /\ pc[c] \in {"idle", "counting", "checked"}
      /\ pc'[c] \in {"counting", "checked", "loaded", "done"}
      /\ UNCHANGED <<database, redis, overtaken, dropped, lapsed>>
  BY <1>1, Kinds DEF ReadTarget, CheckRoles, CheckStatus, LoadIdentity, ReadHolders, Goto, Moved,
                     history, ghosts
<1>3. seen'[c].token = seen[c].token /\ seen'[c].tokens = seen[c].tokens
  BY <1>1, Kinds DEF ReadTarget, CheckRoles, CheckStatus, LoadIdentity, ReadHolders, Notes
<1> QED BY <1>1, <1>2, <1>3

LEMMA RolesMove ==
    ASSUME SessionsInv, NEW c \in Changes, AssignUserRoles(c) \/ ChangeStatus(c)
    PROVE  LET u == UserOf[c] IN
           /\ c \in Calls /\ c \notin Tokens \cup Logouts /\ Moved(c)
           /\ pc[c] \in {"checked", "loaded"} /\ pc'[c] = "ending"
           /\ seen'[c].token = None /\ seen'[c].tokens = {} /\ seen'[c].users = {u}
           /\ \A v \in Users \ {u} : roles'[v] = roles[v] /\ (v \in active' <=> v \in active)
           /\ UNCHANGED <<granted, redis, overtaken, dropped, lapsed>>
<1>1. c \in Calls /\ c \notin Tokens \cup Logouts
  BY CallsAreApart
<1>2. /\ Moved(c) /\ pc[c] \in {"checked", "loaded"} /\ pc'[c] = "ending"
      /\ UNCHANGED <<granted, redis, overtaken, dropped, lapsed>>
      /\ seen'[c] = [Nothing EXCEPT !.users = {UserOf[c]}]
  BY <1>1, Kinds DEF AssignUserRoles, ChangeStatus, SetRoles, Goto, Moved
<1>3. \A v \in Users \ {UserOf[c]} : roles'[v] = roles[v] /\ (v \in active' <=> v \in active)
  BY Kinds DEF AssignUserRoles, ChangeStatus, SetRoles
<1> QED BY <1>1, <1>2, <1>3 DEF Nothing

LEMMA LogoutMoves ==
    ASSUME SessionsInv, NEW o \in Logouts, NEW t \in Tokens, Logout(o, t)
    PROVE  /\ o \in Calls /\ o \notin Tokens \cup Changes /\ Moved(o)
           /\ pc[o] = "idle" /\ pc'[o] = "ending" /\ session[t] # None /\ Entered(t)
           /\ seen'[o].token = t /\ seen'[o].tokens = seen[o].tokens
           /\ seen'[o].users = {session[t].user}
           /\ UNCHANGED <<database, redis, overtaken, dropped, lapsed>>
<1>1. o \in Calls /\ o \notin Tokens \cup Changes /\ seen[o] \in Notes
  BY CallsAreApart, Kinds
<1> QED BY <1>1, Kinds DEF Logout, Goto, Moved, Notes, history, ghosts

LEMMA CrashMoves ==
    ASSUME SessionsInv, NEW c \in Changes, Crash(c)
    PROVE  /\ c \in Calls /\ c \notin Tokens \cup Logouts /\ Moved(c)
           /\ pc[c] \in {"ending", "listed", "deleted"} /\ pc'[c] = "crashed" /\ seen'[c] = seen[c]
           /\ UNCHANGED <<database, redis, overtaken, dropped, lapsed>>
<1>1. c \in Calls /\ c \notin Tokens \cup Logouts
  BY CallsAreApart
<1> QED BY <1>1, Kinds DEF Crash, Moved, ghosts

LEMMA ListingMoves ==
    ASSUME SessionsInv, NEW c \in Changes \cup Logouts, NEW u \in Users, ListTokens(c, u)
    PROVE  /\ c \in Calls /\ c \notin Tokens /\ Moved(c)
           /\ pc[c] = "ending" /\ pc'[c] = "listed" /\ u \in seen[c].users
           /\ seen'[c].user = u /\ seen'[c].tokens = index[u].tokens
           /\ seen'[c].token = seen[c].token /\ seen'[c].users = seen[c].users
           /\ overtaken' = overtaken \cup Issuing(u)
           /\ UNCHANGED <<database, redis, dropped, lapsed>>
<1>1. c \in Calls /\ c \notin Tokens /\ seen[c] \in Notes
  BY CallsAreApart, Kinds
<1> QED BY <1>1, Kinds DEF ListTokens, Goto, Moved, Notes

LEMMA DeletingMoves ==
    ASSUME SessionsInv, NEW c \in Changes \cup Logouts, DeleteTokens(c)
    PROVE  /\ c \in Calls /\ c \notin Tokens /\ Moved(c)
           /\ pc[c] = "listed" /\ pc'[c] = "deleted" /\ seen'[c] = seen[c]
           /\ \A t \in Tokens : session'[t] = IF t \in seen[c].tokens THEN None ELSE session[t]
           /\ overtaken \subseteq overtaken'
           /\ UNCHANGED <<database, index, codes, dropped, lapsed>>
<1>1. c \in Calls /\ c \notin Tokens
  BY CallsAreApart
<1> QED BY <1>1, Kinds DEF DeleteTokens, Goto, Moved

LEMMA DroppingMoves ==
    ASSUME SessionsInv, NEW c \in Changes \cup Logouts, DeleteIndex(c)
    PROVE  LET u == seen[c].user
               left == seen[c].users \ {u}
           IN  /\ c \in Calls /\ c \notin Tokens /\ Moved(c)
               /\ pc[c] = "deleted" /\ u \in Users
               /\ pc'[c] = IF left = {} THEN "done" ELSE "ending"
               /\ seen'[c].users = left /\ seen'[c].tokens = {} /\ seen'[c].token = seen[c].token
               /\ \A v \in Users : index'[v].tokens = IF v = u THEN {} ELSE index[v].tokens
               /\ dropped' = dropped \cup (index[u].tokens \ seen[c].tokens)
               /\ UNCHANGED <<database, session, codes, overtaken, lapsed>>
<1>1. c \in Calls /\ c \notin Tokens /\ seen[c] \in Notes
  BY CallsAreApart, Kinds
<1>2. pc[c] = "deleted" /\ CallKnows(c, pc[c], seen[c])
  BY <1>1 DEF DeleteIndex, Goto, SessionsInv, Known
<1>3. seen[c].user \in Users
  BY <1>2 DEF CallKnows
<1>4. /\ seen'[c].users = seen[c].users \ {seen[c].user} /\ seen'[c].tokens = {}
      /\ seen'[c].token = seen[c].token
  BY <1>1, Kinds DEF DeleteIndex, Notes
<1> QED BY <1>1, <1>2, <1>3, <1>4, Kinds DEF DeleteIndex, Goto, Moved, NoEntry

LEMMA PermissionsMove ==
    ASSUME SessionsInv, NEW c \in Changes, AssignRolePermissions(c)
    PROVE  /\ c \in Calls /\ c \notin Tokens \cup Logouts /\ Moved(c)
           /\ pc[c] = "checked" /\ pc'[c] = IF seen[c].users = {} THEN "done" ELSE "ending"
           /\ seen' = seen
           /\ \A r \in Roles \ {RoleOf[c]} : granted'[r] = granted[r]
           /\ overtaken \subseteq overtaken'
           /\ \A t \in Tokens, u \in Users :
                /\ pc[t] # "idle" /\ u \notin seen[c].users /\ RoleOf[c] \in roles[u]
                /\ u = seen[t].user \/ (session[t] # None /\ u = session[t].user)
                => t \in overtaken'
           /\ UNCHANGED <<active, roles, redis, dropped, lapsed>>
<1>1. c \in Calls /\ c \notin Tokens \cup Logouts
  BY CallsAreApart
<1> QED BY <1>1, Kinds DEF AssignRolePermissions, Goto, Moved

-----------------------------------------------------------------------------
LEMMA IssuedStep ==
    ASSUME SessionsInv, Issued, [Next]_vars
    PROVE  Issued'
<1> USE DEF redis
<1>0. /\ \A c \in Calls : seen[c].token \in Tokens \cup {None} /\ seen[c].tokens \subseteq Tokens
      /\ \A k \in Continues : codes[k] \in Tokens \cup {None}
      /\ Exchanges \subseteq Tokens /\ Logins \subseteq Tokens
  BY Kinds DEF Notes, Tokens
<1>1. CASE UNCHANGED vars
  BY <1>1 DEF Issued, vars
<1>2. CASE \E l \in Logins : FindAccount(l) \/ ReadRoles(l) \/ ReadPermissions(l)
  <2> PICK l \in Logins : FindAccount(l) \/ ReadRoles(l) \/ ReadPermissions(l)
    BY <1>2
  <2>1. seen'[l].user = UserOf[l] /\ session[l] = None
    BY <1>0, ReadingMoves DEF Issued
  <2> QED BY <1>0, <2>1, ReadingMoves, IssuedStays
<1>3. CASE \E c \in Continues \cup Exchanges :
            \/ c \in Continues /\ (TakeRequest(c) \/ StoreCode(c) \/ \E t \in Tokens : ReadRequest(c, t))
            \/ c \in Exchanges /\ (ReadCode(c) \/ TakeCode(c))
  <2> PICK c \in Continues \cup Exchanges :
            \/ c \in Continues /\ (TakeRequest(c) \/ StoreCode(c) \/ \E t \in Tokens : ReadRequest(c, t))
            \/ c \in Exchanges /\ (ReadCode(c) \/ TakeCode(c))
    BY <1>3
  <2>1. /\ c \in Calls /\ c \notin Logins /\ Moved(c) /\ (c \in Tokens => pc[c] \in {"idle", "taking"})
        /\ seen'[c].tokens \subseteq seen[c].tokens
        /\ \A k \in Continues : codes'[k] \in {codes[k], None, seen[c].token}
        /\ session' = session /\ index' = index
    BY HandoverMoves
  <2>2. seen'[c].token # None =>
            seen'[c].token = seen[c].token \/ (seen'[c].token \in Tokens /\ pc[seen'[c].token] \in {"expiring", "done"})
    BY <1>0, HandoverMoves DEF Issued
  <2>3. \A k \in Continues : codes'[k] # None =>
            codes'[k] = codes[k] \/ (codes'[k] \in Tokens /\ pc[codes'[k]] \in {"expiring", "done"})
    BY <1>0, <2>1 DEF Issued
  <2>4. c \in Tokens => session[c] = None
    BY <2>1 DEF Issued
  <2> QED BY <1>0, <2>1, <2>2, <2>3, <2>4, IssuedStays
<1>4. CASE \E x \in Exchanges : ReadCentralSession(x)
  <2> PICK x \in Exchanges : ReadCentralSession(x)
    BY <1>4
  <2>1. session[x] = None
    BY <1>0, CopyMoves DEF Issued
  <2> QED BY <1>0, <2>1, CopyMoves, IssuedStays
<1>5. CASE \E t \in Tokens : \/ t \in Logins /\ StoreSession(t)
                             \/ t \in Exchanges /\ StoreDelegatedSession(t)
  <2> PICK t \in Tokens : \/ t \in Logins /\ StoreSession(t)
                          \/ t \in Exchanges /\ StoreDelegatedSession(t)
    BY <1>5
  <2>1. t \in Logins => seen'[t].user = UserOf[t]
    BY StoringMoves DEF Issued
  <2> QED BY <1>0, <2>1, StoringMoves, IssuedStays
<1>6. CASE \E t \in Tokens : IndexSession(t) \/ ExpireIndex(t)
  <2> PICK t \in Tokens : IndexSession(t) \/ ExpireIndex(t)
    BY <1>6
  <2>1. /\ seen'[t].token \in {seen[t].token, None} /\ seen'[t].tokens \in {seen[t].tokens, {}}
        /\ pc'[t] \in {"expiring", "done"} /\ Moved(t) /\ t \in Calls
        /\ pc[t] \in {"indexing", "expiring"} /\ (pc[t] = "expiring" => pc'[t] = "done")
    BY IndexingMoves, ExpiringMoves DEF Nothing
  <2>2. \A u \in Users : \A s \in index'[u].tokens : s \in index[u].tokens \/ s = t
    <3>1. CASE IndexSession(t)
      <4>1. \A u \in Users : index'[u].tokens = IF u = seen[t].user THEN index[u].tokens \cup {t}
                                                ELSE index[u].tokens
        BY <3>1, IndexingMoves
      <4> QED BY <4>1
    <3>2. CASE ExpireIndex(t)
      <4>1. \A u \in Users : index'[u].tokens = index[u].tokens
        BY <3>2, ExpiringMoves
      <4> QED BY <4>1
    <3> QED BY <3>1, <3>2
  <2>3. session' = session /\ codes' = codes
    BY IndexingMoves, ExpiringMoves
  <2>4. t \in Logins => pc'[t] # "idle" /\ pc'[t] \notin {"reading", "indexing"}
    BY <2>1
  <2> QED BY <1>0, <2>1, <2>2, <2>3, <2>4, IssuedStays
<1>7. CASE \E c \in Changes : ReadTarget(c) \/ CheckRoles(c) \/ CheckStatus(c) \/ LoadIdentity(c) \/ ReadHolders(c)
  BY <1>0, <1>7, CheckingMoves, IssuedStays
<1>8. CASE \E c \in Changes : AssignUserRoles(c) \/ ChangeStatus(c)
  BY <1>0, <1>8, RolesMove, IssuedStays
<1>9. CASE \E c \in Changes : AssignRolePermissions(c)
  BY <1>0, <1>9, PermissionsMove, IssuedStays
<1>10. CASE \E c \in Changes : Crash(c)
  BY <1>0, <1>10, CrashMoves, IssuedStays
<1>11. CASE \E o \in Logouts, t \in Tokens : Logout(o, t)
  BY <1>0, <1>11, LogoutMoves, IssuedStays
<1>12. CASE \E c \in Changes \cup Logouts, u \in Users : ListTokens(c, u)
  <2> PICK c \in Changes \cup Logouts, u \in Users : ListTokens(c, u)
    BY <1>12
  <2>1. \A t \in index[u].tokens : t \in Tokens /\ Entered(t)
    BY Kinds DEF Issued
  <2> QED BY <1>0, <2>1, ListingMoves, IssuedStays
<1>13. CASE \E c \in Changes \cup Logouts : DeleteTokens(c)
  BY <1>0, <1>13, DeletingMoves, IssuedStays
<1>14. CASE \E c \in Changes \cup Logouts : DeleteIndex(c)
  BY <1>0, <1>14, DroppingMoves, IssuedStays
<1>15. CASE Tick
  <2>1. pc' = pc /\ seen' = seen /\ codes' = [k \in Continues |-> None]
    BY <1>15 DEF Tick
  <2>2. /\ \A t \in Tokens : session'[t] # None => session'[t] = session[t]
        /\ \A u \in Users : index'[u].tokens \subseteq index[u].tokens
    BY <1>15 DEF Tick, NoEntry
  <2> QED BY <2>1, <2>2 DEF Issued
<1> QED
  BY <1>1, <1>2, <1>3, <1>4, <1>5, <1>6, <1>7, <1>8, <1>9, <1>10, <1>11, <1>12, <1>13, <1>14, <1>15
     DEF Next, Tokens

LEMMA ListedStep ==
    ASSUME SessionsInv, Issued, Listed, [Next]_vars
    PROVE  Listed'
<1> USE DEF redis, Unlisted
<1>0. /\ \A c \in Calls : seen[c].token \in Tokens \cup {None} /\ seen[c].tokens \subseteq Tokens
      /\ \A u \in Users : index[u].tokens \subseteq Tokens
      /\ \A t \in Tokens : session[t] # None => session[t].user \in Users
      /\ Exchanges \subseteq Tokens /\ Logins \subseteq Tokens
      /\ Continues \cap Tokens = {}
  BY CallsAreApart, Kinds DEF Notes, StoredSessions
<1>1. CASE UNCHANGED vars
  BY <1>1 DEF Listed, vars
<1>2. CASE \E l \in Logins : FindAccount(l) \/ ReadRoles(l) \/ ReadPermissions(l)
  <2> PICK l \in Logins : FindAccount(l) \/ ReadRoles(l) \/ ReadPermissions(l)
    BY <1>2
  <2>1. l \in Calls /\ Moved(l) /\ ~Entered(l)' /\ l \notin Changes \cup Logouts
    BY CallsAreApart, ReadingMoves
  <2>2. \A t \in Tokens : Entered(t)' => Entered(t)
    BY <2>1, CallsAreApart DEF Moved
  <2>3. session' = session /\ index' = index /\ dropped' = dropped /\ lapsed' = lapsed
    BY ReadingMoves
  <2> QED BY <2>1, <2>2, <2>3, ListedStays
<1>3. CASE \E c \in Continues \cup Exchanges :
            \/ c \in Continues /\ (TakeRequest(c) \/ StoreCode(c) \/ \E t \in Tokens : ReadRequest(c, t))
            \/ c \in Exchanges /\ (ReadCode(c) \/ TakeCode(c))
  <2> PICK c \in Continues \cup Exchanges :
            \/ c \in Continues /\ (TakeRequest(c) \/ StoreCode(c) \/ \E t \in Tokens : ReadRequest(c, t))
            \/ c \in Exchanges /\ (ReadCode(c) \/ TakeCode(c))
    BY <1>3
  <2>1. c \in Calls /\ Moved(c) /\ (c \in Tokens => ~Entered(c)') /\ c \notin Changes \cup Logouts
    BY HandoverMoves
  <2>2. \A t \in Tokens : Entered(t)' => Entered(t)
    BY <2>1, CallsAreApart DEF Moved
  <2>3. session' = session /\ index' = index /\ dropped' = dropped /\ lapsed' = lapsed
    BY HandoverMoves
  <2> QED BY <2>1, <2>2, <2>3, ListedStays
<1>4. CASE \E x \in Exchanges : ReadCentralSession(x)
  <2> PICK x \in Exchanges : ReadCentralSession(x)
    BY <1>4
  <2>1. x \in Calls /\ Moved(x) /\ ~Entered(x)' /\ x \notin Changes \cup Logouts
    BY CopyMoves
  <2>2. \A t \in Tokens : Entered(t)' => Entered(t)
    BY <2>1, CallsAreApart DEF Moved
  <2>3. session' = session /\ index' = index /\ dropped' = dropped /\ lapsed' = lapsed
    BY CopyMoves
  <2> QED BY <2>1, <2>2, <2>3, ListedStays
<1>5. CASE \E t \in Tokens : \/ t \in Logins /\ StoreSession(t)
                             \/ t \in Exchanges /\ StoreDelegatedSession(t)
  <2> PICK t \in Tokens : \/ t \in Logins /\ StoreSession(t)
                          \/ t \in Exchanges /\ StoreDelegatedSession(t)
    BY <1>5
  <2>1. /\ t \in Calls /\ Moved(t) /\ ~Entered(t) /\ ~Entered(t)' /\ t \notin Changes \cup Logouts
        /\ \A s \in Tokens \ {t} : session'[s] = session[s]
    BY StoringMoves
  <2>2. \A s \in Tokens : Entered(s)' => Entered(s) /\ s # t
    BY <2>1, CallsAreApart DEF Moved
  <2>3. index' = index /\ dropped' = dropped /\ lapsed' = lapsed
    BY StoringMoves
  <2> QED BY <2>1, <2>2, <2>3, ListedStays
<1>6. CASE \E t \in Tokens : IndexSession(t)
  <2> PICK t \in Tokens : IndexSession(t)
    BY <1>6
  <2>1. /\ t \in Calls /\ Moved(t) /\ t \notin Changes \cup Logouts
        /\ session' = session /\ dropped' = dropped /\ lapsed' = lapsed /\ pc[t] = "indexing"
        /\ \A u \in Users : index'[u].tokens = IF u = seen[t].user THEN index[u].tokens \cup {t}
                                                ELSE index[u].tokens
    BY IndexingMoves
  <2>2. session[t] # None => t \in index'[session[t].user].tokens
    BY <1>0, <2>1 DEF Issued
  <2>3. \A s \in Tokens : Entered(s)' => Entered(s) \/ s = t
    BY <2>1, CallsAreApart DEF Moved
  <2> QED BY <2>1, <2>2, <2>3, ListedStays
<1>e. CASE \E t \in Tokens : ExpireIndex(t)
  <2> PICK t \in Tokens : ExpireIndex(t)
    BY <1>e
  <2>1. /\ t \in Calls /\ Moved(t) /\ t \notin Changes \cup Logouts /\ pc[t] = "expiring"
        /\ session' = session /\ dropped' = dropped /\ lapsed' = lapsed
        /\ \A u \in Users : index'[u].tokens = index[u].tokens
    BY ExpiringMoves
  <2>2. \A s \in Tokens : Entered(s)' => Entered(s)
    BY <2>1, CallsAreApart DEF Moved
  <2> QED BY <2>1, <2>2, ListedStays
<1>7. CASE \E c \in Changes : \/ ReadTarget(c) \/ CheckRoles(c) \/ CheckStatus(c)
                              \/ LoadIdentity(c) \/ ReadHolders(c)
                              \/ AssignUserRoles(c) \/ ChangeStatus(c)
                              \/ AssignRolePermissions(c) \/ Crash(c)
  <2> PICK c \in Changes : \/ ReadTarget(c) \/ CheckRoles(c) \/ CheckStatus(c)
                           \/ LoadIdentity(c) \/ ReadHolders(c)
                           \/ AssignUserRoles(c) \/ ChangeStatus(c)
                           \/ AssignRolePermissions(c) \/ Crash(c)
    BY <1>7
  <2>1. c \in Calls /\ Moved(c) /\ c \notin Tokens \cup Logouts /\ pc'[c] # "deleted"
    BY CheckingMoves, RolesMove, PermissionsMove, CrashMoves
  <2>2. \A t \in Tokens : Entered(t)' => Entered(t)
    BY <2>1, CallsAreApart DEF Moved
  <2>3. session' = session /\ index' = index /\ dropped' = dropped /\ lapsed' = lapsed
    BY CheckingMoves, RolesMove, PermissionsMove, CrashMoves
  <2> QED BY <2>1, <2>2, <2>3, ListedStays
<1>8. CASE \E o \in Logouts, t \in Tokens : Logout(o, t)
  <2> PICK o \in Logouts, t \in Tokens : Logout(o, t)
    BY <1>8
  <2>1. /\ o \in Calls /\ Moved(o) /\ o \notin Tokens /\ pc'[o] = "ending"
        /\ session' = session /\ index' = index /\ dropped' = dropped /\ lapsed' = lapsed
    BY LogoutMoves
  <2>2. \A s \in Tokens : Entered(s)' => Entered(s)
    BY <2>1, CallsAreApart DEF Moved
  <2>3. After(o)'
    BY <2>1, LogoutMoves DEF After
  <2> QED BY <2>1, <2>2, <2>3, ListedStays
<1>9. CASE \E c \in Changes \cup Logouts, u \in Users : ListTokens(c, u)
  <2> PICK c \in Changes \cup Logouts, u \in Users : ListTokens(c, u)
    BY <1>9
  <2>1. /\ c \in Calls /\ Moved(c) /\ c \notin Tokens /\ pc[c] = "ending" /\ pc'[c] = "listed"
        /\ seen'[c].token = seen[c].token /\ seen'[c].tokens = index[u].tokens /\ u \in seen[c].users
        /\ session' = session /\ index' = index /\ dropped' = dropped /\ lapsed' = lapsed
    BY ListingMoves
  <2>2. \A s \in Tokens : Entered(s)' => Entered(s)
    BY <2>1, CallsAreApart DEF Moved
  <2>3. ASSUME c \in Logouts PROVE After(c)'
    <3> DEFINE t == seen[c].token
    <3>1. /\ t \in Tokens /\ Entered(t)
          /\ session[t] = None \/ t \in Unlisted \/ seen[c].users = {session[t].user}
      BY <2>1, <2>3, CallsAreApart DEF Listed, Issued
    <3>2. session[t] # None => t \in Unlisted \/ t \in index[session[t].user].tokens
      BY <3>1 DEF Listed
    <3> QED BY <2>1, <3>1, <3>2 DEF After
  <2> QED BY <2>1, <2>2, <2>3, ListedStays
<1>10. CASE \E c \in Changes \cup Logouts : DeleteTokens(c)
  <2> PICK c \in Changes \cup Logouts : DeleteTokens(c)
    BY <1>10
  <2>1. /\ c \in Calls /\ Moved(c) /\ c \notin Tokens /\ pc[c] = "listed" /\ pc'[c] = "deleted"
        /\ seen'[c] = seen[c] /\ index' = index /\ dropped' = dropped /\ lapsed' = lapsed
        /\ \A t \in Tokens : session'[t] = IF t \in seen[c].tokens THEN None ELSE session[t]
    BY DeletingMoves
  <2>2. \A s \in Tokens : Entered(s)' => Entered(s)
    BY <2>1, CallsAreApart DEF Moved
  <2>3. c \in Logouts => After(c)'
    BY <1>0, <2>1 DEF After, Listed
  <2> QED BY <1>0, <2>1, <2>2, <2>3, ListedStays
<1>11. CASE \E c \in Changes \cup Logouts : DeleteIndex(c)
  <2> PICK c \in Changes \cup Logouts : DeleteIndex(c)
    BY <1>11
  <2> DEFINE u == seen[c].user
  <2>1. /\ c \in Calls /\ Moved(c) /\ c \notin Tokens /\ pc[c] = "deleted"
        /\ pc'[c] \in {"ending", "done"} /\ u \in Users
        /\ seen'[c].token = seen[c].token /\ session' = session /\ lapsed' = lapsed
        /\ \A v \in Users : index'[v].tokens = IF v = u THEN {} ELSE index[v].tokens
        /\ dropped' = dropped \cup (index[u].tokens \ seen[c].tokens)
    BY DroppingMoves
  <2>2. \A s \in Tokens : Entered(s)' => Entered(s)
    BY <2>1, CallsAreApart DEF Moved
  <2>3. \A t \in seen[c].tokens : session[t] = None
    BY <2>1 DEF Listed
  <2>4. c \in Logouts => After(c)'
    BY <1>0, <2>1 DEF After, Listed
  <2>5. \A v \in Users : \A t \in index[v].tokens :
            t \in index'[v].tokens \/ t \in Unlisted' \/ session'[t] = None
    BY <2>1, <2>3
  <2> QED BY <1>0, <2>1, <2>2, <2>4, <2>5, ListedStays
<1>12. CASE Tick
  <2>1. pc' = pc /\ seen' = seen /\ dropped' = dropped /\ lapsed \subseteq lapsed'
    BY <1>12 DEF Tick
  <2>2. /\ \A t \in Tokens : session'[t] \in {session[t], None}
        /\ \A u \in Users : index'[u].tokens \subseteq index[u].tokens
    BY <1>12 DEF Tick, NoEntry
  <2>3. \A t \in Tokens : session'[t] # None =>
            \A u \in Users : t \in index[u].tokens => t \in index'[u].tokens \/ t \in lapsed'
    BY <1>12 DEF Tick
  <2>4. \A t \in Tokens : Entered(t)' /\ session'[t] # None =>
            t \in Unlisted' \/ t \in index'[session'[t].user].tokens
    BY <1>0, <2>1, <2>2, <2>3 DEF Listed
  <2>5. ASSUME NEW c \in Changes \cup Logouts, pc'[c] = "deleted", NEW t \in seen'[c].tokens
        PROVE  session'[t] = None
    BY <1>0, <2>1, <2>2, <2>5, CallsAreApart DEF Listed
  <2>6. ASSUME NEW o \in Logouts PROVE After(o)'
    BY <2>1, <2>2 DEF Listed, After
  <2> QED BY <2>4, <2>5, <2>6 DEF Listed, After
<1> QED
  BY <1>1, <1>2, <1>3, <1>4, <1>5, <1>6, <1>e, <1>7, <1>8, <1>9, <1>10, <1>11, <1>12 DEF Next, Tokens

\* A call that is not an ending, and leaves the sessions as they are.
LEMMA OthersStayExplained ==
    ASSUME SessionsInv, Issued, Explained, NEW c \in Calls, c \notin Changes, Moved(c),
           UNCHANGED <<database, session>>, Excused \subseteq Excused',
           c \in Tokens /\ pc'[c] \in InProgress /\ c \notin Excused' =>
                \/ Current(c)'
                \/ \E d \in Changes : StillToList(d, seen[c].user)',
           c \in Tokens => ~Entered(c)'
    PROVE  Explained'
BY ExplainedStays

LEMMA ChangeStaysExplained ==
    ASSUME SessionsInv, Issued, Listed, Explained, NEW c \in Changes \cup Logouts,
           \/ c \in Changes /\ (ReadTarget(c) \/ CheckRoles(c) \/ CheckStatus(c) \/ LoadIdentity(c)
                              \/ ReadHolders(c) \/ Crash(c))
           \/ c \in Logouts /\ \E t \in Tokens : Logout(c, t)
           \/ \E u \in Users : ListTokens(c, u)
           \/ DeleteTokens(c)
           \/ DeleteIndex(c)
    PROVE  Explained'
<1> USE DEF redis, Excused
<1>0. c \in Calls /\ c \notin Tokens /\ (c \in Logouts => c \notin Changes)
  BY CallsAreApart
<1>1. CASE c \in Changes /\ (ReadTarget(c) \/ CheckRoles(c) \/ CheckStatus(c) \/ LoadIdentity(c)
                              \/ ReadHolders(c))
  <2>1. /\ Moved(c) /\ pc[c] \in {"idle", "counting", "checked"} /\ session' = session
        /\ UNCHANGED database /\ overtaken' = overtaken /\ dropped' = dropped /\ lapsed' = lapsed
    BY <1>1, CheckingMoves
  <2>2. \A u : ~StillToList(c, u) /\ ~Ends(c, u)
    BY <2>1 DEF StillToList, Ends
  <2> QED BY <1>0, <2>1, <2>2, ExplainedStays
<1>2. CASE c \in Changes /\ Crash(c)
  <2>1. /\ Moved(c) /\ pc'[c] = "crashed" /\ seen'[c] = seen[c] /\ session' = session /\ UNCHANGED database
        /\ overtaken' = overtaken /\ dropped' = dropped /\ lapsed' = lapsed
    BY <1>2, CrashMoves
  <2>2. \A u : (StillToList(c, u) => StillToList(c, u)') /\ (Ends(c, u) => Ends(c, u)')
    BY <2>1 DEF StillToList, Ends
  <2> QED BY <1>0, <2>1, <2>2, ExplainedStays
<1>3. CASE c \in Logouts /\ \E t \in Tokens : Logout(c, t)
  <2>1. /\ Moved(c) /\ session' = session /\ UNCHANGED database
        /\ overtaken' = overtaken /\ dropped' = dropped /\ lapsed' = lapsed
    BY <1>3, LogoutMoves
  <2> QED BY <1>0, <1>3, <2>1, ExplainedStays
<1>4. CASE \E u \in Users : ListTokens(c, u)
  <2> PICK u \in Users : ListTokens(c, u)
    BY <1>4
  <2>1. /\ Moved(c) /\ pc[c] = "ending" /\ pc'[c] = "listed" /\ session' = session /\ UNCHANGED database
        /\ seen'[c].user = u /\ seen'[c].users = seen[c].users
        /\ overtaken' = overtaken \cup Issuing(u) /\ dropped' = dropped /\ lapsed' = lapsed
    BY ListingMoves
  <2>2. \A v : Ends(c, v) => Ends(c, v)'
    BY <2>1 DEF Ends
  <2>3. \A v : StillToList(c, v) /\ ~StillToList(c, v)' => v = u
    BY <2>1 DEF StillToList
  <2>4. \A t \in Tokens : ~Entered(t) /\ seen[t].user = u => t \in Excused'
    BY <2>1 DEF Issuing
  <2> QED BY <1>0, <2>1, <2>2, <2>3, <2>4, ExplainedStays
<1>5. CASE DeleteTokens(c)
  <2>1. /\ Moved(c) /\ pc[c] = "listed" /\ pc'[c] = "deleted" /\ seen'[c] = seen[c] /\ UNCHANGED database
        /\ \A t \in Tokens : session'[t] = IF t \in seen[c].tokens THEN None ELSE session[t]
        /\ overtaken \subseteq overtaken' /\ dropped' = dropped /\ lapsed' = lapsed
    BY <1>5, DeletingMoves
  <2>2. \A u : (StillToList(c, u) => StillToList(c, u)') /\ (Ends(c, u) => Ends(c, u)')
    BY <2>1 DEF StillToList, Ends
  <2> QED BY <1>0, <2>1, <2>2, ExplainedStays
<1>6. CASE DeleteIndex(c)
  <2> DEFINE u == seen[c].user
             left == seen[c].users \ {u}
  <2>1. /\ Moved(c) /\ pc[c] = "deleted" /\ UNCHANGED database /\ session' = session
        /\ pc'[c] = IF left = {} THEN "done" ELSE "ending"
        /\ seen'[c].users = left
        /\ dropped' = dropped \cup (index[u].tokens \ seen[c].tokens)
        /\ overtaken' = overtaken /\ lapsed' = lapsed
    BY <1>6, DroppingMoves
  <2>2. \A v : StillToList(c, v) => StillToList(c, v)'
    BY <2>1 DEF StillToList
  <2>3. \A v : Ends(c, v) /\ ~Ends(c, v)' => v = u
    BY <2>1 DEF Ends
  \* What was listed is deleted, and what was not is dropped.
  <2>4. ASSUME NEW t \in Tokens, Entered(t), session[t] # None, session[t].user = u
        PROVE  t \in Excused'
    <3>1. t \in Unlisted \/ t \in index[u].tokens
      BY <2>4 DEF Listed
    <3>2. t \notin seen[c].tokens
      BY <2>1, <2>4 DEF Listed
    <3> QED BY <2>1, <3>1, <3>2 DEF Unlisted
  <2> QED BY <1>0, <2>1, <2>2, <2>3, <2>4, ExplainedStays
<1> QED BY <1>1, <1>2, <1>3, <1>4, <1>5, <1>6

\* A change of the database that touches the grants of the users T leaves them to
\* be ended, or has put their tokens among the overtaken.
LEMMA TouchedIsExplained ==
    ASSUME SessionsInv, Issued, Explained, NEW c \in Changes, NEW T \in SUBSET Users,
           Moved(c), pc[c] \in {"checked", "loaded"}, session' = session, active' \subseteq active,
           Excused \subseteq Excused',
           \A v \in Users \ T : (v \in active => v \in active') /\ GrantsOf(v)' = GrantsOf(v),
           \A t \in Tokens, v \in T :
                /\ pc[t] # "idle"
                /\ v = seen[t].user \/ (session[t] # None /\ v = session[t].user)
                => t \in Excused' \/ StillToList(c, v)'
    PROVE  Explained'
<1>0. /\ c \in Calls /\ c \notin Tokens /\ Tokens \subseteq Calls /\ Changes \subseteq Calls
      /\ \A t \in Tokens : session[t] # None => session[t].user \in Users
      /\ active \subseteq Users
      /\ \A t \in Tokens : pc'[t] = pc[t] /\ seen'[t] = seen[t]
  BY CallsAreApart, Kinds DEF StoredSessions, Moved, SessionsInv, Shapes, TypeOK
<1>1. ASSUME NEW d \in Changes, NEW v
      PROVE  (StillToList(d, v) => StillToList(d, v)') /\ (Ends(d, v) => Ends(d, v)')
  <2>1. CASE d = c
    BY <2>1 DEF StillToList, Ends
  <2>2. CASE d # c
    BY <1>0, <2>2 DEF StillToList, Ends, Moved
  <2> QED BY <2>1, <2>2
<1>2. ASSUME NEW t \in Tokens, pc'[t] \in InProgress, t \notin Excused'
      PROVE  \/ Current(t)'
             \/ \E d \in Changes : StillToList(d, seen[t].user)'
  <2>1. pc[t] \in InProgress /\ pc[t] # "idle" /\ t \notin Excused
    BY <1>0, <1>2 DEF InProgress
  <2>2. CASE \E d \in Changes : StillToList(d, seen[t].user)
    BY <1>0, <1>1, <2>2
  <2>3. CASE Current(t) /\ seen[t].user \in T
    <3>1. PICK v \in T : v = seen[t].user
      BY <2>3
    <3>2. StillToList(c, v)'
      BY <1>2, <2>1, <3>1
    <3> QED BY <1>0, <3>1, <3>2
  <2>4. CASE Current(t) /\ seen[t].user \notin T
    BY <1>0, <2>4 DEF Current
  <2> QED BY <2>1, <2>2, <2>3, <2>4 DEF Explained
<1>3. ASSUME NEW t \in Tokens, Entered(t)', Stale(t)'
      PROVE  BeingEnded(session[t].user)' \/ t \in Excused'
  <2>1. Entered(t) /\ session[t] # None
    BY <1>0, <1>3 DEF Stale
  <2>2. CASE t \in Excused
    BY <2>2
  <2>3. CASE \E d \in Changes : Ends(d, session[t].user)
    <3>1. PICK d \in Changes : Ends(d, session[t].user)
      BY <2>3
    <3>2. Ends(d, session[t].user)'
      BY <1>1, <3>1
    <3> QED BY <3>2 DEF BeingEnded, Ends
  <2>4. CASE session[t].user \in T
    <3>1. t \in Excused' \/ StillToList(c, session[t].user)'
      BY <2>1, <2>4
    <3>2. StillToList(c, session[t].user)' => BeingEnded(session[t].user)'
      BY DEF StillToList, BeingEnded
    <3> QED BY <3>1, <3>2
  <2>5. CASE session[t].user \notin T /\ t \notin Excused
    <3>1. Stale(t)
      BY <1>0, <1>3, <2>1, <2>5 DEF Stale
    <3>2. BeingEnded(session[t].user)
      BY <2>1, <2>5, <3>1 DEF Explained, StaleSessionsAreExplained, Excused
    <3> QED BY <2>3, <3>2 DEF BeingEnded, Ends
  <2> QED BY <2>2, <2>4, <2>5
<1> QED BY <1>2, <1>3 DEF Explained, StaleSessionsAreExplained, Excused

LEMMA DatabaseStaysExplained ==
    ASSUME SessionsInv, Issued, Explained, NEW c \in Changes,
           AssignUserRoles(c) \/ ChangeStatus(c) \/ AssignRolePermissions(c)
    PROVE  Explained'
<1> USE DEF redis, Excused
<1>1. CASE AssignUserRoles(c) \/ ChangeStatus(c)
  <2> DEFINE u == UserOf[c]
             T == {u} \cap Users
  <2>1. /\ Moved(c) /\ pc[c] \in {"checked", "loaded"} /\ pc'[c] = "ending" /\ seen'[c].users = {u}
        /\ \A v \in Users \ {u} : roles'[v] = roles[v] /\ (v \in active' <=> v \in active)
        /\ UNCHANGED <<granted, redis, overtaken, dropped, lapsed>>
    BY <1>1, RolesMove
  <2>2. active' \subseteq active
    BY <1>1 DEF AssignUserRoles, ChangeStatus
  <2>3. \A v \in Users \ T : (v \in active => v \in active') /\ GrantsOf(v)' = GrantsOf(v)
    <3> TAKE v \in Users \ T
    <3>1. granted' = granted /\ roles'[v] = roles[v] /\ (v \in active' <=> v \in active)
      BY <2>1
    <3>2. UNION {granted'[r] : r \in roles'[v]} = UNION {granted[r] : r \in roles[v]}
      BY <3>1
    <3> QED BY <3>1, <3>2 DEF GrantsOf
  <2>4. \A v \in T : StillToList(c, v)'
    BY <2>1 DEF StillToList
  <2> HIDE DEF T
  <2>5. T \in SUBSET Users
    BY DEF T
  <2> QED BY <2>1, <2>2, <2>3, <2>4, <2>5, TouchedIsExplained
<1>2. CASE AssignRolePermissions(c)
  <2> DEFINE T == {v \in Users : RoleOf[c] \in roles[v]}
  <2>1. /\ Moved(c) /\ pc[c] = "checked" /\ pc'[c] = IF seen[c].users = {} THEN "done" ELSE "ending"
        /\ seen' = seen
        /\ \A r \in Roles \ {RoleOf[c]} : granted'[r] = granted[r]
        /\ overtaken \subseteq overtaken'
        /\ \A t \in Tokens, u \in Users :
             /\ pc[t] # "idle" /\ u \notin seen[c].users /\ RoleOf[c] \in roles[u]
             /\ u = seen[t].user \/ (session[t] # None /\ u = session[t].user)
             => t \in overtaken'
        /\ UNCHANGED <<active, roles, redis, dropped, lapsed>>
    BY <1>2, PermissionsMove
  <2>2. ASSUME NEW v \in Users \ T PROVE GrantsOf(v)' = GrantsOf(v)
    <3>1. \A r \in roles[v] : granted'[r] = granted[r]
      BY <2>1, Kinds
    <3>2. {granted'[r] : r \in roles[v]} = {granted[r] : r \in roles[v]}
      BY <3>1
    <3> QED BY <2>1, <3>2 DEF GrantsOf
  <2>3. \A v \in T : v \in seen[c].users => StillToList(c, v)'
    BY <2>1 DEF StillToList
  <2>4. \A t \in Tokens, v \in T :
                /\ pc[t] # "idle"
                /\ v = seen[t].user \/ (session[t] # None /\ v = session[t].user)
                => t \in Excused' \/ StillToList(c, v)'
    BY <2>1, <2>3
  <2>5. T \in SUBSET Users
    OBVIOUS
  <2> HIDE DEF T
  <2> QED BY <2>1, <2>2, <2>4, <2>5, TouchedIsExplained
<1> QED BY <1>1, <1>2

LEMMA ExplainedStep ==
    ASSUME SessionsInv, Issued, Listed, Explained, [Next]_vars
    PROVE  Explained'
<1> USE DEF redis, Excused
<1>0. Exchanges \subseteq Tokens /\ Logins \subseteq Tokens
  BY DEF Tokens
<1>1. CASE UNCHANGED vars
  <2>1. \A t : Current(t)' <=> Current(t)
    BY <1>1 DEF Current, GrantsOf, vars
  <2>2. \A c, u : StillToList(c, u)' <=> StillToList(c, u)
    BY <1>1 DEF StillToList, vars
  <2>3. /\ \A t : (Stale(t)' <=> Stale(t))
        /\ \A u : (BeingEnded(u)' <=> BeingEnded(u))
    BY <1>1 DEF Stale, BeingEnded, GrantsOf, vars
  <2>4. /\ pc' = pc /\ seen' = seen /\ session' = session
        /\ overtaken' = overtaken /\ dropped' = dropped /\ lapsed' = lapsed
    BY <1>1 DEF vars
  <2> QED BY <2>1, <2>2, <2>3, <2>4 DEF Explained, InProgress, StaleSessionsAreExplained
<1>2. CASE \E l \in Logins : FindAccount(l) \/ ReadRoles(l) \/ ReadPermissions(l)
  <2> PICK l \in Logins : FindAccount(l) \/ ReadRoles(l) \/ ReadPermissions(l)
    BY <1>2
  <2>0. l \in Calls /\ l \notin Changes
    BY CallsAreApart
  <2>1. /\ Moved(l) /\ pc[l] \in {"idle", "reading"} /\ pc'[l] = "reading"
        /\ IF pc[l] = "idle"
           THEN /\ seen'[l].user = UserOf[l] /\ UserOf[l] \in active
                /\ seen'[l].roles = seen[l].roles /\ seen'[l].permissions = seen[l].permissions
           ELSE /\ seen'[l].user = seen[l].user
                /\ seen'[l].roles \in {seen[l].roles, GrantsOf(UserOf[l]).roles}
                /\ seen'[l].permissions \in {seen[l].permissions, GrantsOf(UserOf[l]).permissions}
    BY ReadingMoves
  <2>2. UNCHANGED <<database, session, overtaken, dropped, lapsed>>
    BY ReadingMoves
  <2>3. active' = active /\ \A u : GrantsOf(u)' = GrantsOf(u)
    BY <2>2 DEF database, GrantsOf
  <2>4. ASSUME l \notin Excused'
        PROVE  \/ Current(l)'
               \/ \E d \in Changes : StillToList(d, seen[l].user)'
    <3>1. CASE pc[l] = "idle"
      <4>1. seen[l].roles = None /\ seen[l].permissions = None
        BY <3>1 DEF Issued, Nothing
      <4> QED BY <2>1, <2>3, <3>1, <4>1 DEF Current
    <3>2. CASE pc[l] = "reading"
      <4>1. seen[l].user = UserOf[l]
        BY <3>2 DEF Issued
      <4>2. CASE Current(l)
        BY <2>1, <2>3, <3>2, <4>1, <4>2 DEF Current
      <4>3. CASE \E d \in Changes : StillToList(d, seen[l].user)
        <5>1. PICK d \in Changes : StillToList(d, seen[l].user)
          BY <4>3
        <5>2. StillToList(d, seen[l].user)'
          BY <2>0, <2>1, <3>2, <5>1, CallsAreApart DEF StillToList, Moved
        <5> QED BY <5>2
      <4> QED BY <1>0, <2>2, <2>4, <3>2, <4>2, <4>3 DEF Explained, InProgress
    <3> QED BY <2>1, <3>1, <3>2
  <2> QED BY <2>0, <2>1, <2>2, <2>4, OthersStayExplained
<1>3. CASE \E c \in Continues \cup Exchanges :
            \/ c \in Continues /\ (TakeRequest(c) \/ StoreCode(c) \/ \E t \in Tokens : ReadRequest(c, t))
            \/ c \in Exchanges /\ (ReadCode(c) \/ TakeCode(c))
  <2> PICK c \in Continues \cup Exchanges :
            \/ c \in Continues /\ (TakeRequest(c) \/ StoreCode(c) \/ \E t \in Tokens : ReadRequest(c, t))
            \/ c \in Exchanges /\ (ReadCode(c) \/ TakeCode(c))
    BY <1>3
  <2>1. /\ c \in Calls /\ c \notin Changes /\ Moved(c)
        /\ c \in Tokens => \/ pc[c] = "idle" /\ pc'[c] = "coded"
                           \/ /\ pc[c] = "taking" /\ pc'[c] \in {"storing", "refused"}
                              /\ seen'[c] = seen[c]
    BY HandoverMoves
  <2>2. UNCHANGED <<database, session, overtaken, dropped, lapsed>>
    BY HandoverMoves
  <2>3. active' = active /\ \A u : GrantsOf(u)' = GrantsOf(u)
    BY <2>2 DEF database, GrantsOf
  <2>4. ASSUME c \in Tokens, pc'[c] \in InProgress, c \notin Excused'
        PROVE  \/ Current(c)'
               \/ \E d \in Changes : StillToList(d, seen[c].user)'
    <3>1. pc[c] \in InProgress /\ pc[c] = "taking" /\ c \notin Excused /\ seen'[c] = seen[c]
      BY <2>1, <2>2, <2>4 DEF InProgress
    <3>2. CASE Current(c)
      BY <2>3, <3>1, <3>2 DEF Current
    <3>3. CASE \E d \in Changes : StillToList(d, seen[c].user)
      <4>1. PICK d \in Changes : StillToList(d, seen[c].user)
        BY <3>3
      <4>2. StillToList(d, seen[c].user)'
        BY <2>1, <3>1, <4>1, CallsAreApart DEF StillToList, Moved
      <4> QED BY <4>2
    <3> QED BY <2>4, <3>1, <3>2, <3>3 DEF Explained
  <2> QED BY <2>1, <2>2, <2>4, OthersStayExplained
<1>4. CASE \E x \in Exchanges : ReadCentralSession(x)
  <2> PICK x \in Exchanges : ReadCentralSession(x)
    BY <1>4
  <2> DEFINE t == seen[x].token
  <2>1. /\ x \in Calls /\ x \in Tokens /\ x \notin Changes /\ Moved(x) /\ pc'[x] = "taking"
        /\ t \in Tokens /\ session[t] # None
        /\ seen'[x].user = session[t].user
        /\ seen'[x].roles = session[t].roles /\ seen'[x].permissions = session[t].permissions
        /\ overtaken \subseteq overtaken'
        /\ t \in Excused \/ InTheAct(session[t].user) => x \in overtaken'
    BY CallsAreApart, CopyMoves
  <2>2. UNCHANGED <<database, session, dropped, lapsed>>
    BY CopyMoves
  <2>3. active' = active /\ \A u : GrantsOf(u)' = GrantsOf(u)
    BY <2>2 DEF database, GrantsOf
  <2>4. ASSUME x \notin Excused'
        PROVE  \/ Current(x)'
               \/ \E d \in Changes : StillToList(d, seen[x].user)'
    <3>1. Entered(t) /\ t \notin Excused /\ ~InTheAct(session[t].user)
      BY <2>1, <2>4, CallsAreApart DEF Issued
    <3>2. CASE ~Stale(t)
      <4>1. /\ session[t].user \in active
            /\ session[t].roles = GrantsOf(session[t].user).roles
            /\ session[t].permissions = GrantsOf(session[t].user).permissions
        BY <2>1, <3>2 DEF Stale
      <4>2. GrantsOf(seen[x].user)' = GrantsOf(session[t].user)
        BY <2>1, <2>3
      <4>3. /\ seen'[x].user \in active'
            /\ seen'[x].roles = GrantsOf(seen[x].user)'.roles
            /\ seen'[x].permissions = GrantsOf(seen[x].user)'.permissions
        BY <2>1, <2>3, <4>1, <4>2
      <4> HIDE DEF t
      <4> QED BY <4>3 DEF Current
    <3>3. CASE Stale(t)
      <4>1. PICK d \in Changes : Ends(d, session[t].user)
        BY <2>1, <3>1, <3>3 DEF Explained, StaleSessionsAreExplained, BeingEnded, Ends
      \* The copy is made before or after the act, so the change has it to list yet.
      <4>2. pc[d] \in {"listed", "deleted"} => seen[d].user # session[t].user
        BY <3>1 DEF InTheAct
      <4>3. StillToList(d, seen[x].user)'
        BY <2>1, <4>1, <4>2, CallsAreApart DEF Ends, StillToList, Moved
      <4> QED BY <4>3
    <3> QED BY <3>2, <3>3
  <2> QED BY <2>1, <2>2, <2>4, OthersStayExplained
<1>5. CASE \E t \in Tokens : \/ t \in Logins /\ StoreSession(t)
                             \/ t \in Exchanges /\ StoreDelegatedSession(t)
  <2> PICK t \in Tokens : \/ t \in Logins /\ StoreSession(t)
                          \/ t \in Exchanges /\ StoreDelegatedSession(t)
    BY <1>5
  <2>1. /\ t \in Calls /\ t \notin Changes /\ Moved(t)
        /\ pc[t] \in {"reading", "storing"} /\ pc'[t] = "indexing" /\ seen'[t] = seen[t]
        /\ \A s \in Tokens \ {t} : session'[s] = session[s]
        /\ pc[t] = "reading" => seen[t].roles # None /\ seen[t].permissions # None
    BY CallsAreApart, StoringMoves
  <2>2. UNCHANGED <<database, overtaken, dropped, lapsed>>
    BY StoringMoves
  <2>3. active' = active /\ \A u : GrantsOf(u)' = GrantsOf(u)
    BY <2>2 DEF database, GrantsOf
  <2>4. ASSUME t \notin Excused'
        PROVE  \/ Current(t)'
               \/ \E d \in Changes : StillToList(d, seen[t].user)'
    <3>1. CASE Current(t)
      BY <2>1, <2>3, <3>1 DEF Current
    <3>2. CASE \E d \in Changes : StillToList(d, seen[t].user)
      <4>1. PICK d \in Changes : StillToList(d, seen[t].user)
        BY <3>2
      <4>2. StillToList(d, seen[t].user)'
        BY <2>1, <4>1, CallsAreApart DEF StillToList, Moved
      <4> QED BY <4>2
    <3> QED BY <2>1, <2>2, <2>4, <3>1, <3>2 DEF Explained, InProgress
  <2> QED BY <2>1, <2>2, <2>4, ExplainedStays
<1>6. CASE \E t \in Tokens : IndexSession(t)
  <2> PICK t \in Tokens : IndexSession(t)
    BY <1>6
  <2>1. /\ t \in Calls /\ t \notin Changes /\ Moved(t) /\ pc[t] = "indexing" /\ pc'[t] = "expiring"
    BY CallsAreApart, IndexingMoves
  <2>2. UNCHANGED <<database, session, overtaken, dropped, lapsed>>
    BY IndexingMoves
  <2>3. active' = active /\ \A u : GrantsOf(u)' = GrantsOf(u)
    BY <2>2 DEF database, GrantsOf
  <2>4. ASSUME Stale(t)', t \notin Excused'
        PROVE  BeingEnded(session[t].user)'
    <3>1. /\ session[t] # None /\ session[t].user = seen[t].user
          /\ session[t].roles = seen[t].roles /\ session[t].permissions = seen[t].permissions
      BY <2>1, <2>2, <2>4 DEF Stale, Issued
    <3>2. ~Current(t)
      BY <2>1, <2>2, <2>3, <2>4, <3>1 DEF Stale, Current
    <3>3. PICK d \in Changes : StillToList(d, seen[t].user)
      BY <2>1, <2>2, <2>4, <3>2 DEF Explained, InProgress
    <3> QED BY <2>1, <2>2, <3>1, <3>3, CallsAreApart DEF BeingEnded, StillToList, Moved
  <2> QED BY <2>1, <2>2, <2>4, ExplainedStays DEF InProgress
<1>e. CASE \E t \in Tokens : ExpireIndex(t)
  <2> PICK t \in Tokens : ExpireIndex(t)
    BY <1>e
  <2>1. /\ t \in Calls /\ t \notin Changes /\ Moved(t) /\ pc[t] = "expiring" /\ pc'[t] = "done"
    BY CallsAreApart, ExpiringMoves
  <2>2. UNCHANGED <<database, session, overtaken, dropped, lapsed>>
    BY ExpiringMoves
  <2>3. active' = active /\ \A u : GrantsOf(u)' = GrantsOf(u)
    BY <2>2 DEF database, GrantsOf
  <2>4. ASSUME Stale(t)', t \notin Excused'
        PROVE  BeingEnded(session[t].user)'
    <3>1. Stale(t)
      BY <2>2, <2>3, <2>4 DEF Stale
    <3>2. PICK d \in Changes : Ends(d, session[t].user)
      BY <2>1, <2>2, <2>4, <3>1 DEF Explained, StaleSessionsAreExplained, BeingEnded, Ends
    <3> QED BY <2>1, <2>2, <3>2, CallsAreApart DEF BeingEnded, Ends, Moved
  <2> QED BY <2>1, <2>2, <2>4, ExplainedStays DEF InProgress
<1>7. CASE \E c \in Changes \cup Logouts :
           \/ c \in Changes /\ (ReadTarget(c) \/ CheckRoles(c) \/ CheckStatus(c) \/ LoadIdentity(c)
                              \/ ReadHolders(c) \/ Crash(c))
           \/ c \in Logouts /\ \E t \in Tokens : Logout(c, t)
           \/ \E u \in Users : ListTokens(c, u)
           \/ DeleteTokens(c)
           \/ DeleteIndex(c)
  BY <1>7, ChangeStaysExplained
<1>8. CASE \E c \in Changes : AssignUserRoles(c) \/ ChangeStatus(c) \/ AssignRolePermissions(c)
  BY <1>8, DatabaseStaysExplained
<1>9. CASE Tick
  <2>1. /\ pc' = pc /\ seen' = seen /\ overtaken' = overtaken /\ dropped' = dropped
        /\ lapsed \subseteq lapsed' /\ UNCHANGED database
    BY <1>9 DEF Tick
  <2>2. \A t \in Tokens : session'[t] \in {session[t], None}
    BY <1>9 DEF Tick
  <2>3. active' = active /\ \A u : GrantsOf(u)' = GrantsOf(u)
    BY <2>1 DEF database, GrantsOf
  <2>4. \A d, u : StillToList(d, u)' = StillToList(d, u)
    BY <2>1 DEF StillToList
  <2>5. \A u : BeingEnded(u)' = BeingEnded(u)
    BY <2>1 DEF BeingEnded
  <2>6. \A t \in Tokens : pc'[t] \in InProgress /\ t \notin Excused' =>
            \/ Current(t)'
            \/ \E d \in Changes : StillToList(d, seen[t].user)'
    BY <2>1, <2>3, <2>4 DEF Explained, Current, InProgress
  <2>7. \A t \in Tokens : Entered(t)' /\ Stale(t)' => BeingEnded(session[t].user)' \/ t \in Excused'
    BY <2>1, <2>2, <2>3, <2>5 DEF Explained, StaleSessionsAreExplained, Stale
  <2> QED BY <2>6, <2>7 DEF Explained, StaleSessionsAreExplained
<1> QED
  BY <1>1, <1>2, <1>3, <1>4, <1>5, <1>6, <1>e, <1>7, <1>8, <1>9 DEF Next, Tokens

LEMMA PromisesBegin == Init => Issued /\ Listed /\ Explained
<1> SUFFICES ASSUME Init PROVE Issued /\ Listed /\ Explained
  OBVIOUS
<1>1. /\ \A c \in Calls : pc[c] = "idle" /\ seen[c] = Nothing
      /\ \A t \in Tokens : session[t] = None
      /\ \A k \in Continues : codes[k] = None
      /\ \A u \in Users : index[u].tokens = {}
  BY DEF Init, InitWith, NoEntry
<1>2. Calls = Tokens \cup Continues \cup Changes \cup Logouts /\ Tokens = Logins \cup Exchanges
  BY CallsAreApart
<1>3. Issued
  <2>1. \A c \in Calls : pc[c] = "idle" /\ seen[c].token = None /\ seen[c].tokens = {}
    BY <1>1 DEF Nothing
  <2>2. \A l \in Logins : l \in Calls
    BY <1>2
  <2> QED BY <1>1, <2>1, <2>2 DEF Issued
<1>4. Listed
  BY <1>1, <1>2 DEF Listed
<1>5. Explained
  BY <1>1, <1>2 DEF Explained, InProgress, StaleSessionsAreExplained, Stale
<1> QED BY <1>3, <1>4, <1>5

\* What is issued, listed and explained stays so, whatever step comes next.
LEMMA PromisesAlways == Spec => [](Issued /\ Listed /\ Explained)
<1>1. SessionsInv /\ (Issued /\ Listed /\ Explained) /\ [Next]_vars => (Issued /\ Listed /\ Explained)'
  BY IssuedStep, ListedStep, ExplainedStep
<1> QED BY <1>1, PromisesBegin, SessionsInvAlways, PTL DEF Spec

\* A change of roles, permissions or status ends the sessions of its users, but
\* for those the property names: whatever the users, calls and interleaving.
THEOREM StaleSessionsExplained == Spec => []StaleSessionsAreExplained
<1>1. Explained => StaleSessionsAreExplained
  BY DEF Explained
<1> QED BY <1>1, PromisesAlways, PTL

\* After a logout its own session is gone, unless the index had lost it before:
\* logout lists the sessions of its user and deletes what is listed.
THEOREM LogoutEnds == Spec => []LogoutEndsItsSession
<1>1. Listed => LogoutEndsItsSession
  BY DEF Listed, LogoutEndsItsSession, Unlisted
<1> QED BY <1>1, PromisesAlways, PTL

-----------------------------------------------------------------------------
\* Logins of students. Rosters, corrections and the end of a standing leave them alone.

LoginsInv == username \in [Enrollees -> {0} \cup Nos] /\ LoginsAreOnesOwn

\* Only a registration gives a login, of a name nobody else is linked to.
LEMMA LoginsAreKept == ASSUME LoginsInv, [RosterNext]_rosterVars PROVE LoginsInv'
<1>1. CASE UNCHANGED username
  BY <1>1 DEF LoginsInv, LoginsAreOnesOwn
<1>2. ASSUME NEW n \in Nos, NEW s \in Enrollees, Register(n, s) PROVE LoginsInv'
  <2>1. username' = [username EXCEPT ![s] = n] /\ \A t \in Enrollees \ {s} : username[t] # n
    BY <1>2 DEF Register
  <2> QED BY <2>1 DEF LoginsInv, LoginsAreOnesOwn
<1>3. ASSUME NEW s \in Enrollees, DeleteLogin(s) PROVE LoginsInv'
  <2>1. username' = [username EXCEPT ![s] = 0]
    BY <1>3 DEF DeleteLogin
  <2> QED BY <2>1 DEF LoginsInv, LoginsAreOnesOwn
<1>4. ASSUME RosterNext, ~ \E n \in Nos, s \in Enrollees : Register(n, s),
             ~ \E s \in Enrollees : DeleteLogin(s)
      PROVE UNCHANGED username
  <2>1. ASSUME NEW i \in Imports,
               \/ PlanImport(i) \/ StaleImport(i) \/ RefusedImport(i) \/ ApplyImport(i) \/ LeaveImport(i)
               \/ \E s \in Enrollees : GraduateOf(i, s)
        PROVE UNCHANGED username
    BY <2>1 DEF PlanImport, StaleImport, RefusedImport, ApplyImport, LeaveImport, EndImport, GraduateOf
  <2>2. ASSUME NEW s \in Enrollees, Retire(s) \/ Deactivate(s) \/ SelectForErasure(s) \/ EraseRecord(s)
        PROVE UNCHANGED username
    BY <2>2 DEF Retire, Deactivate, SelectForErasure, EraseRecord
  <2>3. ASSUME NEW c \in Corrections, ReadForCorrection(c) \/ WriteCorrection(c) PROVE UNCHANGED username
    BY <2>3 DEF ReadForCorrection, WriteCorrection
  <2>4. ASSUME NEW a \in Additions, ReadForAddition(a) \/ WriteAddition(a) PROVE UNCHANGED username
    BY <2>4 DEF ReadForAddition, WriteAddition
  <2>5. ASSUME IssueCodes \/ \E n \in Nos : IssueCode(n) PROVE UNCHANGED username
    BY <2>5 DEF IssueCodes, IssueCode
  <2> QED BY <1>4, <2>1, <2>2, <2>3, <2>4, <2>5 DEF RosterNext
<1>5. UNCHANGED rosterVars => UNCHANGED username
  BY DEF rosterVars
<1> QED BY <1>1, <1>2, <1>3, <1>4, <1>5

\* However registrations, rosters and erasures overlap, no two students sign in with one
\* login: a registration links the one of a number only when nobody else is linked to it
\* (account-activation.service.ts complete, assertCognitoLinkAllowed).
THEOREM LoginsStayOnesOwn == RosterSpec => []LoginsAreOnesOwn
<1>1. RosterInit => LoginsInv
  BY DEF RosterInit, RosterInitWith, LoginsInv, LoginsAreOnesOwn
<1>2. LoginsInv /\ [RosterNext]_rosterVars => LoginsInv'
  BY LoginsAreKept
<1> QED BY <1>1, <1>2, PTL DEF RosterSpec, LoginsInv

-----------------------------------------------------------------------------
(* Who a student is. *)

Below == {ss \in Nat \X Nat : ss[1] < ss[2]}
LEMMA BelowWF == IsWellFoundedOn(Below, Nat)
<1>1. Below = OpToRel(<, Nat)
  BY DEF OpToRel, Below
<1> QED BY <1>1, NatLessThanWellFounded

\* What holds of 0, and of k + 1 whenever of k, holds of the numbers up to any N.
LEMMA UpTo ==
    ASSUME NEW N \in Nat, NEW T, 0 \in T,
           \A k \in Nat : k < N /\ k \in T => k + 1 \in T
    PROVE  \A k \in 0 .. N : k \in T
<1> DEFINE M == {k \in 0 .. N : k \notin T}
<1> SUFFICES ASSUME M # {} PROVE FALSE
  OBVIOUS
<1>1. PICK n \in M : \A m \in M : ~ (<<m, n>> \in Below)
  <2>1. M \in SUBSET Nat
    OBVIOUS
  <2> HIDE DEF M
  <2> QED BY <2>1, BelowWF, WFMin
<1>2. n \in Nat /\ n # 0 /\ n <= N /\ n \notin T
  OBVIOUS
<1>3. n - 1 \in Nat /\ n - 1 < N /\ n - 1 + 1 = n
  BY <1>2
<1>4. n - 1 \notin T
  BY <1>2, <1>3
<1>5. n - 1 \in M
  BY <1>2, <1>3, <1>4
<1>6. <<n - 1, n>> \in Below
  <2>1. <<n - 1, n>> \in Nat \X Nat /\ n - 1 < n
    BY <1>2, <1>3
  <2> HIDE DEF M
  <2> QED BY <2>1, Zenon DEF Below
<1> HIDE DEF M
<1> QED BY <1>1, <1>5, <1>6

-----------------------------------------------------------------------------
\* The loop over the planned rows is the recursive function it is written as.

RowsOf(i) == import[i].plan.rows
PutsUp(i, f) ==
    f = [k \in 0 .. Len(RowsOf(i)) |-> IF k = 0 THEN Tables ELSE Put(i, f[k - 1], RowsOf(i)[k])]

LEMMA PutsExist ==
    ASSUME NEW i, Len(RowsOf(i)) \in Nat
    PROVE  \E f : PutsUp(i, f)
<1> DEFINE N == Len(RowsOf(i))
           Body(f, k) == IF k = 0 THEN Tables ELSE Put(i, f[k - 1], RowsOf(i)[k])
           T == {n \in Nat : \E f : \A k \in 0 .. n : f[k] = Body(f, k)}
<1>0. N \in Nat
  OBVIOUS
<1>1. 0 \in T
  <2> DEFINE f == [k \in 0 .. 0 |-> Tables]
  <2>1. \A k \in 0 .. 0 : f[k] = Body(f, k)
    OBVIOUS
  <2> HIDE DEF f
  <2> QED BY <2>1
<1>2. ASSUME NEW n \in Nat, n \in T PROVE n + 1 \in T
  <2>1. PICK f : \A k \in 0 .. n : f[k] = Body(f, k)
    BY <1>2
  <2> DEFINE g == [k \in 0 .. (n + 1) |-> IF k = 0 THEN Tables ELSE Put(i, f[k - 1], RowsOf(i)[k])]
  <2>2. \A k \in 0 .. n : g[k] = f[k]
    BY <2>1
  <2>3. ASSUME NEW k \in 0 .. (n + 1) PROVE g[k] = Body(g, k)
    <3>1. CASE k = 0
      BY <3>1
    <3>2. CASE k # 0
      <4>1. k - 1 \in 0 .. n
        BY <3>2
      <4>2. g[k - 1] = f[k - 1]
        BY <2>2, <4>1
      <4> QED BY <4>2, <3>2
    <3> QED BY <3>1, <3>2
  <2> HIDE DEF g
  <2> QED BY <2>3
<1>3. N \in T
  <2> HIDE DEF T, N
  <2>1. \A k \in 0 .. N : k \in T
    BY <1>0, <1>1, <1>2, UpTo
  <2> QED BY <2>1, <1>0
<1>4. PICK f : \A k \in 0 .. N : f[k] = Body(f, k)
  BY <1>3
<1> DEFINE g == [k \in 0 .. N |-> Body(f, k)]
<1>5. \A k \in 0 .. N : g[k] = f[k]
  BY <1>4
<1>6. \A k \in 0 .. N : Body(g, k) = Body(f, k)
  <2> SUFFICES ASSUME NEW k \in 0 .. N, k # 0 PROVE g[k - 1] = f[k - 1]
    OBVIOUS
  <2>1. k - 1 \in 0 .. N
    BY <1>0
  <2> HIDE DEF g, N
  <2> QED BY <1>5, <2>1
<1>7. g = [k \in 0 .. N |-> Body(g, k)]
  BY <1>6
<1> HIDE DEF g
<1> QED BY <1>7 DEF PutsUp

LEMMA PutsAre ==
    ASSUME NEW i, Len(RowsOf(i)) \in Nat
    PROVE  /\ Puts(i)[0] = Tables
           /\ \A k \in 0 .. Len(RowsOf(i)) :
                 k # 0 => Puts(i)[k] = Put(i, Puts(i)[k - 1], RowsOf(i)[k])
<1>1. Puts(i) = CHOOSE f : PutsUp(i, f)
  BY DEF Puts, PutsUp, RowsOf
<1>2. PutsUp(i, Puts(i))
  BY <1>1, PutsExist
<1> DEFINE p == Puts(i)
<1> HIDE DEF p
<1>3. p = [k \in 0 .. Len(RowsOf(i)) |-> IF k = 0 THEN Tables ELSE Put(i, p[k - 1], RowsOf(i)[k])]
  BY <1>2 DEF PutsUp, p
<1> QED BY <1>3 DEF p

-----------------------------------------------------------------------------
\* What writing a row does to the tables.

NumbersHeld == {0} \cup Nos \cup {- s : s \in Enrollees}
Dbs == [number : [Enrollees -> NumbersHeld], standing : [Enrollees -> {"absent", "active", "graduated"}],
        deactivated : [Enrollees -> BOOLEAN], enrolled : [SchoolYears -> [Enrollees -> EnrolmentRows]],
        ok : BOOLEAN, room : BOOLEAN]

Numbered(db, y, s, n) == {t \in Enrollees \ {s} : db.enrolled[y][t].no = n}

\* The enrolments of the year after s was enrolled under n: his own, or those of the others
\* who have the number, when he had none.
EnrolledUnder(db, e, y, s, n) ==
    /\ \A z \in SchoolYears : z # y => e.enrolled[z] = db.enrolled[z]
    /\ \/ /\ Numbered(db, y, s, n) = {}
          /\ e.enrolled[y][s] = Enrolment(n)
          /\ \A t \in Enrollees \ {s} : e.enrolled[y][t] = db.enrolled[y][t]
       \/ /\ Numbered(db, y, s, n) # {} /\ db.enrolled[y][s] = NotEnrolled
          /\ \A t \in Numbered(db, y, s, n) : e.enrolled[y][t] = Enrolment(n)
          /\ \A t \in Enrollees \ Numbered(db, y, s, n) : e.enrolled[y][t] = db.enrolled[y][t]

LEMMA NosAreNumbers ==
    /\ \A n \in Nos : n \in NumbersHeld /\ n # 0 /\ n \in Nat /\ Enrolment(n) \in EnrolmentRows
    /\ NotEnrolled \in EnrolmentRows
    /\ 0 \in NumbersHeld /\ \A s \in Enrollees : s \in Nat /\ - s \in NumbersHeld
    /\ EnrolmentRows = [no : NumbersHeld, active : BOOLEAN]
BY RosterAssumption DEF NumbersHeld, EnrolmentRows, Enrolment, NotEnrolled

LEMMA EnrolIs ==
    ASSUME NEW db \in Dbs, NEW y \in SchoolYears, NEW s \in Enrollees, NEW n \in Nos,
           Enrol(db, y, s, n).ok
    PROVE  /\ Enrol(db, y, s, n) \in Dbs /\ db.ok
           /\ Enrol(db, y, s, n).number = db.number /\ Enrol(db, y, s, n).standing = db.standing
           /\ EnrolledUnder(db, Enrol(db, y, s, n), y, s, n)
<1> DEFINE others == Numbered(db, y, s, n)
<1>0. Enrolment(n) \in EnrolmentRows
  BY NosAreNumbers
<1>1. db.enrolled \in [SchoolYears -> [Enrollees -> EnrolmentRows]]
  BY DEF Dbs
<1>2. CASE others = {}
  <2> DEFINE e == [db EXCEPT !.enrolled[y][s] = Enrolment(n)]
  <2>1. Enrol(db, y, s, n) = e
    BY <1>2 DEF Enrol, Numbered
  <2>2. /\ e.enrolled = [db.enrolled EXCEPT ![y][s] = Enrolment(n)] /\ e.ok = db.ok
        /\ e.number = db.number /\ e.standing = db.standing
    BY DEF Dbs
  <2>3. e \in Dbs
    BY <1>0 DEF Dbs
  <2> HIDE DEF e
  <2>4. EnrolledUnder(db, e, y, s, n)
    BY <1>1, <1>2, <2>2 DEF EnrolledUnder
  <2> QED BY <2>1, <2>2, <2>3, <2>4
<1>3. CASE others # {}
  <2> DEFINE e == [db EXCEPT !.enrolled[y] = [t \in Enrollees |->
                      IF t \in others THEN Enrolment(n) ELSE db.enrolled[y][t]]]
  <2>1. Refuse(db).ok = FALSE
    BY DEF Refuse, Dbs
  <2>2. db.enrolled[y][s] = NotEnrolled /\ Enrol(db, y, s, n) = e
    BY <1>3, <2>1 DEF Enrol, Numbered
  <2>3. /\ e.enrolled = [db.enrolled EXCEPT ![y] = [t \in Enrollees |->
                            IF t \in others THEN Enrolment(n) ELSE db.enrolled[y][t]]]
        /\ e.number = db.number /\ e.standing = db.standing /\ e.ok = db.ok
    BY DEF Dbs
  <2>4. e \in Dbs
    <3> DEFINE row == [t \in Enrollees |-> IF t \in others THEN Enrolment(n) ELSE db.enrolled[y][t]]
    <3>1. row \in [Enrollees -> EnrolmentRows]
      BY <1>0, <1>1
    <3> HIDE DEF row, others
    <3>2. [db EXCEPT !.enrolled[y] = row] \in Dbs
      BY <3>1 DEF Dbs
    <3> QED BY <3>2 DEF row
  <2> HIDE DEF e
  <2>5. EnrolledUnder(db, e, y, s, n)
    <3>1. \A z \in SchoolYears : z # y => e.enrolled[z] = db.enrolled[z]
      BY <1>1, <2>3
    <3>2. \A t \in Enrollees : e.enrolled[y][t] = IF t \in others THEN Enrolment(n) ELSE db.enrolled[y][t]
      BY <1>1, <2>3
    <3>3. others \subseteq Enrollees
      BY DEF Numbered
    <3> HIDE DEF others
    <3> QED BY <1>3, <2>2, <3>1, <3>2, <3>3 DEF EnrolledUnder, others
  <2> QED BY <2>2, <2>3, <2>4, <2>5
<1> QED BY <1>2, <1>3

LEMMA NextIdIn ==
    ASSUME NEW db, Absent(db) # {}
    PROVE  NextId(db) \in Enrollees /\ db.standing[NextId(db)] = "absent"
<1>1. PICK s \in Absent(db) : \A m \in Absent(db) : ~ (<<m, s>> \in Below)
  <2>1. Absent(db) \in SUBSET Nat
    BY RosterAssumption DEF Absent
  <2> QED BY <2>1, BelowWF, WFMin
<1>2. ASSUME NEW t \in Absent(db) PROVE s <= t
  <2>1. s \in Nat /\ t \in Nat
    BY RosterAssumption DEF Absent
  <2>2. t < s => <<t, s>> \in Below
    <3>1. <<t, s>> \in Nat \X Nat
      BY <2>1
    <3> QED BY <3>1, Zenon DEF Below
  <2> QED BY <1>1, <2>1, <2>2
<1>3. NextId(db) \in Absent(db)
  BY <1>1, <1>2 DEF NextId
<1> QED BY <1>3 DEF Absent

\* A student is created: whoever was absent is active now, and enrolled under the number.
Created(db, e, y, s, n) ==
    /\ s \in Enrollees /\ db.standing[s] = "absent"
    /\ e.number[s] = n /\ e.standing[s] = "active" /\ e.enrolled[y][s] = Enrolment(n)
    /\ \A t \in Enrollees \ {s} :
          /\ e.number[t] = db.number[t] /\ e.standing[t] = db.standing[t]
          /\ e.enrolled[y][t] = db.enrolled[y][t]
    /\ \A z \in SchoolYears : z # y => e.enrolled[z] = db.enrolled[z]

LEMMA CreateRowIs ==
    ASSUME NEW db \in Dbs, NEW y \in SchoolYears, NEW n \in Nos, CreateRow(db, y, n).ok
    PROVE  /\ CreateRow(db, y, n) \in Dbs /\ db.ok
           /\ \E s \in Enrollees : Created(db, CreateRow(db, y, n), y, s, n)
<1> DEFINE s == NextId(db)
           e == [db EXCEPT !.number[s] = n, !.standing[s] = "active", !.enrolled[y][s] = Enrolment(n)]
<1>0. Enrolment(n) \in EnrolmentRows /\ n \in NumbersHeld
  BY NosAreNumbers
<1>1. Refuse(db).ok = FALSE /\ [db EXCEPT !.ok = FALSE, !.room = FALSE].ok = FALSE
  BY DEF Refuse, Dbs
<1>2. Absent(db) # {} /\ CreateRow(db, y, n) = e
  BY <1>1 DEF CreateRow
<1>3. s \in Enrollees /\ db.standing[s] = "absent"
  BY <1>2, NextIdIn
<1> HIDE DEF s
<1>4. /\ db.number \in [Enrollees -> NumbersHeld]
      /\ db.standing \in [Enrollees -> {"absent", "active", "graduated"}]
      /\ db.enrolled \in [SchoolYears -> [Enrollees -> EnrolmentRows]]
  BY DEF Dbs
<1>5. /\ e.number = [db.number EXCEPT ![s] = n] /\ e.standing = [db.standing EXCEPT ![s] = "active"]
      /\ e.enrolled = [db.enrolled EXCEPT ![y][s] = Enrolment(n)] /\ e.ok = db.ok
  BY DEF Dbs
<1>6. e \in Dbs
  BY <1>0, <1>3 DEF Dbs
<1> HIDE DEF e
<1>7. Created(db, e, y, s, n)
  BY <1>3, <1>4, <1>5 DEF Created
<1> QED BY <1>2, <1>3, <1>5, <1>6, <1>7

\* A student is updated: of the number only when the numbers in use change.
Updated(db, e, y, s, n, sync) ==
    /\ e.number[s] = IF sync THEN n ELSE db.number[s]
    /\ e.standing[s] = IF sync THEN "active" ELSE db.standing[s]
    /\ \A t \in Enrollees \ {s} : e.number[t] = db.number[t] /\ e.standing[t] = db.standing[t]
    /\ EnrolledUnder(db, e, y, s, n)

LEMMA UpdateRowIs ==
    ASSUME NEW db \in Dbs, NEW y \in SchoolYears, NEW s \in Enrollees, NEW n \in Nos,
           NEW sync \in BOOLEAN, UpdateRow(db, y, s, n, sync).ok
    PROVE  /\ UpdateRow(db, y, s, n, sync) \in Dbs /\ db.ok
           /\ Updated(db, UpdateRow(db, y, s, n, sync), y, s, n, sync)
<1>1. CASE ~ sync
  BY <1>1, EnrolIs DEF UpdateRow, Updated
<1>2. CASE sync
  <2> DEFINE d == [db EXCEPT !.number[s] = n, !.standing[s] = "active", !.deactivated[s] = FALSE]
  <2>0. n \in NumbersHeld
    BY NosAreNumbers
  <2>1. Refuse(db).ok = FALSE
    BY DEF Refuse, Dbs
  <2>2. UpdateRow(db, y, s, n, sync) = Enrol(d, y, s, n)
    BY <1>2, <2>1 DEF UpdateRow
  <2>3. /\ d.number = [db.number EXCEPT ![s] = n] /\ d.standing = [db.standing EXCEPT ![s] = "active"]
        /\ d.enrolled = db.enrolled /\ d.ok = db.ok
    BY DEF Dbs
  <2>4. d \in Dbs
    BY <2>0 DEF Dbs
  <2> HIDE DEF d
  <2> DEFINE e == Enrol(d, y, s, n)
  <2>5. /\ e \in Dbs /\ d.ok /\ e.number = d.number /\ e.standing = d.standing
        /\ EnrolledUnder(d, e, y, s, n)
    BY <2>2, <2>4, EnrolIs
  <2> HIDE DEF e
  <2>6. EnrolledUnder(db, e, y, s, n)
    BY <2>3, <2>5 DEF EnrolledUnder, Numbered
  <2>7. /\ db.number \in [Enrollees -> NumbersHeld]
        /\ db.standing \in [Enrollees -> {"absent", "active", "graduated"}]
    BY DEF Dbs
  <2>8. /\ e.number[s] = n /\ e.standing[s] = "active"
        /\ \A t \in Enrollees \ {s} : e.number[t] = db.number[t] /\ e.standing[t] = db.standing[t]
    BY <2>3, <2>5, <2>7
  <2> QED BY <1>2, <2>2, <2>3, <2>5, <2>6, <2>8 DEF e, Updated
<1> QED BY <1>1, <1>2

-----------------------------------------------------------------------------
\* What holds between the tables and the calls under way.

Present == {s \in Enrollees : standing[s] # "absent"}

Plans == [base : {0} \cup SchoolYears,
          rows : Seq([who : {0} \cup Enrollees, no : Nos, changes : BOOLEAN]),
          leavers : SUBSET Enrollees]

\* A plan is of the rows of its file; whom it names is a student and remains one.
PlanHolds(i) ==
    /\ import[i].plan.base \in SchoolYears
    /\ Len(RowsOf(i)) = Len(FileOf[i].rows)
    /\ \A k \in 1 .. Len(RowsOf(i)) :
          RowsOf(i)[k].no = FileOf[i].rows[k].no /\ RowsOf(i)[k].who \in {0} \cup Present

CallsHold ==
    /\ import \in [Imports -> [stage : {"barred", "new", "planned", "stale", "refused", "graduating", "applied"},
                               plan : Plans]]
    /\ \A i \in Imports : import[i].stage = "planned" => PlanHolds(i)
    /\ correction \in [Corrections -> [stage : {"barred", "new", "read", "written", "refused"},
                                       year : {0} \cup SchoolYears, no : {0} \cup Nos]]
    /\ \A c \in Corrections : correction[c].stage = "read" =>
          correction[c].year \in SchoolYears /\ correction[c].no \in Nos /\ CorrectTo[c].who \in Present
    /\ addition \in [Additions -> [stage : {"barred", "new", "read", "written", "refused"},
                                   year : {0} \cup SchoolYears]]
    /\ \A a \in Additions : addition[a].stage = "read" => addition[a].year \in SchoolYears

AbsentAreNotEnrolled ==
    \A s \in Enrollees : standing[s] = "absent" => \A y \in SchoolYears : enrolled[y][s] = NotEnrolled

\* Of the tables db, with y the active year: s has the number of his enrolment of the year,
\* and an enrolment of it or a later one.
Sits(db, y, s) ==
    db.standing[s] = "active" =>
        /\ db.enrolled[y][s].active => db.number[s] = db.enrolled[y][s].no
        /\ \E z \in SchoolYears : z >= y /\ db.enrolled[z][s].active

RosterInv ==
    RosterTypeOK /\ CallsHold /\ AbsentAreNotEnrolled /\ NumbersAgree /\ ActiveAreEnrolled

LEMMA SitsIs ==
    ASSUME RosterTypeOK
    PROVE  NumbersAgree /\ ActiveAreEnrolled <=> \A s \in Enrollees \ crossed : Sits(Tables, activeYear, s)
BY DEF NumbersAgree, ActiveAreEnrolled, Sits, Tables, RosterTypeOK

LEMMA TablesAreDb == RosterTypeOK => Tables \in Dbs
BY DEF RosterTypeOK, Tables, Dbs, NumbersHeld

\* Who is under a number, or studies, is a student.
LEMMA EnrolledArePresent ==
    ASSUME RosterTypeOK, AbsentAreNotEnrolled, NEW y \in SchoolYears, NEW n \in Nos
    PROVE  Under(y, n) \subseteq Present /\ Studying(y) \subseteq Present
<1>1. NotEnrolled.no = 0 /\ NotEnrolled.active = FALSE /\ n # 0
  BY NosAreNumbers DEF NotEnrolled
<1> QED BY <1>1 DEF AbsentAreNotEnrolled, Under, Studying, Present

LEMMA FilesAre ==
    ASSUME NEW i \in Imports
    PROVE  /\ FileOf[i].year \in SchoolYears /\ FileOf[i].activates \in BOOLEAN
           /\ FileOf[i].rows \in Seq(RosterRows)
           /\ \A k \in 1 .. Len(FileOf[i].rows) :
                 /\ FileOf[i].rows[k] \in RosterRows /\ FileOf[i].rows[k].no \in Nos
                 /\ FileOf[i].rows[k].prev \in {0} \cup Nos
           /\ \A j, k \in 1 .. Len(FileOf[i].rows) :
                 j # k => FileOf[i].rows[j].no # FileOf[i].rows[k].no
<1>1. FileOf[i] \in [year : SchoolYears, activates : BOOLEAN, rows : Seq(RosterRows)]
  BY RosterAssumption
<1>2. FileOf[i].rows \in Seq(RosterRows) /\ DOMAIN FileOf[i].rows = 1 .. Len(FileOf[i].rows)
  BY <1>1
<1>3. \A k \in 1 .. Len(FileOf[i].rows) : FileOf[i].rows[k] \in RosterRows
  BY <1>2
<1>4. \A j, k \in DOMAIN FileOf[i].rows : j # k => FileOf[i].rows[j].no # FileOf[i].rows[k].no
  BY RosterAssumption
<1> QED BY <1>1, <1>2, <1>3, <1>4 DEF RosterRows

LEMMA RowsAre ==
    ASSUME CallsHold, NEW i \in Imports
    PROVE  /\ import[i].plan \in Plans /\ Len(RowsOf(i)) \in Nat
           /\ RowsOf(i) \in Seq([who : {0} \cup Enrollees, no : Nos, changes : BOOLEAN])
           /\ DOMAIN RowsOf(i) = 1 .. Len(RowsOf(i))
           /\ \A k \in 1 .. Len(RowsOf(i)) :
                 /\ RowsOf(i)[k].who \in {0} \cup Enrollees /\ RowsOf(i)[k].no \in Nos
                 /\ RowsOf(i)[k].changes \in BOOLEAN
<1>1. import[i].plan \in Plans
  BY DEF CallsHold
<1> DEFINE R == [who : {0} \cup Enrollees, no : Nos, changes : BOOLEAN]
<1>2. RowsOf(i) \in Seq(R)
  BY <1>1 DEF Plans, RowsOf
<1>3. \A k \in 1 .. Len(RowsOf(i)) : RowsOf(i)[k] \in R
  <2> HIDE DEF R
  <2> QED BY <1>2
<1> QED BY <1>1, <1>2, <1>3

-----------------------------------------------------------------------------
\* Rows that would be planned otherwise now.

UpToDate(i, k) ==
    /\ ~ RowConflicts(FileOf[i], FileOf[i].rows[k])
    /\ RowsOf(i)[k] \in PlannedRows(FileOf[i], FileOf[i].rows[k])

LEMMA OutdatedAreOvertaken ==
    ASSUME CallsHold, NEW i \in Imports, activeYear = import[i].plan.base,
           NEW k \in 1 .. Len(RowsOf(i)), ~ UpToDate(i, k)
    PROVE  /\ RowsOf(i)[k].who # 0 => RowsOf(i)[k].who \in Overtaken(i)
           /\ Under(FileOf[i].year, RowsOf(i)[k].no) \subseteq Overtaken(i)
<1> DEFINE out == {j \in DOMAIN RowsOf(i) : /\ activeYear = import[i].plan.base
                                            /\ \/ RowConflicts(FileOf[i], FileOf[i].rows[j])
                                               \/ RowsOf(i)[j] \notin PlannedRows(FileOf[i], FileOf[i].rows[j])}
           of(j) == {s \in Enrollees : s = RowsOf(i)[j].who} \cup Under(FileOf[i].year, RowsOf(i)[j].no)
<1>1. k \in out
  BY RowsAre DEF UpToDate
<1>2. Overtaken(i) = UNION {of(j) : j \in out}
  BY DEF Overtaken, RowsOf
<1> HIDE DEF out
<1>3. of(k) \subseteq Overtaken(i)
  BY <1>1, <1>2
<1> QED BY <1>3, RowsAre

LEMMA TwoAreTwo ==
    ASSUME NEW s, NEW t, s # t
    PROVE  Cardinality({s, t}) = 2
<1> DEFINE B == {s}
<1>1. {s, t} = B \cup {t} /\ t \notin B
  OBVIOUS
<1>2. IsFiniteSet(B) /\ Cardinality(B) = 1
  BY FS_Singleton
<1> HIDE DEF B
<1>3. Cardinality(B \cup {t}) = Cardinality(B) + 1
  BY <1>1, <1>2, FS_AddElement
<1> QED BY <1>1, <1>2, <1>3

LEMMA UpToDateRow ==
    ASSUME RosterTypeOK, CallsHold, NEW i \in Imports, PlanHolds(i),
           NEW k \in 1 .. Len(RowsOf(i)), UpToDate(i, k)
    PROVE  /\ Under(FileOf[i].year, RowsOf(i)[k].no) \subseteq {RowsOf(i)[k].who}
           /\ ~ RowsOf(i)[k].changes =>
                 /\ RowsOf(i)[k].who # 0
                 /\ ~ RowChanges(FileOf[i], FileOf[i].rows[k], RowsOf(i)[k].who)
<1> DEFINE f == FileOf[i]  r == FileOf[i].rows[k]  p == RowsOf(i)[k]  M == Matches(f, r)
<1>1. M \subseteq Enrollees /\ Under(f.year, p.no) \subseteq M
  <2>1. p.no = r.no
    BY DEF PlanHolds
  <2>2. r.alike \subseteq Enrollees
    <3>1. k \in 1 .. Len(f.rows)
      BY DEF PlanHolds
    <3>2. r \in RosterRows
      BY <3>1, FilesAre
    <3> QED BY <3>2 DEF RosterRows
  <2> HIDE DEF f, r, p
  <2>3. Identified(f, r) \subseteq Enrollees /\ Under(f.year, r.no) \subseteq Identified(f, r)
    <3>1. Named(r) \subseteq Enrollees /\ Under(f.year, r.no) \subseteq Enrollees
          /\ Studying(activeYear) \subseteq Enrollees
      BY DEF Named, Under, Studying
    <3> QED BY <3>1 DEF Identified
  <2>4. M = IF Identified(f, r) # {} THEN Identified(f, r)
            ELSE {s \in r.alike : standing[s] # "absent" /\ number[s] >= 0}
    BY DEF Matches
  <2> HIDE DEF M
  <2>5. CASE Identified(f, r) # {}
    BY <2>1, <2>3, <2>4, <2>5
  <2>6. CASE Identified(f, r) = {}
    BY <2>1, <2>2, <2>3, <2>4, <2>6
  <2> QED BY <2>5, <2>6
<1>2. IsFiniteSet(M) /\ Cardinality(M) \in Nat /\ ~ (Cardinality(M) > 1)
  BY <1>1, RosterAssumption, FS_Subset, FS_CardinalityType DEF UpToDate, RowConflicts
<1>3. \A s, t \in M : s = t
  <2> SUFFICES ASSUME NEW s \in M, NEW t \in M, s # t PROVE FALSE
    OBVIOUS
  <2> HIDE DEF M
  <2>1. {s, t} \subseteq M
    OBVIOUS
  <2>2. Cardinality({s, t}) <= Cardinality(M)
    BY <1>2, <2>1, FS_Subset
  <2>3. Cardinality({s, t}) = 2
    BY TwoAreTwo
  <2> QED BY <1>2, <2>2, <2>3
<1>4. p \in PlannedRows(f, r)
  BY DEF UpToDate
<1>5. CASE M = {}
  <2>1. p.changes = TRUE
    BY <1>4, <1>5 DEF PlannedRows
  <2> HIDE DEF M
  <2> QED BY <1>1, <1>5, <2>1
<1>6. CASE M # {}
  <2>1. PICK s \in M : p = [who |-> s, no |-> r.no, changes |-> RowChanges(f, r, s)]
    BY <1>4, <1>6 DEF PlannedRows
  <2>2. p.who = s /\ p.changes = RowChanges(f, r, s)
    BY <2>1
  <2>3. s # 0
    BY <1>1, RosterAssumption
  <2> HIDE DEF M, p, f, r
  <2>4. Under(f.year, p.no) \subseteq {s}
    BY <1>1, <1>3
  <2> QED BY <2>2, <2>3, <2>4 DEF p, f, r
<1> QED BY <1>5, <1>6

-----------------------------------------------------------------------------
\* The loop over the planned rows.

Sync(i) == FileOf[i].activates \/ FileOf[i].year = import[i].plan.base

\* Row k takes the tables db to e.
Wrote(i, k, db, e) ==
    LET r == RowsOf(i)[k]
        y == FileOf[i].year
    IN  \/ ~ r.changes /\ e = db
        \/ r.who = 0 /\ \E s \in Enrollees : Created(db, e, y, s, r.no)
        \/ r.who \in Present /\ Updated(db, e, y, r.who, r.no, Sync(i))

LEMMA PutIs ==
    ASSUME CallsHold, NEW i \in Imports, PlanHolds(i), NEW k \in 1 .. Len(RowsOf(i)),
           NEW db \in Dbs, Put(i, db, RowsOf(i)[k]).ok
    PROVE  /\ db.ok /\ Put(i, db, RowsOf(i)[k]) \in Dbs
           /\ Wrote(i, k, db, Put(i, db, RowsOf(i)[k]))
<1> DEFINE r == RowsOf(i)[k]  y == FileOf[i].year
<1>1. /\ y \in SchoolYears /\ r.no \in Nos /\ r.changes \in BOOLEAN /\ r.who \in {0} \cup Present
      /\ Sync(i) \in BOOLEAN /\ Present \subseteq Enrollees
  BY FilesAre, RowsAre DEF PlanHolds, Sync, Present
<1> HIDE DEF r, y
<1>2. CASE ~ db.ok \/ ~ r.changes
  <2>1. Put(i, db, r) = db
    BY <1>2 DEF Put
  <2> QED BY <1>2, <2>1 DEF r, Wrote
<1>3. CASE db.ok /\ r.changes /\ r.who = 0
  <2>1. Put(i, db, r) = CreateRow(db, y, r.no)
    BY <1>3 DEF Put, y
  <2> QED BY <1>1, <1>3, <2>1, CreateRowIs DEF r, y, Wrote
<1>4. CASE db.ok /\ r.changes /\ r.who # 0
  <2>1. Put(i, db, r) = UpdateRow(db, y, r.who, r.no, Sync(i))
    BY <1>4 DEF Put, y, Sync
  <2>2. r.who \in Present /\ r.who \in Enrollees
    BY <1>1, <1>4
  <2> QED BY <1>1, <2>1, <2>2, UpdateRowIs DEF r, y, Wrote
<1> QED BY <1>1, <1>2, <1>3, <1>4

\* Nobody vanishes, the other years are left alone, and the numbers of the rows to come
\* are with whom they were.
Kept(i, k, db) ==
    /\ db \in Dbs
    /\ \A s \in Enrollees : db.standing[s] = "absent" =>
          standing[s] = "absent" /\ \A z \in SchoolYears : db.enrolled[z][s] = NotEnrolled
    /\ \A z \in SchoolYears : z # FileOf[i].year => db.enrolled[z] = enrolled[z]
    /\ \A j \in 1 .. Len(RowsOf(i)) : j > k =>
          Numbered(db, FileOf[i].year, 0, RowsOf(i)[j].no) \subseteq Under(FileOf[i].year, RowsOf(i)[j].no)

LEMMA KeptStep ==
    ASSUME CallsHold, NEW i \in Imports, PlanHolds(i), NEW k \in 1 .. Len(RowsOf(i)),
           NEW db, NEW e, Kept(i, k - 1, db), e \in Dbs, Wrote(i, k, db, e)
    PROVE  Kept(i, k, e)
<1> DEFINE r == RowsOf(i)[k]  y == FileOf[i].year
<1>1. /\ y \in SchoolYears /\ r.no \in Nos /\ r.no # 0 /\ Present \subseteq Enrollees
      /\ Enrolment(r.no).no = r.no /\ NotEnrolled.no = 0
  BY FilesAre, RowsAre, NosAreNumbers DEF PlanHolds, Present, Enrolment, NotEnrolled
<1>2. ASSUME NEW j \in 1 .. Len(RowsOf(i)), j > k
      PROVE  /\ j > k - 1 /\ RowsOf(i)[j].no # r.no
             /\ \A t \in Enrollees : db.enrolled[y][t].no = RowsOf(i)[j].no => t \in Under(y, RowsOf(i)[j].no)
  <2>1. RowsOf(i)[j].no # r.no /\ j > k - 1
    BY <1>2, FilesAre DEF PlanHolds
  <2>2. 0 \notin Enrollees
    BY RosterAssumption
  <2>3. Numbered(db, y, 0, RowsOf(i)[j].no) \subseteq Under(y, RowsOf(i)[j].no)
    BY <2>1 DEF Kept
  <2> QED BY <2>1, <2>2, <2>3 DEF Numbered
<1>3. CASE ~ r.changes /\ e = db
  BY <1>2, <1>3 DEF Kept
<1>4. CASE \E s \in Enrollees : Created(db, e, y, s, r.no)
  <2> PICK s \in Enrollees : Created(db, e, y, s, r.no)
    BY <1>4
  <2> HIDE DEF r, y
  <2>1. \A t \in Enrollees : e.standing[t] = "absent" =>
          standing[t] = "absent" /\ \A z \in SchoolYears : e.enrolled[z][t] = NotEnrolled
    BY <1>1 DEF Created, Kept
  <2>2. \A z \in SchoolYears : z # y => e.enrolled[z] = enrolled[z]
    BY DEF Created, Kept, y
  <2>3. ASSUME NEW j \in 1 .. Len(RowsOf(i)), j > k
        PROVE  Numbered(e, y, 0, RowsOf(i)[j].no) \subseteq Under(y, RowsOf(i)[j].no)
    <3>1. \A t \in Enrollees : e.enrolled[y][t].no = RowsOf(i)[j].no => t \in Under(y, RowsOf(i)[j].no)
      BY <1>1, <1>2, <2>3 DEF Created
    <3> QED BY <3>1 DEF Numbered
  <2> QED BY <2>1, <2>2, <2>3 DEF Kept, y
<1>5. CASE r.who \in Present /\ Updated(db, e, y, r.who, r.no, Sync(i))
  <2> DEFINE s == r.who
  <2> HIDE DEF r, y
  <2>0. s \in Enrollees /\ standing[s] # "absent" /\ EnrolledUnder(db, e, y, s, r.no)
    BY <1>5 DEF Present, Updated
  <2>1. ASSUME NEW t \in Enrollees, e.standing[t] = "absent"
        PROVE  standing[t] = "absent" /\ \A z \in SchoolYears : e.enrolled[z][t] = NotEnrolled
    <3>1. t # s
      BY <1>5, <2>0, <2>1 DEF Updated, Kept
    <3>2. db.standing[t] = "absent"
      BY <1>5, <2>1, <3>1 DEF Updated
    <3>3. standing[t] = "absent" /\ \A z \in SchoolYears : db.enrolled[z][t] = NotEnrolled
      BY <3>2 DEF Kept
    <3>4. t \notin Numbered(db, y, s, r.no)
      BY <1>1, <3>3 DEF Numbered
    <3>5. \A z \in SchoolYears : e.enrolled[z][t] = db.enrolled[z][t]
      BY <2>0, <3>1, <3>4 DEF EnrolledUnder
    <3> QED BY <3>3, <3>5
  <2>2. \A z \in SchoolYears : z # y => e.enrolled[z] = enrolled[z]
    BY <2>0 DEF EnrolledUnder, Kept, y
  <2>3. ASSUME NEW j \in 1 .. Len(RowsOf(i)), j > k
        PROVE  Numbered(e, y, 0, RowsOf(i)[j].no) \subseteq Under(y, RowsOf(i)[j].no)
    <3>1. \A t \in Enrollees : e.enrolled[y][t] \in {db.enrolled[y][t], Enrolment(r.no)}
      BY <2>0 DEF EnrolledUnder
    <3>2. \A t \in Enrollees : e.enrolled[y][t].no = RowsOf(i)[j].no => t \in Under(y, RowsOf(i)[j].no)
      BY <1>1, <1>2, <2>3, <3>1
    <3> QED BY <3>2 DEF Numbered
  <2> QED BY <2>1, <2>2, <2>3 DEF Kept, y
<1> QED BY <1>3, <1>4, <1>5 DEF Wrote

Same(db, t) ==
    /\ db.number[t] = number[t] /\ db.standing[t] = standing[t]
    /\ \A z \in SchoolYears : db.enrolled[z][t] = enrolled[z][t]

\* An active student under his current number.
Fine(db, y, t) == db.standing[t] = "active" /\ db.enrolled[y][t] = Enrolment(db.number[t])

\* With a roster that changes the numbers in use: who is not overtaken is as before or fine,
\* and whom a row named is fine.
Renumbered(i, k, db) ==
    /\ \A t \in Enrollees \ Overtaken(i) : Same(db, t) \/ Fine(db, FileOf[i].year, t)
    /\ \A j \in 1 .. k : RowsOf(i)[j].who \in Enrollees \ Overtaken(i)
          => Fine(db, FileOf[i].year, RowsOf(i)[j].who)

LEMMA RenumberedStep ==
    ASSUME RosterTypeOK, CallsHold, NEW i \in Imports, PlanHolds(i), activeYear = import[i].plan.base, Sync(i),
           NEW k \in 1 .. Len(RowsOf(i)),
           NEW db, NEW e, Kept(i, k - 1, db), e \in Dbs, Wrote(i, k, db, e), Renumbered(i, k - 1, db)
    PROVE  Renumbered(i, k, e)
<1> DEFINE r == RowsOf(i)[k]  y == FileOf[i].year
<1>1. /\ y \in SchoolYears /\ r.no \in Nos /\ r.no # 0 /\ Present \subseteq Enrollees
      /\ Enrolment(r.no).no = r.no /\ NotEnrolled.no = 0 /\ 0 \notin Enrollees
  BY FilesAre, RowsAre, NosAreNumbers, RosterAssumption DEF PlanHolds, Present, Enrolment, NotEnrolled
<1>2. UpToDate(i, k) \/ /\ r.who # 0 => r.who \in Overtaken(i)
                        /\ Under(y, r.no) \subseteq Overtaken(i)
  BY OutdatedAreOvertaken
<1>3. UpToDate(i, k) => Under(y, r.no) \subseteq {r.who}
  BY UpToDateRow
<1>4. \A t \in Enrollees : db.enrolled[y][t].no = r.no => t \in Under(y, r.no)
  <2>1. Numbered(db, y, 0, r.no) \subseteq Under(y, r.no)
    BY DEF Kept
  <2> QED BY <1>1, <2>1 DEF Numbered
\* It is enough that the step leaves whom it does not make fine, and makes fine whom it names.
<1>5. SUFFICES
        /\ \A t \in Enrollees \ Overtaken(i) :
              \/ /\ e.number[t] = db.number[t] /\ e.standing[t] = db.standing[t]
                 /\ \A z \in SchoolYears : e.enrolled[z][t] = db.enrolled[z][t]
              \/ Fine(e, y, t)
        /\ r.who \in Enrollees \ Overtaken(i) => Fine(e, y, r.who)
  <2>1. \A t \in Enrollees \ Overtaken(i) : Same(e, t) \/ Fine(e, y, t)
    BY <1>1, <1>5 DEF Renumbered, Same, Fine
  <2>2. \A t \in Enrollees \ Overtaken(i) : Fine(db, y, t) => Fine(e, y, t)
    BY <1>1, <1>5 DEF Fine
  <2>3. ASSUME NEW j \in 1 .. k, RowsOf(i)[j].who \in Enrollees \ Overtaken(i)
        PROVE  Fine(e, y, RowsOf(i)[j].who)
    <3>1. CASE j = k
      BY <1>5, <2>3, <3>1
    <3>2. CASE j # k
      <4>1. j \in 1 .. k - 1
        BY <3>2
      <4> QED BY <2>2, <2>3, <4>1 DEF Renumbered
    <3> QED BY <3>1, <3>2
  <2> QED BY <2>1, <2>3 DEF Renumbered
<1>6. CASE ~ r.changes /\ e = db
  <2>1. ASSUME r.who \in Enrollees \ Overtaken(i) PROVE Fine(db, y, r.who)
    <3>1. UpToDate(i, k) /\ r.who # 0
      BY <1>1, <1>2, <2>1
    <3>2. ~ RowChanges(FileOf[i], FileOf[i].rows[k], r.who)
      BY <1>6, <3>1, UpToDateRow
    <3>3. r.no = FileOf[i].rows[k].no /\ Syncs(FileOf[i])
      BY DEF PlanHolds, Sync, Syncs
    <3>4. enrolled[y][r.who] = Enrolment(r.no) /\ number[r.who] = r.no /\ standing[r.who] = "active"
      BY <3>2, <3>3 DEF RowChanges
    <3>5. Same(db, r.who) \/ Fine(db, y, r.who)
      BY <2>1 DEF Renumbered
    <3> HIDE DEF r
    <3> QED BY <1>1, <3>4, <3>5 DEF Same, Fine
  <2> QED BY <1>6, <2>1
<1>7. CASE r.who = 0 /\ \E s \in Enrollees : Created(db, e, y, s, r.no)
  <2> PICK s \in Enrollees : Created(db, e, y, s, r.no)
    BY <1>7
  <2> HIDE DEF r, y
  <2>1. Fine(e, y, s)
    BY DEF Created, Fine
  <2>2. \A t \in Enrollees \ {s} :
            /\ e.number[t] = db.number[t] /\ e.standing[t] = db.standing[t]
            /\ \A z \in SchoolYears : e.enrolled[z][t] = db.enrolled[z][t]
    BY DEF Created
  <2> QED BY <1>1, <1>7, <2>1, <2>2
<1>8. CASE r.who \in Present /\ Updated(db, e, y, r.who, r.no, Sync(i))
  <2> DEFINE s == r.who
  <2>0. s \in Enrollees /\ s # 0 /\ EnrolledUnder(db, e, y, s, r.no)
    BY <1>1, <1>8 DEF Updated
  <2>1. e.number[s] = r.no /\ e.standing[s] = "active"
    BY <1>8 DEF Updated
  <2> HIDE DEF r, y
  <2>2. CASE Numbered(db, y, s, r.no) = {}
    <3>1. e.enrolled[y][s] = Enrolment(r.no) /\ \A t \in Enrollees \ {s} : e.enrolled[y][t] = db.enrolled[y][t]
      BY <2>0, <2>2 DEF EnrolledUnder
    <3>2. Fine(e, y, s)
      BY <2>1, <3>1 DEF Fine
    <3>3. \A t \in Enrollees \ {s} :
            /\ e.number[t] = db.number[t] /\ e.standing[t] = db.standing[t]
            /\ \A z \in SchoolYears : e.enrolled[z][t] = db.enrolled[z][t]
      BY <1>8, <2>0, <3>1 DEF Updated, EnrolledUnder
    <3> QED BY <3>2, <3>3
  <2>3. CASE Numbered(db, y, s, r.no) # {}
    \* Somebody else has the number by now.
    <3>1. Numbered(db, y, s, r.no) \subseteq Under(y, r.no) \ {s}
      BY <1>4 DEF Numbered
    <3>2. ~ UpToDate(i, k)
      BY <1>3, <2>3, <3>1
    <3>3. s \in Overtaken(i) /\ Under(y, r.no) \subseteq Overtaken(i)
      BY <1>2, <2>0, <3>2
    <3>4. ASSUME NEW t \in Enrollees \ Overtaken(i)
          PROVE  /\ e.number[t] = db.number[t] /\ e.standing[t] = db.standing[t]
                 /\ \A z \in SchoolYears : e.enrolled[z][t] = db.enrolled[z][t]
      <4>1. t # s /\ t \notin Numbered(db, y, s, r.no)
        BY <3>1, <3>3
      <4> QED BY <1>8, <2>0, <2>3, <4>1 DEF Updated, EnrolledUnder
    <3> QED BY <3>3, <3>4
  <2> QED BY <2>2, <2>3
<1> QED BY <1>6, <1>7, <1>8 DEF Wrote

\* With a roster of another year: only newcomers change, and active enrolments stay so.
Prepared(i, db) ==
    \A t \in Enrollees :
        \/ /\ db.number[t] = number[t] /\ db.standing[t] = standing[t]
           /\ enrolled[FileOf[i].year][t].active => db.enrolled[FileOf[i].year][t].active
        \/ standing[t] = "absent" /\ db.enrolled[FileOf[i].year][t].active

LEMMA PreparedStep ==
    ASSUME CallsHold, NEW i \in Imports, PlanHolds(i), ~ Sync(i), NEW k \in 1 .. Len(RowsOf(i)),
           NEW db, NEW e, Kept(i, k - 1, db), Wrote(i, k, db, e), Prepared(i, db)
    PROVE  Prepared(i, e)
<1> DEFINE r == RowsOf(i)[k]  y == FileOf[i].year
<1>1. y \in SchoolYears /\ r.no \in Nos /\ Present \subseteq Enrollees /\ Enrolment(r.no).active = TRUE
  BY FilesAre, RowsAre DEF Present, Enrolment
<1>2. SUFFICES \A t \in Enrollees :
        \/ /\ e.number[t] = db.number[t] /\ e.standing[t] = db.standing[t]
           /\ e.enrolled[y][t] = db.enrolled[y][t] \/ e.enrolled[y][t].active
        \/ standing[t] = "absent" /\ e.enrolled[y][t].active
  BY <1>2 DEF Prepared
<1>3. CASE ~ r.changes /\ e = db
  BY <1>3
<1>4. CASE \E s \in Enrollees : Created(db, e, y, s, r.no)
  <2> PICK s \in Enrollees : Created(db, e, y, s, r.no)
    BY <1>4
  <2> HIDE DEF r, y
  <2>1. standing[s] = "absent" /\ e.enrolled[y][s].active
    BY <1>1 DEF Created, Kept
  <2> QED BY <2>1 DEF Created
<1>5. CASE r.who \in Present /\ Updated(db, e, y, r.who, r.no, Sync(i))
  <2>0. r.who \in Enrollees /\ EnrolledUnder(db, e, y, r.who, r.no)
    BY <1>1, <1>5 DEF Updated
  <2>1. \A t \in Enrollees : e.number[t] = db.number[t] /\ e.standing[t] = db.standing[t]
    BY <1>5, <2>0 DEF Updated
  <2>2. \A t \in Enrollees : e.enrolled[y][t] = db.enrolled[y][t] \/ e.enrolled[y][t] = Enrolment(r.no)
    BY <2>0 DEF EnrolledUnder
  <2> HIDE DEF r, y
  <2> QED BY <1>1, <2>1, <2>2
<1> QED BY <1>3, <1>4, <1>5 DEF Wrote

LEMMA LoopIs ==
    ASSUME RosterInv, NEW i \in Imports, import[i].stage = "planned", activeYear = import[i].plan.base,
           NEW n \in 0 .. Len(RowsOf(i)), Puts(i)[n].ok
    PROVE  /\ Kept(i, n, Puts(i)[n])
           /\ Sync(i) => Renumbered(i, n, Puts(i)[n])
           /\ ~ Sync(i) => Prepared(i, Puts(i)[n])
<1> DEFINE N == Len(RowsOf(i))
           P(k) == Puts(i)[k].ok => /\ Kept(i, k, Puts(i)[k])
                                    /\ Sync(i) => Renumbered(i, k, Puts(i)[k])
                                    /\ ~ Sync(i) => Prepared(i, Puts(i)[k])
           T == {k \in 0 .. N : P(k)}
<1>1. RosterTypeOK /\ CallsHold /\ AbsentAreNotEnrolled /\ PlanHolds(i) /\ N \in Nat
  BY RowsAre DEF RosterInv, CallsHold
<1>2. /\ Puts(i)[0] = Tables
      /\ \A k \in 0 .. N : k # 0 => Puts(i)[k] = Put(i, Puts(i)[k - 1], RowsOf(i)[k])
  BY <1>1, PutsAre
<1>3. P(0)
  <2>1. Kept(i, 0, Tables)
    <3>1. /\ Tables.standing = standing /\ Tables.enrolled = enrolled /\ Tables \in Dbs
      BY <1>1, TablesAreDb DEF Tables
    <3>2. \A y, m : Numbered(Tables, y, 0, m) \subseteq Under(y, m)
      BY <3>1 DEF Numbered, Under
    <3> QED BY <1>1, <3>1, <3>2 DEF Kept, AbsentAreNotEnrolled
  <2>2. Renumbered(i, 0, Tables)
    BY DEF Renumbered, Same, Tables
  <2>3. Prepared(i, Tables)
    BY DEF Prepared, Tables
  <2> QED BY <1>2, <2>1, <2>2, <2>3
<1>4. ASSUME NEW k \in 0 .. N, k < N, P(k) PROVE P(k + 1)
  <2> SUFFICES ASSUME Puts(i)[k + 1].ok
               PROVE  /\ Kept(i, k + 1, Puts(i)[k + 1])
                      /\ Sync(i) => Renumbered(i, k + 1, Puts(i)[k + 1])
                      /\ ~ Sync(i) => Prepared(i, Puts(i)[k + 1])
    OBVIOUS
  <2> DEFINE j == k + 1  db == Puts(i)[k]  e == Puts(i)[k + 1]
  <2>1. j \in 1 .. N /\ j - 1 = k /\ j # 0 /\ j \in 0 .. N
    BY <1>1, <1>4
  <2>2. e = Put(i, db, RowsOf(i)[j])
    <3> HIDE DEF N
    <3> QED BY <1>2, <2>1
  <2>3. db.ok
    <3>1. ~ db.ok => e = db
      BY <2>2 DEF Put
    <3> QED BY <3>1
  <2>4. Kept(i, k, db) /\ (Sync(i) => Renumbered(i, k, db)) /\ (~ Sync(i) => Prepared(i, db))
    BY <1>4, <2>3
  <2>5. e.ok /\ db \in Dbs
    BY <2>4 DEF Kept
  <2> HIDE DEF j, db, e
  <2>6. e \in Dbs /\ Wrote(i, j, db, e)
    BY <1>1, <2>1, <2>2, <2>5, PutIs
  <2>7. Kept(i, j, e)
    BY <1>1, <2>1, <2>4, <2>6, KeptStep
  <2>8. Sync(i) => Renumbered(i, j, e)
    BY <1>1, <2>1, <2>4, <2>6, RenumberedStep
  <2>9. ~ Sync(i) => Prepared(i, e)
    BY <1>1, <2>1, <2>4, <2>6, PreparedStep
  <2> QED BY <2>7, <2>8, <2>9 DEF j, e
<1>5. \A k \in 0 .. N : k \in T
  <2>1. 0 \in T
    BY <1>1, <1>3
  <2>2. \A k \in Nat : k < N /\ k \in T => k + 1 \in T
    <3> SUFFICES ASSUME NEW k \in Nat, k < N, k \in T PROVE k + 1 \in T
      OBVIOUS
    <3>1. P(k) /\ k \in 0 .. N /\ k + 1 \in 0 .. N
      BY <1>1
    <3> HIDE DEF P
    <3> QED BY <1>4, <3>1
  <2> HIDE DEF T
  <2> QED BY <1>1, <2>1, <2>2, UpTo
<1> QED BY <1>5

LEMMA GraduateIs ==
    ASSUME NEW db \in Dbs, NEW base \in SchoolYears, NEW leavers \in SUBSET Enrollees
    PROVE  LET g == Graduate(db, base, leavers) IN
           /\ g \in Dbs /\ g.ok = db.ok /\ g.number = db.number
           /\ \A s \in Enrollees : g.standing[s] = IF s \in leavers THEN "graduated" ELSE db.standing[s]
           /\ \A s \in Enrollees \ leavers : \A z \in SchoolYears : g.enrolled[z][s] = db.enrolled[z][s]
<1> DEFINE st == [s \in Enrollees |-> IF s \in leavers THEN "graduated" ELSE db.standing[s]]
           en == [s \in Enrollees |-> IF s \in leavers THEN [db.enrolled[base][s] EXCEPT !.active = FALSE]
                                      ELSE db.enrolled[base][s]]
           g == [db EXCEPT !.enrolled[base] = en, !.standing = st]
<1>1. Graduate(db, base, leavers) = g
  BY DEF Graduate, Dbs
<1>2. /\ db.enrolled \in [SchoolYears -> [Enrollees -> EnrolmentRows]]
      /\ db.standing \in [Enrollees -> {"absent", "active", "graduated"}]
  BY DEF Dbs
<1>3. en \in [Enrollees -> EnrolmentRows]
  <2>1. \A r \in EnrolmentRows : [r EXCEPT !.active = FALSE] \in EnrolmentRows
    <3>1. \A R : \A r \in [no : R, active : BOOLEAN] : [r EXCEPT !.active = FALSE] \in [no : R, active : BOOLEAN]
      OBVIOUS
    <3> QED BY <3>1 DEF EnrolmentRows
  <2>2. \A s \in Enrollees : db.enrolled[base][s] \in EnrolmentRows
    BY <1>2
  <2> QED BY <2>1, <2>2
<1>4. st \in [Enrollees -> {"absent", "active", "graduated"}]
  BY <1>2
<1>5. /\ \A s \in Enrollees \ leavers : en[s] = db.enrolled[base][s]
      /\ \A s \in Enrollees : st[s] = IF s \in leavers THEN "graduated" ELSE db.standing[s]
  OBVIOUS
<1> HIDE DEF st, en
<1>6. /\ g \in Dbs /\ g.enrolled = [db.enrolled EXCEPT ![base] = en] /\ g.standing = st
      /\ g.ok = db.ok /\ g.number = db.number
  BY <1>3, <1>4 DEF Dbs
<1> HIDE DEF g
<1>7. \A s \in Enrollees \ leavers : \A z \in SchoolYears : g.enrolled[z][s] = db.enrolled[z][s]
  BY <1>2, <1>5, <1>6
<1> QED BY <1>1, <1>5, <1>6, <1>7

\* What the application of a roster leaves, of whom no write had overtaken.
LEMMA AppliedIs ==
    ASSUME RosterInv, NEW i \in Imports, import[i].stage = "planned", activeYear = import[i].plan.base,
           Applied(i).ok
    PROVE  /\ Applied(i) \in Dbs
           /\ \A s \in Enrollees : Applied(i).standing[s] = "absent" =>
                 standing[s] = "absent" /\ \A z \in SchoolYears : Applied(i).enrolled[z][s] = NotEnrolled
           /\ \A s \in Enrollees \ (crossed \cup Overtaken(i) \cup Overlooked(i) \cup Outlived(i)) :
                 Sits(Applied(i), IF FileOf[i].activates THEN FileOf[i].year ELSE activeYear, s)
<1> DEFINE N == Len(RowsOf(i))  D == Puts(i)[N]  g == Applied(i)  y == FileOf[i].year
           base == import[i].plan.base  leavers == import[i].plan.leavers
<1>1. /\ RosterTypeOK /\ CallsHold /\ PlanHolds(i) /\ N \in Nat /\ y \in SchoolYears
      /\ base \in SchoolYears /\ leavers \in SUBSET Enrollees /\ N \in 0 .. N
  <2>1. RosterTypeOK /\ CallsHold /\ PlanHolds(i)
    BY DEF RosterInv, CallsHold
  <2>2. import[i].plan \in Plans /\ N \in Nat
    BY <2>1, RowsAre
  <2>3. leavers \in SUBSET Enrollees
    BY <2>2 DEF Plans
  <2>4. base \in SchoolYears /\ y \in SchoolYears
    BY <2>1, FilesAre DEF PlanHolds
  <2> HIDE DEF N
  <2> QED BY <2>1, <2>2, <2>3, <2>4
<1>2. D.ok /\ g = Graduate(D, base, leavers)
  BY DEF Applied, RowsOf
<1>3. /\ Kept(i, N, D) /\ (Sync(i) => Renumbered(i, N, D)) /\ (~ Sync(i) => Prepared(i, D))
  BY <1>1, <1>2, LoopIs
<1>4. D \in Dbs
  BY <1>3 DEF Kept
<1> HIDE DEF D, g
<1>5. /\ g \in Dbs /\ g.number = D.number
      /\ \A s \in Enrollees : g.standing[s] = IF s \in leavers THEN "graduated" ELSE D.standing[s]
      /\ \A s \in Enrollees \ leavers : \A z \in SchoolYears : g.enrolled[z][s] = D.enrolled[z][s]
  BY <1>1, <1>2, <1>4, GraduateIs
<1>6. \A s \in Enrollees : g.standing[s] = "absent" =>
         standing[s] = "absent" /\ \A z \in SchoolYears : g.enrolled[z][s] = NotEnrolled
  BY <1>3, <1>5 DEF Kept
<1>7. \A s \in Enrollees \ crossed : Sits(Tables, activeYear, s)
  BY SitsIs DEF RosterInv
<1>8. ASSUME NEW s \in Enrollees \ (crossed \cup Overtaken(i) \cup Overlooked(i) \cup Outlived(i)),
             g.standing[s] = "active"
      PROVE  LET a == IF FileOf[i].activates THEN y ELSE activeYear IN
             /\ g.enrolled[a][s].active => g.number[s] = g.enrolled[a][s].no
             /\ \E z \in SchoolYears : z >= a /\ g.enrolled[z][s].active
  <2>0. s \notin leavers /\ D.standing[s] = "active" /\ s \in Enrollees
    BY <1>5, <1>8
  <2>1. /\ g.number[s] = D.number[s] /\ \A z \in SchoolYears : g.enrolled[z][s] = D.enrolled[z][s]
    BY <1>5, <2>0
  <2>2. y \in Nat /\ base \in Nat /\ activeYear = base
    BY <1>1, RosterAssumption
  <2> HIDE DEF y, base, leavers, N
  \* Who has his number of the year of the roster, when that is the active one from now on.
  <2>3. ASSUME Fine(D, y, s), Sync(i)
        PROVE  LET a == IF FileOf[i].activates THEN y ELSE activeYear IN
               /\ g.enrolled[a][s].active => g.number[s] = g.enrolled[a][s].no
               /\ \E z \in SchoolYears : z >= a /\ g.enrolled[z][s].active
    <3>1. (IF FileOf[i].activates THEN y ELSE activeYear) = y
      BY <2>2, <2>3 DEF Sync, y, base
    <3>2. g.enrolled[y][s] = Enrolment(g.number[s])
      BY <1>1, <2>1, <2>3 DEF Fine
    <3>3. g.enrolled[y][s].no = g.number[s] /\ g.enrolled[y][s].active
      BY <3>2 DEF Enrolment
    <3>4. y >= y
      BY <2>2
    <3> QED BY <1>1, <3>1, <3>3, <3>4
  \* Who is as before.
  <2>4. ASSUME Same(D, s), ~ FileOf[i].activates
        PROVE  LET a == IF FileOf[i].activates THEN y ELSE activeYear IN
               /\ g.enrolled[a][s].active => g.number[s] = g.enrolled[a][s].no
               /\ \E z \in SchoolYears : z >= a /\ g.enrolled[z][s].active
    <3>1. Sits(Tables, activeYear, s) /\ standing[s] = "active"
      BY <1>7, <1>8, <2>0, <2>4 DEF Same
    <3>2. /\ enrolled[activeYear][s].active => number[s] = enrolled[activeYear][s].no
          /\ \E z \in SchoolYears : z >= activeYear /\ enrolled[z][s].active
      BY <3>1 DEF Sits, Tables
    <3>3. /\ g.number[s] = number[s]
          /\ \A z \in SchoolYears : g.enrolled[z][s] = enrolled[z][s]
      BY <2>1, <2>4 DEF Same
    <3>4. activeYear \in SchoolYears
      BY <1>1 DEF RosterTypeOK
    <3> QED BY <2>4, <3>2, <3>3, <3>4
  <2>5. CASE Sync(i)
    <3>1. Same(D, s) \/ Fine(D, y, s)
      BY <1>3, <1>8, <2>5 DEF Renumbered, y
    <3>2. CASE Fine(D, y, s)
      BY <2>3, <2>5, <3>2
    <3>3. CASE ~ Fine(D, y, s) /\ FileOf[i].activates
      <4>1. standing[s] = "active"
        BY <2>0, <3>1, <3>3 DEF Same
      <4>2. PICK k \in DOMAIN RowsOf(i) : RowsOf(i)[k].who = s
        BY <1>8, <2>0, <3>3, <4>1 DEF Overlooked, RowsOf, leavers
      <4>3. k \in 1 .. N
        BY <1>1, RowsAre DEF N
      <4>4. Fine(D, y, s)
        BY <1>3, <1>8, <2>5, <4>2, <4>3 DEF Renumbered, y
      <4> QED BY <3>3, <4>4
    <3> QED BY <2>4, <3>1, <3>2, <3>3
  <2>6. CASE ~ Sync(i)
    <3>0. ~ FileOf[i].activates /\ y # base
      BY <2>6 DEF Sync, y, base
    <3>1. CASE y < base
      <4>1. Outlived(i) = Changed(g)
        BY <3>0, <3>1 DEF Outlived, y, base, g
      <4>2. s \notin Changed(g)
        BY <1>8, <4>1
      <4>3. /\ g.number[s] = number[s] /\ g.standing[s] = standing[s]
            /\ \A z \in SchoolYears : g.enrolled[z][s] = enrolled[z][s]
        BY <2>0, <4>2 DEF Changed
      <4>4. Same(D, s)
        BY <1>8, <2>0, <2>1, <4>3 DEF Same
      <4> QED BY <2>4, <3>0, <4>4
    <3>2. CASE base < y
      <4>0. activeYear \in SchoolYears /\ activeYear # y /\ y >= activeYear
        BY <1>1, <2>2, <3>0, <3>2 DEF RosterTypeOK
      <4>1. g.enrolled[activeYear][s] = enrolled[activeYear][s]
        BY <1>3, <2>1, <4>0 DEF Kept, y
      <4>2. CASE standing[s] = "absent" /\ D.enrolled[y][s].active
        <5>1. enrolled[activeYear][s] = NotEnrolled
          BY <4>0, <4>2 DEF RosterInv, AbsentAreNotEnrolled
        <5>2. ~ g.enrolled[activeYear][s].active /\ g.enrolled[y][s].active
          BY <1>1, <2>1, <4>1, <4>2, <5>1 DEF NotEnrolled
        <5> QED BY <1>1, <3>0, <4>0, <5>2
      <4>3. CASE /\ D.number[s] = number[s] /\ D.standing[s] = standing[s]
                 /\ enrolled[y][s].active => D.enrolled[y][s].active
        <5>1. Sits(Tables, activeYear, s) /\ standing[s] = "active"
          BY <1>7, <1>8, <2>0, <4>3
        <5>2. /\ enrolled[activeYear][s].active => number[s] = enrolled[activeYear][s].no
              /\ \E z \in SchoolYears : z >= activeYear /\ enrolled[z][s].active
          BY <5>1 DEF Sits, Tables
        <5>3. PICK z \in SchoolYears : z >= activeYear /\ enrolled[z][s].active
          BY <5>2
        <5>4. g.enrolled[z][s].active
          <6>1. CASE z = y
            BY <1>1, <2>1, <4>3, <5>3, <6>1
          <6>2. CASE z # y
            BY <1>3, <2>1, <5>3, <6>2 DEF Kept, y
          <6> QED BY <6>1, <6>2
        <5> QED BY <2>1, <3>0, <4>1, <4>3, <5>2, <5>3, <5>4
      <4> QED BY <1>3, <2>0, <2>6, <4>2, <4>3 DEF Prepared, y
    <3> QED BY <2>2, <3>0, <3>1, <3>2
  <2> QED BY <2>5, <2>6
<1> QED BY <1>5, <1>6, <1>8 DEF g, Sits, y

-----------------------------------------------------------------------------
\* Every step keeps the invariant.

Seated(s) ==
    standing[s] = "active" =>
        /\ enrolled[activeYear][s].active => number[s] = enrolled[activeYear][s].no
        /\ \E y \in SchoolYears : y >= activeYear /\ enrolled[y][s].active

LEMMA RosterInvIs ==
    RosterInv <=> /\ RosterTypeOK /\ CallsHold /\ AbsentAreNotEnrolled
                  /\ \A s \in Enrollees \ crossed : Seated(s)
BY DEF RosterInv, NumbersAgree, ActiveAreEnrolled, Seated

LEMMA PeopleStep ==
    ASSUME RosterInv, activeYear' \in SchoolYears,
           number' \in [Enrollees -> NumbersHeld],
           standing' \in [Enrollees -> {"absent", "active", "graduated"}],
           deactivated' \in [Enrollees -> BOOLEAN],
           enrolled' \in [SchoolYears -> [Enrollees -> EnrolmentRows]],
           code' \in [Nos -> [year : {0} \cup SchoolYears, used : {0} \cup Enrollees]],
           username' \in [Enrollees -> {0} \cup Nos],
           crossed' \subseteq Enrollees,
           \A s \in Enrollees : standing'[s] = "absent" =>
               standing[s] = "absent" /\ \A y \in SchoolYears : enrolled'[y][s] = NotEnrolled,
           \A s \in Enrollees \ crossed' : Seated(s)',
           Present \subseteq Present' => CallsHold'
    PROVE  RosterInv'
<1>1. RosterTypeOK'
  BY DEF RosterTypeOK, NumbersHeld
<1>2. AbsentAreNotEnrolled'
  BY DEF AbsentAreNotEnrolled
<1>3. CallsHold'
  BY DEF Present
<1>4. NumbersAgree' /\ ActiveAreEnrolled'
  BY DEF NumbersAgree, ActiveAreEnrolled, Seated
<1> QED BY <1>1, <1>2, <1>3, <1>4 DEF RosterInv

\* One upload moves on.
LEMMA ImportMoves ==
    ASSUME CallsHold, NEW i \in Imports, NEW stage, NEW plan \in Plans,
           stage \in {"barred", "new", "planned", "stale", "refused", "graduating", "applied"},
           import' = [import EXCEPT ![i] = [stage |-> stage, plan |-> plan]],
           stage = "planned" => PlanHolds(i)',
           Present \subseteq Present', correction' = correction, addition' = addition
    PROVE  CallsHold'
<1>1. import' \in [Imports -> [stage : {"barred", "new", "planned", "stale", "refused", "graduating", "applied"},
                               plan : Plans]]
  BY DEF CallsHold
<1>2. ASSUME NEW j \in Imports, import'[j].stage = "planned" PROVE PlanHolds(j)'
  <2>1. CASE j = i
    BY <1>2, <2>1 DEF CallsHold
  <2>2. CASE j # i
    <3>1. import'[j] = import[j] /\ PlanHolds(j)
      BY <1>2, <2>2 DEF CallsHold
    <3> QED BY <3>1 DEF PlanHolds, RowsOf
  <2> QED BY <2>1, <2>2
<1> QED BY <1>1, <1>2 DEF CallsHold

\* None of the calls that are checked again moves.
LEMMA CallsStay ==
    ASSUME CallsHold, Present \subseteq Present', import' = import, correction' = correction, addition' = addition
    PROVE  CallsHold'
BY DEF CallsHold, PlanHolds, RowsOf

\* A step that leaves the people and the active year alone.
LEMMA PeopleStay ==
    ASSUME RosterInv, UNCHANGED <<activeYear, people, crossed>>,
           code' \in [Nos -> [year : {0} \cup SchoolYears, used : {0} \cup Enrollees]],
           username' \in [Enrollees -> {0} \cup Nos],
           CallsHold'
    PROVE  RosterInv'
BY DEF RosterInv, people, RosterTypeOK, AbsentAreNotEnrolled, NumbersAgree, ActiveAreEnrolled

LEMMA NoPlanIsPlan == NoPlanYet \in Plans
<1> DEFINE R == [who : {0} \cup Enrollees, no : Nos, changes : BOOLEAN]
<1>1. <<>> \in Seq(R)
  OBVIOUS
<1> HIDE DEF R
<1>2. NoPlanYet \in [base : {0} \cup SchoolYears, rows : Seq(R), leavers : SUBSET Enrollees]
  BY <1>1 DEF NoPlanYet
<1> QED BY <1>2 DEF Plans, R

LEMMA PlanIs ==
    ASSUME RosterTypeOK, AbsentAreNotEnrolled, NEW i \in Imports
    PROVE  /\ PlanOf(i) \in Plans /\ PlanOf(i).base \in SchoolYears
           /\ Len(PlanOf(i).rows) = Len(FileOf[i].rows)
           /\ \A k \in 1 .. Len(PlanOf(i).rows) :
                 /\ PlanOf(i).rows[k].no = FileOf[i].rows[k].no
                 /\ PlanOf(i).rows[k].who \in {0} \cup Present
<1> DEFINE f == FileOf[i]
           R == [who : {0} \cup Enrollees, no : Nos, changes : BOOLEAN]
           rows == [k \in DOMAIN f.rows |-> CHOOSE p \in PlannedRows(f, f.rows[k]) : TRUE]
           N == Len(f.rows)
<1>0. /\ f.year \in SchoolYears /\ f.rows \in Seq(RosterRows) /\ N \in Nat /\ DOMAIN f.rows = 1 .. N
      /\ \A k \in 1 .. N : f.rows[k].no \in Nos /\ f.rows[k].prev \in {0} \cup Nos
      /\ \A k \in 1 .. N : f.rows[k] \in RosterRows
      /\ activeYear \in SchoolYears /\ Present \subseteq Enrollees
  BY FilesAre DEF RosterTypeOK, Present
<1>1. ASSUME NEW k \in 1 .. N
      PROVE  rows[k] \in R /\ rows[k].no = f.rows[k].no /\ rows[k].who \in {0} \cup Present
  <2> DEFINE r == f.rows[k]
  <2>1. Matches(f, r) \subseteq Present
    <3>1. Under(f.year, r.no) \subseteq Present /\ Studying(activeYear) \subseteq Present
      BY <1>0, EnrolledArePresent
    <3>2. Named(r) \subseteq Present /\ {s \in r.alike : standing[s] # "absent" /\ number[s] >= 0} \subseteq Present
      <4>1. r \in RosterRows
        BY <1>0
      <4> HIDE DEF f, r
      <4>2. r.alike \subseteq Enrollees
        BY <4>1 DEF RosterRows
      <4> QED BY <4>2 DEF Named, Present
    <3> HIDE DEF f, r
    <3> QED BY <3>1, <3>2 DEF Matches, Identified
  <2>2. rows[k] = CHOOSE p \in PlannedRows(f, r) : TRUE
    BY <1>0
  <2>3. PlannedRows(f, r) # {}
    BY DEF PlannedRows
  <2>4. rows[k] \in PlannedRows(f, r)
    <3> HIDE DEF rows, f, r
    <3> QED BY <2>2, <2>3
  <2>5. \A s : RowChanges(f, r, s) \in BOOLEAN
    BY DEF RowChanges
  <2>6. r.no \in Nos
    BY <1>0
  <2> HIDE DEF rows, f, r
  <2>7. CASE Matches(f, r) = {}
    <3>1. rows[k] = [who |-> 0, no |-> r.no, changes |-> TRUE]
      BY <2>4, <2>7 DEF PlannedRows
    <3> QED BY <3>1, <2>6 DEF r
  <2>8. CASE Matches(f, r) # {}
    <3>1. PICK s \in Matches(f, r) : rows[k] = [who |-> s, no |-> r.no, changes |-> RowChanges(f, r, s)]
      BY <2>4, <2>8 DEF PlannedRows
    <3>2. s \in Present /\ s \in Enrollees
      BY <1>0, <2>1
    <3> QED BY <3>1, <3>2, <2>5, <2>6 DEF r
  <2> QED BY <2>7, <2>8
<1>2. rows \in Seq(R) /\ Len(rows) = N
  <2>1. \A k \in 1 .. N : rows[k] \in R
    BY <1>1
  <2>2. rows = [k \in 1 .. N |-> rows[k]]
    BY <1>0
  <2> HIDE DEF rows, R, N
  <2> QED BY <1>0, <2>1, <2>2
<1>3. /\ PlanOf(i).rows = rows /\ PlanOf(i).base = activeYear
      /\ PlanOf(i) = [base |-> activeYear, rows |-> rows, leavers |-> PlanOf(i).leavers]
      /\ PlanOf(i).leavers \subseteq Enrollees
  BY DEF PlanOf, Studying
<1> HIDE DEF rows, N
<1>4. PlanOf(i) \in [base : {0} \cup SchoolYears, rows : Seq(R), leavers : SUBSET Enrollees]
  <2> HIDE DEF R
  <2> QED BY <1>0, <1>2, <1>3
<1> QED BY <1>0, <1>1, <1>2, <1>3, <1>4 DEF Plans, N

\* Imports, but for their application.
LEMMA ImportStep ==
    ASSUME RosterInv, NEW i \in Imports,
           \/ PlanImport(i) \/ StaleImport(i) \/ RefusedImport(i) \/ LeaveImport(i)
           \/ \E s \in Enrollees : GraduateOf(i, s)
    PROVE  RosterInv'
<1>0. RosterTypeOK /\ CallsHold /\ AbsentAreNotEnrolled
  BY DEF RosterInv
<1>1. UNCHANGED <<activeYear, people, code, username, correction, addition, crossed>>
  BY DEF PlanImport, StaleImport, RefusedImport, LeaveImport, EndImport, GraduateOf
<1>2. Present' = Present
  BY <1>1 DEF Present, people
<1>3. CASE PlanImport(i)
  <2>1. import' = [import EXCEPT ![i] = [stage |-> "planned", plan |-> PlanOf(i)]]
    BY <1>3 DEF PlanImport
  <2>2. import'[i].plan = PlanOf(i)
    BY <1>0, <2>1 DEF CallsHold
  <2>3. PlanHolds(i)'
    BY <1>0, <1>2, <2>2, PlanIs DEF PlanHolds, RowsOf
  <2>4. CallsHold'
    BY <1>0, <1>1, <1>2, <2>1, <2>3, PlanIs, ImportMoves
  <2> QED BY <1>0, <1>1, <2>4, PeopleStay DEF RosterTypeOK
<1>4. CASE StaleImport(i) \/ RefusedImport(i) \/ LeaveImport(i)
  <2>1. \E stage \in {"stale", "refused", "applied"} :
           import' = [import EXCEPT ![i] = [stage |-> stage, plan |-> NoPlanYet]]
    BY <1>4 DEF StaleImport, RefusedImport, LeaveImport, EndImport
  <2>2. CallsHold'
    BY <1>0, <1>1, <1>2, <2>1, NoPlanIsPlan, ImportMoves
  <2> QED BY <1>0, <1>1, <2>2, PeopleStay DEF RosterTypeOK
<1>5. CASE \E s \in Enrollees : GraduateOf(i, s)
  <2> PICK s \in Enrollees : GraduateOf(i, s)
    BY <1>5
  <2> DEFINE p == [import[i].plan EXCEPT !.leavers = @ \ {s}]
  <2>1. import' = [import EXCEPT ![i].plan.leavers = @ \ {s}] /\ import[i].stage = "graduating"
    BY DEF GraduateOf
  <2>2. p \in Plans
    <3> DEFINE R == [who : {0} \cup Enrollees, no : Nos, changes : BOOLEAN]
    <3>1. import[i].plan \in [base : {0} \cup SchoolYears, rows : Seq(R), leavers : SUBSET Enrollees]
      BY <1>0, RowsAre DEF Plans
    <3> HIDE DEF R
    <3>2. p \in [base : {0} \cup SchoolYears, rows : Seq(R), leavers : SUBSET Enrollees]
      BY <3>1
    <3> QED BY <3>2 DEF Plans, R
  <2>3. import' = [import EXCEPT ![i] = [stage |-> "graduating", plan |-> p]]
    <3>1. /\ import[i] \in [stage : {"barred", "new", "planned", "stale", "refused", "graduating", "applied"},
                            plan : Plans]
          /\ DOMAIN import = Imports
      BY <1>0 DEF CallsHold
    <3>2. import[i] = [stage |-> "graduating", plan |-> import[i].plan]
      BY <2>1, <3>1
    <3>3. [import[i] EXCEPT !.plan.leavers = @ \ {s}] = [stage |-> "graduating", plan |-> p]
      BY <3>2
    <3> HIDE DEF p
    <3>4. import' = [import EXCEPT ![i] = [import[i] EXCEPT !.plan.leavers = @ \ {s}]]
      BY <2>1, <3>1
    <3> QED BY <3>3, <3>4
  <2> HIDE DEF p
  <2>4. CallsHold'
    <3>1. Present \subseteq Present' /\ correction' = correction /\ addition' = addition
      BY <1>1, <1>2
    <3>2. \E stage \in {"graduating"} : import' = [import EXCEPT ![i] = [stage |-> stage, plan |-> p]]
      BY <2>3
    <3> QED BY <1>0, <2>2, <3>1, <3>2, ImportMoves
  <2> QED BY <1>0, <1>1, <2>4, PeopleStay DEF RosterTypeOK
<1> QED BY <1>3, <1>4, <1>5

LEMMA ApplyStep ==
    ASSUME RosterInv, NEW i \in Imports, ApplyImport(i)
    PROVE  RosterInv'
<1> DEFINE g == Applied(i)
<1>0. /\ RosterTypeOK /\ CallsHold /\ AbsentAreNotEnrolled
      /\ import[i].stage = "planned" /\ activeYear = import[i].plan.base /\ g.ok
      /\ number' = g.number /\ standing' = g.standing
      /\ deactivated' = g.deactivated /\ enrolled' = g.enrolled
      /\ activeYear' = IF FileOf[i].activates THEN FileOf[i].year ELSE activeYear
      /\ crossed' = crossed \cup Overtaken(i) \cup Overlooked(i) \cup Outlived(i)
      /\ UNCHANGED <<code, username, correction, addition>>
  BY DEF RosterInv, ApplyImport, YearHolds, Store
<1>1. import' = [import EXCEPT ![i].stage = "graduating"]
  BY DEF ApplyImport
<1>2. /\ g \in Dbs
      /\ \A s \in Enrollees : g.standing[s] = "absent" =>
            standing[s] = "absent" /\ \A z \in SchoolYears : g.enrolled[z][s] = NotEnrolled
      /\ \A s \in Enrollees \ crossed' : Sits(g, activeYear', s)
  BY <1>0, AppliedIs
<1> HIDE DEF g
<1>3. crossed' \subseteq Enrollees
  <2>1. Overtaken(i) \subseteq Enrollees
    BY DEF Overtaken, Under
  <2>2. Overlooked(i) \subseteq Enrollees /\ Outlived(i) \subseteq Enrollees
    BY DEF Overlooked, Outlived, Changed
  <2> QED BY <1>0, <2>1, <2>2 DEF RosterTypeOK
<1>4. activeYear' \in SchoolYears
  BY <1>0, FilesAre DEF RosterTypeOK
<1>5. \A s \in Enrollees \ crossed' : Seated(s)'
  BY <1>0, <1>2 DEF Sits, Seated
<1>6. ASSUME Present \subseteq Present' PROVE CallsHold'
  <2>1. import[i] \in [stage : {"barred", "new", "planned", "stale", "refused", "graduating", "applied"},
                       plan : Plans] /\ DOMAIN import = Imports
    BY <1>0 DEF CallsHold
  <2>2. [import[i] EXCEPT !.stage = "graduating"] = [stage |-> "graduating", plan |-> import[i].plan]
    BY <2>1
  <2>3. import' = [import EXCEPT ![i] = [stage |-> "graduating", plan |-> import[i].plan]]
    <3>1. import' = [import EXCEPT ![i] = [import[i] EXCEPT !.stage = "graduating"]]
      BY <1>1, Zenon
    <3> QED BY <2>2, <3>1
  <2>4. \E stage \in {"graduating"} : import' = [import EXCEPT ![i] = [stage |-> stage, plan |-> import[i].plan]]
    BY <2>3
  <2>5. import[i].plan \in Plans
    BY <2>1
  <2> QED BY <1>0, <1>6, <2>4, <2>5, ImportMoves
<1>7. /\ g.number \in [Enrollees -> NumbersHeld]
      /\ g.standing \in [Enrollees -> {"absent", "active", "graduated"}]
      /\ g.deactivated \in [Enrollees -> BOOLEAN]
      /\ g.enrolled \in [SchoolYears -> [Enrollees -> EnrolmentRows]]
  BY <1>2 DEF Dbs
<1>8. \A s \in Enrollees : standing'[s] = "absent" =>
         standing[s] = "absent" /\ \A z \in SchoolYears : enrolled'[z][s] = NotEnrolled
  BY <1>0, <1>2
<1> QED BY <1>0, <1>3, <1>4, <1>5, <1>6, <1>7, <1>8, PeopleStep DEF RosterTypeOK

\* Selections, codes and logins.
LEMMA QuietRosterStep ==
    ASSUME RosterInv,
           \/ \E s \in Enrollees : Retire(s) \/ SelectForErasure(s) \/ DeleteLogin(s)
           \/ IssueCodes \/ \E n \in Nos : IssueCode(n)
    PROVE  RosterInv'
<1>0. RosterTypeOK /\ CallsHold
  BY DEF RosterInv
<1>1. UNCHANGED <<activeYear, people, import, correction, addition, crossed>>
  BY DEF Retire, SelectForErasure, DeleteLogin, IssueCodes, IssueCode, errands
<1>2. CallsHold'
  BY <1>0, <1>1, CallsStay DEF Present, people
<1>3. code' \in [Nos -> [year : {0} \cup SchoolYears, used : {0} \cup Enrollees]]
  <2>1. CASE UNCHANGED code
    BY <1>0, <2>1 DEF RosterTypeOK
  <2>2. CASE IssueCodes
    BY <1>0, <2>2 DEF IssueCodes, RosterTypeOK
  <2>3. CASE \E n \in Nos : IssueCode(n)
    BY <1>0, <2>3 DEF IssueCode, RosterTypeOK
  <2> QED BY <2>1, <2>2, <2>3 DEF Retire, SelectForErasure, DeleteLogin
<1>4. username' \in [Enrollees -> {0} \cup Nos]
  <2>1. CASE \E s \in Enrollees : DeleteLogin(s)
    BY <1>0, <2>1 DEF DeleteLogin, RosterTypeOK
  <2>2. CASE UNCHANGED username
    BY <1>0, <2>2 DEF RosterTypeOK
  <2> QED BY <2>1, <2>2 DEF Retire, SelectForErasure, IssueCodes, IssueCode
<1> QED BY <1>1, <1>2, <1>3, <1>4, PeopleStay

LEMMA DeactivateStep ==
    ASSUME RosterInv, NEW s \in Enrollees, Deactivate(s)
    PROVE  RosterInv'
<1>0. RosterTypeOK /\ CallsHold /\ AbsentAreNotEnrolled /\ \A t \in Enrollees \ crossed : Seated(t)
  BY RosterInvIs
<1>1. /\ standing' = [standing EXCEPT ![s] = "graduated"]
      /\ deactivated' = [deactivated EXCEPT ![s] = TRUE]
      /\ enrolled' = [y \in SchoolYears |-> [enrolled[y] EXCEPT ![s].active = FALSE]]
      /\ code' = [n \in Nos |-> IF n = leaving[s] THEN NoCodeYet ELSE code[n]]
      /\ UNCHANGED <<activeYear, number, username, import, correction, addition, crossed>>
  BY DEF Deactivate
<1>2. enrolled' \in [SchoolYears -> [Enrollees -> EnrolmentRows]]
  <2>1. \A e \in [Enrollees -> EnrolmentRows] : [e EXCEPT ![s].active = FALSE] \in [Enrollees -> EnrolmentRows]
    <3>1. \A R : \A r \in [no : R, active : BOOLEAN] : [r EXCEPT !.active = FALSE] \in [no : R, active : BOOLEAN]
      OBVIOUS
    <3>2. \A r \in EnrolmentRows : [r EXCEPT !.active = FALSE] \in EnrolmentRows
      BY <3>1 DEF EnrolmentRows
    <3> QED BY <3>2
  <2> QED BY <1>0, <1>1, <2>1 DEF RosterTypeOK
<1>3. \A t \in Enrollees \ {s} : standing'[t] = standing[t] /\ \A y \in SchoolYears : enrolled'[y][t] = enrolled[y][t]
  BY <1>0, <1>1 DEF RosterTypeOK
<1>4. standing'[s] = "graduated"
  BY <1>0, <1>1 DEF RosterTypeOK
<1>5. \A t \in Enrollees : standing'[t] = "absent" =>
         standing[t] = "absent" /\ \A y \in SchoolYears : enrolled'[y][t] = NotEnrolled
  BY <1>0, <1>3, <1>4 DEF AbsentAreNotEnrolled
<1>6. \A t \in Enrollees \ crossed' : Seated(t)'
  <2>1. activeYear \in SchoolYears /\ activeYear' = activeYear /\ crossed' = crossed /\ number' = number
    BY <1>0, <1>1 DEF RosterTypeOK
  <2> QED BY <1>0, <1>3, <1>4, <2>1 DEF Seated
<1>7. code' \in [Nos -> [year : {0} \cup SchoolYears, used : {0} \cup Enrollees]]
  BY <1>0, <1>1 DEF RosterTypeOK, NoCodeYet
<1>8. /\ standing' \in [Enrollees -> {"absent", "active", "graduated"}]
      /\ deactivated' \in [Enrollees -> BOOLEAN]
      /\ number' \in [Enrollees -> NumbersHeld] /\ username' \in [Enrollees -> {0} \cup Nos]
      /\ crossed' \subseteq Enrollees /\ activeYear' \in SchoolYears
  BY <1>0, <1>1 DEF RosterTypeOK, NumbersHeld
<1>9. Present \subseteq Present' => CallsHold'
  BY <1>0, <1>1, CallsStay
<1> QED BY <1>2, <1>5, <1>6, <1>7, <1>8, <1>9, PeopleStep

LEMMA EraseStep ==
    ASSUME RosterInv, NEW s \in Enrollees, EraseRecord(s)
    PROVE  RosterInv'
<1>0. RosterTypeOK /\ CallsHold /\ AbsentAreNotEnrolled /\ \A t \in Enrollees \ crossed : Seated(t)
  BY RosterInvIs
<1>1. /\ number' = [number EXCEPT ![s] = - s]
      /\ enrolled' = [y \in SchoolYears |-> [enrolled[y] EXCEPT ![s].no = IF @ = 0 THEN 0 ELSE - s]]
      /\ crossed' = IF standing[s] = "active" THEN crossed \cup {s} ELSE crossed
      /\ standing' = standing /\ activeYear' = activeYear /\ deactivated' = deactivated
      /\ code' = code /\ username' = username
      /\ import' = import /\ correction' = correction /\ addition' = addition
  BY DEF EraseRecord
<1>2. - s \in NumbersHeld /\ 0 \in NumbersHeld
  BY NosAreNumbers
<1>3. enrolled' \in [SchoolYears -> [Enrollees -> EnrolmentRows]]
  <2>1. \A e \in [Enrollees -> EnrolmentRows] :
           [e EXCEPT ![s].no = IF @ = 0 THEN 0 ELSE - s] \in [Enrollees -> EnrolmentRows]
    <3>1. \A R, m : \A r \in [no : R, active : BOOLEAN] : m \in R => [r EXCEPT !.no = m] \in [no : R, active : BOOLEAN]
      OBVIOUS
    <3>2. \A r \in EnrolmentRows : [r EXCEPT !.no = IF @ = 0 THEN 0 ELSE - s] \in EnrolmentRows
      <4> SUFFICES ASSUME NEW r \in EnrolmentRows
                   PROVE [r EXCEPT !.no = IF r.no = 0 THEN 0 ELSE - s] \in EnrolmentRows
        OBVIOUS
      <4>1. (IF r.no = 0 THEN 0 ELSE - s) \in NumbersHeld
        BY <1>2
      <4> QED BY <3>1, <4>1, NosAreNumbers
    <3> QED BY <3>2
  <2> QED BY <1>0, <1>1, <2>1 DEF RosterTypeOK
<1>4. \A t \in Enrollees \ {s} : number'[t] = number[t] /\ \A y \in SchoolYears : enrolled'[y][t] = enrolled[y][t]
  BY <1>0, <1>1 DEF RosterTypeOK
<1>5. \A y \in SchoolYears : enrolled[y][s] = NotEnrolled => enrolled'[y][s] = NotEnrolled
  <2> SUFFICES ASSUME NEW y \in SchoolYears, enrolled[y][s] = NotEnrolled PROVE enrolled'[y][s] = NotEnrolled
    OBVIOUS
  <2>1. enrolled'[y][s] = [enrolled[y][s] EXCEPT !.no = IF enrolled[y][s].no = 0 THEN 0 ELSE - s]
    BY <1>0, <1>1 DEF RosterTypeOK
  <2> QED BY <2>1 DEF NotEnrolled
<1>6. \A t \in Enrollees : standing'[t] = "absent" =>
         standing[t] = "absent" /\ \A y \in SchoolYears : enrolled'[y][t] = NotEnrolled
  BY <1>0, <1>1, <1>4, <1>5 DEF AbsentAreNotEnrolled
<1>7. \A t \in Enrollees \ crossed' : Seated(t)'
  <2>1. activeYear \in SchoolYears
    BY <1>0 DEF RosterTypeOK
  <2>2. ASSUME NEW t \in Enrollees \ crossed', standing[t] = "active"
        PROVE  t # s /\ t \notin crossed
    BY <1>1, <2>2
  <2> QED BY <1>0, <1>1, <1>4, <2>1, <2>2 DEF Seated
<1>8. number' \in [Enrollees -> NumbersHeld]
  BY <1>0, <1>1, <1>2 DEF RosterTypeOK, NumbersHeld
<1>9. Present \subseteq Present' => CallsHold'
  BY <1>0, <1>1, CallsStay
<1>10. crossed' \subseteq Enrollees
  BY <1>0, <1>1 DEF RosterTypeOK
<1> QED BY <1>0, <1>1, <1>3, <1>6, <1>7, <1>8, <1>9, <1>10, PeopleStep DEF RosterTypeOK

\* The number of the enrolment that holds the code becomes the student's.
LEMMA RegisterStep ==
    ASSUME RosterInv, NEW n \in Nos, NEW s \in Enrollees, Register(n, s)
    PROVE  RosterInv'
<1>0. RosterTypeOK /\ CallsHold /\ AbsentAreNotEnrolled /\ \A t \in Enrollees \ crossed : Seated(t)
  BY RosterInvIs
<1>1. /\ enrolled[activeYear][s].no = n /\ enrolled[activeYear][s].active
      /\ number' = [number EXCEPT ![s] = n]
      /\ standing' = [standing EXCEPT ![s] = "active"]
      /\ username' = [username EXCEPT ![s] = n]
      /\ code' = [code EXCEPT ![n].used = s]
      /\ enrolled' = enrolled /\ activeYear' = activeYear /\ deactivated' = deactivated /\ crossed' = crossed
      /\ import' = import /\ correction' = correction /\ addition' = addition
  BY DEF Register, Holders, Under, Studying, errands
<1>2. n \in NumbersHeld /\ activeYear \in SchoolYears /\ activeYear \in Nat
  BY <1>0, NosAreNumbers, RosterAssumption DEF RosterTypeOK
<1>3. \A t \in Enrollees \ {s} : number'[t] = number[t] /\ standing'[t] = standing[t]
  BY <1>0, <1>1 DEF RosterTypeOK
<1>4. number'[s] = n /\ standing'[s] = "active"
  BY <1>0, <1>1 DEF RosterTypeOK
<1>5. \A t \in Enrollees : standing'[t] = "absent" =>
         standing[t] = "absent" /\ \A y \in SchoolYears : enrolled'[y][t] = NotEnrolled
  BY <1>0, <1>1, <1>3, <1>4 DEF AbsentAreNotEnrolled
<1>6. \A t \in Enrollees \ crossed' : Seated(t)'
  <2>1. Seated(s)'
    <3>1. activeYear >= activeYear
      BY <1>2
    <3> QED BY <1>1, <1>2, <1>4, <3>1 DEF Seated
  <2> QED BY <1>0, <1>1, <1>2, <1>3, <2>1 DEF Seated
<1>7. /\ number' \in [Enrollees -> NumbersHeld]
      /\ standing' \in [Enrollees -> {"absent", "active", "graduated"}]
      /\ username' \in [Enrollees -> {0} \cup Nos]
      /\ code' \in [Nos -> [year : {0} \cup SchoolYears, used : {0} \cup Enrollees]]
  BY <1>0, <1>1, <1>2 DEF RosterTypeOK, NumbersHeld
<1>8. Present \subseteq Present' => CallsHold'
  BY <1>0, <1>1, CallsStay
<1> QED BY <1>0, <1>1, <1>5, <1>6, <1>7, <1>8, PeopleStep DEF RosterTypeOK

LEMMA ReadsStep ==
    ASSUME RosterInv,
           \/ \E c \in Corrections : ReadForCorrection(c)
           \/ \E a \in Additions : ReadForAddition(a)
    PROVE  RosterInv'
<1>0. RosterTypeOK /\ CallsHold
  BY DEF RosterInv
<1>1. CASE \E c \in Corrections : ReadForCorrection(c)
  <2> PICK c \in Corrections : ReadForCorrection(c)
    BY <1>1
  <2>1. UNCHANGED <<activeYear, people, crossed, code, username>> /\ import' = import /\ addition' = addition
    BY DEF ReadForCorrection
  <2>2. PICK n \in Nos : correction' = [correction EXCEPT ![c] = [stage |-> "read", year |-> activeYear, no |-> n]]
    BY DEF ReadForCorrection
  <2>3. standing[CorrectTo[c].who] # "absent" /\ CorrectTo[c].who \in Enrollees /\ activeYear \in SchoolYears
    BY <1>0, RosterAssumption DEF ReadForCorrection, RosterTypeOK
  <2>4. Present' = Present /\ CorrectTo[c].who \in Present
    BY <2>1, <2>3 DEF Present, people
  <2>5. CallsHold'
    <3>1. correction' \in [Corrections -> [stage : {"barred", "new", "read", "written", "refused"},
                                           year : {0} \cup SchoolYears, no : {0} \cup Nos]]
      BY <1>0, <2>2, <2>3 DEF CallsHold
    <3>2. \A d \in Corrections : correction'[d].stage = "read" =>
            correction'[d].year \in SchoolYears /\ correction'[d].no \in Nos /\ CorrectTo[d].who \in Present'
      BY <1>0, <2>2, <2>3, <2>4 DEF CallsHold
    <3>3. \A i \in Imports : import'[i].stage = "planned" => PlanHolds(i)'
      BY <1>0, <2>1, <2>4 DEF CallsHold, PlanHolds, RowsOf
    <3> QED BY <1>0, <2>1, <3>1, <3>2, <3>3 DEF CallsHold
  <2> QED BY <1>0, <2>1, <2>5, PeopleStay DEF RosterTypeOK
<1>2. CASE \E a \in Additions : ReadForAddition(a)
  <2> PICK a \in Additions : ReadForAddition(a)
    BY <1>2
  <2>1. UNCHANGED <<activeYear, people, crossed, code, username>> /\ import' = import /\ correction' = correction
    BY DEF ReadForAddition
  <2>2. addition' = [addition EXCEPT ![a] = [stage |-> "read", year |-> activeYear]]
    BY DEF ReadForAddition
  <2>3. activeYear \in SchoolYears
    BY <1>0 DEF RosterTypeOK
  <2>4. Present' = Present
    BY <2>1 DEF Present, people
  <2>5. CallsHold'
    <3>1. addition' \in [Additions -> [stage : {"barred", "new", "read", "written", "refused"},
                                       year : {0} \cup SchoolYears]]
      BY <1>0, <2>2, <2>3 DEF CallsHold
    <3>2. \A d \in Additions : addition'[d].stage = "read" => addition'[d].year \in SchoolYears
      BY <1>0, <2>2, <2>3 DEF CallsHold
    <3>3. \A i \in Imports : import'[i].stage = "planned" => PlanHolds(i)'
      BY <1>0, <2>1, <2>4 DEF CallsHold, PlanHolds, RowsOf
    <3> QED BY <1>0, <2>1, <2>4, <3>1, <3>2, <3>3 DEF CallsHold
  <2> QED BY <1>0, <2>1, <2>5, PeopleStay DEF RosterTypeOK
<1> QED BY <1>1, <1>2

\* A single write of tables d, with s enrolled under n in year y, to tables e: whom it
\* changes is crossed, or y is the active year, the number is s's alone, and s has it.
LEMMA EnrolStep ==
    ASSUME RosterInv, NEW e \in Dbs, NEW y \in SchoolYears, NEW s \in Enrollees, NEW n \in Nos,
           EnrolledUnder(Tables, e, y, s, n), e.number[s] = n,
           e.standing[s] # "absent",
           \A t \in Enrollees \ {s} : e.number[t] = number[t] /\ e.standing[t] = standing[t],
           crossed' \subseteq Enrollees, crossed \subseteq crossed',
           y # activeYear \/ Under(y, n) \ {s} # {} => {s} \cup Changed(e) \subseteq crossed'
    PROVE  /\ \A t \in Enrollees : e.standing[t] = "absent" =>
                 standing[t] = "absent" /\ \A z \in SchoolYears : e.enrolled[z][t] = NotEnrolled
           /\ \A t \in Enrollees \ crossed' : Sits(e, activeYear, t)
<1>0. RosterTypeOK /\ AbsentAreNotEnrolled /\ \A t \in Enrollees \ crossed : Seated(t)
  BY RosterInvIs
<1>1. /\ activeYear \in SchoolYears /\ activeYear \in Nat /\ NotEnrolled.no = 0 /\ n # 0
      /\ Enrolment(n).no = n /\ Enrolment(n).active = TRUE
  BY <1>0, NosAreNumbers, RosterAssumption DEF RosterTypeOK, NotEnrolled, Enrolment
<1>2. Numbered(Tables, y, s, n) = Under(y, n) \ {s}
  BY DEF Numbered, Under, Tables
<1>3. Tables.enrolled = enrolled
  BY DEF Tables
<1>4. ASSUME NEW t \in Enrollees, e.standing[t] = "absent"
      PROVE  standing[t] = "absent" /\ \A z \in SchoolYears : e.enrolled[z][t] = NotEnrolled
  <2>1. t # s /\ standing[t] = "absent"
    BY <1>4
  <2>2. \A z \in SchoolYears : enrolled[z][t] = NotEnrolled
    BY <1>0, <2>1 DEF AbsentAreNotEnrolled
  <2>3. t \notin Under(y, n)
    BY <1>1, <2>2 DEF Under
  <2>4. \A z \in SchoolYears : e.enrolled[z][t] = enrolled[z][t]
    BY <1>2, <1>3, <2>1, <2>3 DEF EnrolledUnder
  <2> QED BY <2>1, <2>2, <2>4
<1>5. ASSUME NEW t \in Enrollees \ crossed' PROVE Sits(e, activeYear, t)
  <2>1. CASE y # activeYear \/ Under(y, n) \ {s} # {}
    <3>1. t # s /\ t \notin Changed(e) /\ Seated(t)
      BY <1>0, <1>5, <2>1
    <3>2. /\ e.number[t] = number[t] /\ e.standing[t] = standing[t]
          /\ \A z \in SchoolYears : e.enrolled[z][t] = enrolled[z][t]
      BY <3>1 DEF Changed
    <3> QED BY <1>1, <3>1, <3>2 DEF Sits, Seated
  <2>2. CASE y = activeYear /\ Under(y, n) \ {s} = {}
    <3>1. /\ e.enrolled[y][s] = Enrolment(n)
          /\ \A u \in Enrollees \ {s} : \A z \in SchoolYears : e.enrolled[z][u] = enrolled[z][u]
      BY <1>2, <1>3, <2>2 DEF EnrolledUnder
    <3>2. CASE t = s
      <4>1. activeYear >= activeYear
        BY <1>1
      <4>2. e.enrolled[activeYear][s] = Enrolment(n)
        BY <2>2, <3>1
      <4>3. e.enrolled[activeYear][s].active /\ e.enrolled[activeYear][s].no = n
        BY <1>1, <4>2
      <4> QED BY <1>1, <3>2, <4>1, <4>3 DEF Sits
    <3>3. CASE t # s
      <4>1. /\ e.number[t] = number[t] /\ e.standing[t] = standing[t] /\ Seated(t)
            /\ \A z \in SchoolYears : e.enrolled[z][t] = enrolled[z][t]
        BY <1>0, <1>5, <3>1, <3>3
      <4> QED BY <1>1, <4>1 DEF Sits, Seated
    <3> QED BY <3>2, <3>3
  <2> QED BY <2>1, <2>2
<1> QED BY <1>4, <1>5

\* The tables stay, a call ends.
LEMMA NothingWritten ==
    ASSUME RosterInv, Store(Tables), activeYear' = activeYear, code' = code, username' = username,
           crossed \subseteq crossed', crossed' \subseteq Enrollees,
           Present \subseteq Present' => CallsHold'
    PROVE  RosterInv'
<1>0. RosterTypeOK /\ CallsHold /\ AbsentAreNotEnrolled /\ \A t \in Enrollees \ crossed : Seated(t)
  BY RosterInvIs
<1>1. number' = number /\ standing' = standing /\ deactivated' = deactivated /\ enrolled' = enrolled
  BY DEF Store, Tables
<1>2. \A t \in Enrollees \ crossed' : Seated(t)'
  BY <1>0, <1>1 DEF Seated
<1>3. RosterTypeOK'
  BY <1>0, <1>1 DEF RosterTypeOK
<1>4. AbsentAreNotEnrolled'
  BY <1>0, <1>1 DEF AbsentAreNotEnrolled
<1>5. Present' = Present
  BY <1>1 DEF Present
<1>6. NumbersAgree' /\ ActiveAreEnrolled'
  BY <1>2 DEF NumbersAgree, ActiveAreEnrolled, Seated
<1> QED BY <1>3, <1>4, <1>5, <1>6 DEF RosterInv

\* The tables become those of a single write.
LEMMA OneWritten ==
    ASSUME RosterInv, NEW e \in Dbs, Store(e), activeYear' = activeYear, code' = code, username' = username,
           crossed' \subseteq Enrollees,
           \A t \in Enrollees : e.standing[t] = "absent" =>
               standing[t] = "absent" /\ \A z \in SchoolYears : e.enrolled[z][t] = NotEnrolled,
           \A t \in Enrollees \ crossed' : Sits(e, activeYear, t),
           Present \subseteq Present' => CallsHold'
    PROVE  RosterInv'
<1>1. number' = e.number /\ standing' = e.standing /\ deactivated' = e.deactivated /\ enrolled' = e.enrolled
  BY DEF Store
<1>2. /\ number' \in [Enrollees -> NumbersHeld]
      /\ standing' \in [Enrollees -> {"absent", "active", "graduated"}]
      /\ deactivated' \in [Enrollees -> BOOLEAN]
      /\ enrolled' \in [SchoolYears -> [Enrollees -> EnrolmentRows]]
  BY <1>1 DEF Dbs
<1>3. \A t \in Enrollees \ crossed' : Seated(t)'
  BY <1>1 DEF Sits, Seated
<1>4. \A t \in Enrollees : standing'[t] = "absent" =>
         standing[t] = "absent" /\ \A z \in SchoolYears : enrolled'[z][t] = NotEnrolled
  BY <1>1
<1>5. RosterTypeOK
  BY DEF RosterInv
<1> QED BY <1>2, <1>3, <1>4, <1>5, PeopleStep DEF RosterTypeOK

LEMMA CorrectionStep ==
    ASSUME RosterInv, NEW c \in Corrections, WriteCorrection(c)
    PROVE  RosterInv'
<1> DEFINE s == CorrectTo[c].who  n == correction[c].no  y == correction[c].year
           d == [Tables EXCEPT !.number[s] = n]
           e == Enrol(d, y, s, n)
           free == Free(Tables, n, s)
           db == IF free THEN e ELSE Refuse(Tables)
<1>0. /\ RosterTypeOK /\ CallsHold /\ AbsentAreNotEnrolled
      /\ s \in Present /\ s \in Enrollees /\ n \in Nos /\ y \in SchoolYears
      /\ correction[c].stage = "read"
  BY DEF RosterInv, CallsHold, WriteCorrection, Present
<1>1. /\ correction' = [correction EXCEPT ![c].stage = IF db.ok THEN "written" ELSE "refused"]
      /\ Store(IF db.ok THEN db ELSE Tables)
      /\ crossed' = IF y # activeYear \/ Under(y, n) \ {s} # {}
                    THEN crossed \cup {s} \cup Changed(db) ELSE crossed
      /\ activeYear' = activeYear /\ code' = code /\ username' = username
      /\ import' = import /\ addition' = addition
  BY DEF WriteCorrection
<1>2. ASSUME Present \subseteq Present' PROVE CallsHold'
  <2>1. correction' \in [Corrections -> [stage : {"barred", "new", "read", "written", "refused"},
                                         year : {0} \cup SchoolYears, no : {0} \cup Nos]]
    <3> HIDE DEF db
    <3> QED BY <1>0, <1>1 DEF CallsHold
  <2>2. \A b \in Corrections : correction'[b].stage = "read" => correction[b] = correction'[b]
    <3> HIDE DEF db
    <3> QED BY <1>0, <1>1 DEF CallsHold
  <2>3. \A i \in Imports : import'[i].stage = "planned" => PlanHolds(i)'
    BY <1>0, <1>1, <1>2 DEF CallsHold, PlanHolds, RowsOf
  <2>4. \A b \in Corrections : correction'[b].stage = "read" =>
            correction'[b].year \in SchoolYears /\ correction'[b].no \in Nos /\ CorrectTo[b].who \in Present'
    BY <1>0, <1>2, <2>2 DEF CallsHold
  <2> HIDE DEF db, e, d, n, y, s, free
  <2> QED BY <1>0, <1>1, <2>1, <2>3, <2>4 DEF CallsHold
<1>3. crossed' \subseteq Enrollees /\ crossed \subseteq crossed'
  <2>1. Changed(db) \subseteq Enrollees /\ crossed \subseteq Enrollees
    BY <1>0 DEF Changed, RosterTypeOK
  <2> HIDE DEF db, n, y, s
  <2> QED BY <1>0, <1>1, <2>1
<1>4. CASE ~ db.ok
  <2> HIDE DEF db
  <2> QED BY <1>1, <1>2, <1>3, <1>4, NothingWritten
<1>5. CASE db.ok
  <2>1. Tables \in Dbs /\ Refuse(Tables).ok = FALSE
    BY <1>0, TablesAreDb DEF Refuse, Dbs
  <2>2. db = e /\ e.ok
    BY <1>5, <2>1
  <2>3. n \in NumbersHeld
    BY <1>0, NosAreNumbers
  <2>4. d \in Dbs
    BY <2>1, <2>3 DEF Dbs
  <2>5. d.number = [number EXCEPT ![s] = n] /\ d.standing = standing /\ d.enrolled = enrolled
    BY DEF Tables
  <2> HIDE DEF d
  <2>6. e \in Dbs /\ e.number = d.number /\ e.standing = d.standing /\ EnrolledUnder(d, e, y, s, n)
    BY <1>0, <2>2, <2>4, EnrolIs
  <2> HIDE DEF e, db
  <2>7. EnrolledUnder(Tables, e, y, s, n)
    BY <2>5, <2>6 DEF EnrolledUnder, Numbered, Tables
  <2>8. /\ e.number[s] = n /\ e.standing[s] # "absent"
        /\ \A t \in Enrollees \ {s} : e.number[t] = number[t] /\ e.standing[t] = standing[t]
    BY <1>0, <2>5, <2>6 DEF RosterTypeOK, Present
  <2>9. y # activeYear \/ Under(y, n) \ {s} # {} => {s} \cup Changed(e) \subseteq crossed'
    BY <1>1, <2>2
  <2>10. Store(e)
    BY <1>1, <1>5, <2>2
  <2> HIDE DEF n, y, s, free
  <2>11. /\ \A t \in Enrollees : e.standing[t] = "absent" =>
                 standing[t] = "absent" /\ \A z \in SchoolYears : e.enrolled[z][t] = NotEnrolled
         /\ \A t \in Enrollees \ crossed' : Sits(e, activeYear, t)
    BY <1>0, <1>3, <2>6, <2>7, <2>8, <2>9, EnrolStep
  <2> QED BY <1>1, <1>2, <1>3, <2>6, <2>10, <2>11, OneWritten
<1> QED BY <1>4, <1>5

LEMMA AdditionStep ==
    ASSUME RosterInv, NEW a \in Additions, WriteAddition(a)
    PROVE  RosterInv'
<1> DEFINE s == NextId(Tables)  n == AddNo[a]  y == addition[a].year
           d == [Tables EXCEPT !.number[s] = n, !.standing[s] = "active"]
           e == Enrol(d, y, s, n)
           free == Free(Tables, n, s)
           db == IF free THEN e ELSE Refuse(Tables)
<1>0. /\ RosterTypeOK /\ CallsHold /\ AbsentAreNotEnrolled
      /\ n \in Nos /\ y \in SchoolYears /\ addition[a].stage = "read"
      /\ s \in Enrollees /\ standing[s] = "absent"
  <2>1. s \in Enrollees /\ Tables.standing[s] = "absent"
    BY NextIdIn DEF WriteAddition
  <2> QED BY <2>1, RosterAssumption DEF RosterInv, CallsHold, WriteAddition, Tables
<1>1. /\ addition' = [addition EXCEPT ![a].stage = IF db.ok THEN "written" ELSE "refused"]
      /\ Store(IF db.ok THEN db ELSE Tables)
      /\ crossed' = IF db.ok /\ (y # activeYear \/ Under(y, n) # {})
                    THEN crossed \cup Changed(db) ELSE crossed
      /\ activeYear' = activeYear /\ code' = code /\ username' = username
      /\ import' = import /\ correction' = correction
  BY DEF WriteAddition
<1>2. ASSUME Present \subseteq Present' PROVE CallsHold'
  <2>1. addition' \in [Additions -> [stage : {"barred", "new", "read", "written", "refused"},
                                     year : {0} \cup SchoolYears]]
    <3> HIDE DEF db
    <3> QED BY <1>0, <1>1 DEF CallsHold
  <2>2. \A b \in Additions : addition'[b].stage = "read" => addition[b] = addition'[b]
    <3> HIDE DEF db
    <3> QED BY <1>0, <1>1 DEF CallsHold
  <2>3. \A i \in Imports : import'[i].stage = "planned" => PlanHolds(i)'
    BY <1>0, <1>1, <1>2 DEF CallsHold, PlanHolds, RowsOf
  <2>4. \A b \in Corrections : correction'[b].stage = "read" =>
            correction'[b].year \in SchoolYears /\ correction'[b].no \in Nos /\ CorrectTo[b].who \in Present'
    BY <1>0, <1>1, <1>2 DEF CallsHold
  <2>5. \A b \in Additions : addition'[b].stage = "read" => addition'[b].year \in SchoolYears
    BY <1>0, <2>2 DEF CallsHold
  <2> HIDE DEF db, e, d, n, y, s, free
  <2> QED BY <1>0, <1>1, <2>1, <2>3, <2>4, <2>5 DEF CallsHold
<1>3. crossed' \subseteq Enrollees /\ crossed \subseteq crossed'
  <2>1. Changed(db) \subseteq Enrollees /\ crossed \subseteq Enrollees
    BY <1>0 DEF Changed, RosterTypeOK
  <2> HIDE DEF db, n, y, s
  <2> QED BY <1>0, <1>1, <2>1
<1>4. CASE ~ db.ok
  <2> HIDE DEF db
  <2> QED BY <1>1, <1>2, <1>3, <1>4, NothingWritten
<1>5. CASE db.ok
  <2>1. Tables \in Dbs /\ Refuse(Tables).ok = FALSE
    BY <1>0, TablesAreDb DEF Refuse, Dbs
  <2>2. db = e /\ e.ok
    BY <1>5, <2>1
  <2>3. n \in NumbersHeld
    BY <1>0, NosAreNumbers
  <2> HIDE DEF s
  <2>4. d \in Dbs
    BY <2>1, <2>3 DEF Dbs
  <2>5. d.number = [number EXCEPT ![s] = n] /\ d.standing = [standing EXCEPT ![s] = "active"] /\ d.enrolled = enrolled
    BY DEF Tables
  <2> HIDE DEF d
  <2>6. e \in Dbs /\ e.number = d.number /\ e.standing = d.standing /\ EnrolledUnder(d, e, y, s, n)
    BY <1>0, <2>2, <2>4, EnrolIs
  <2> HIDE DEF e, db
  <2>7. EnrolledUnder(Tables, e, y, s, n)
    BY <2>5, <2>6 DEF EnrolledUnder, Numbered, Tables
  <2>8. /\ e.number[s] = n /\ e.standing[s] = "active"
        /\ \A t \in Enrollees \ {s} : e.number[t] = number[t] /\ e.standing[t] = standing[t]
    BY <1>0, <2>5, <2>6 DEF RosterTypeOK
  <2>9. y # activeYear \/ Under(y, n) \ {s} # {} => {s} \cup Changed(e) \subseteq crossed'
    <3>1. s \in Changed(e)
      BY <1>0, <2>8 DEF Changed
    <3> HIDE DEF n, y
    <3> QED BY <1>1, <1>5, <2>2, <3>1
  <2>10. Store(e)
    BY <1>1, <1>5, <2>2
  <2> HIDE DEF n, y, free
  <2>11. /\ \A t \in Enrollees : e.standing[t] = "absent" =>
                 standing[t] = "absent" /\ \A z \in SchoolYears : e.enrolled[z][t] = NotEnrolled
         /\ \A t \in Enrollees \ crossed' : Sits(e, activeYear, t)
    BY <1>0, <1>3, <2>6, <2>7, <2>8, <2>9, EnrolStep
  <2> QED BY <1>1, <1>2, <1>3, <2>6, <2>10, <2>11, OneWritten
<1> QED BY <1>4, <1>5

LEMMA RosterBegins == RosterInit => RosterInv
<1> SUFFICES ASSUME RosterInit PROVE RosterInv
  OBVIOUS
<1> USE DEF RosterInit, RosterInitWith
<1>1. /\ activeYear \in SchoolYears /\ FirstNo \in [Enrollees -> {0} \cup Nos]
      /\ activeYear \in Nat
  BY RosterAssumption
<1>2. RosterTypeOK
  <2>1. \A s \in Enrollees : Enrolment(FirstNo[s]) \in EnrolmentRows /\ NotEnrolled \in EnrolmentRows
    BY <1>1 DEF Enrolment, NotEnrolled, EnrolmentRows
  <2>2. enrolled \in [SchoolYears -> [Enrollees -> EnrolmentRows]]
    BY <2>1
  <2>3. code \in [Nos -> [year : {0} \cup SchoolYears, used : {0} \cup Enrollees]]
    BY DEF NoCodeYet
  <2> QED BY <1>1, <2>2, <2>3 DEF RosterTypeOK
<1>3. CallsHold
  BY NoPlanIsPlan DEF CallsHold
<1>4. AbsentAreNotEnrolled
  BY DEF AbsentAreNotEnrolled
<1>5. \A s \in Enrollees \ crossed : Seated(s)
  <2> SUFFICES ASSUME NEW s \in Enrollees, standing[s] = "active"
               PROVE  /\ enrolled[activeYear][s].active => number[s] = enrolled[activeYear][s].no
                      /\ \E y \in SchoolYears : y >= activeYear /\ enrolled[y][s].active
    BY DEF Seated
  <2>1. enrolled[activeYear][s] = Enrolment(FirstNo[s]) /\ number[s] = FirstNo[s]
    BY <1>1
  <2>2. enrolled[activeYear][s].active /\ enrolled[activeYear][s].no = number[s] /\ activeYear >= activeYear
    BY <1>1, <2>1 DEF Enrolment
  <2> QED BY <1>1, <2>2
<1> QED BY <1>2, <1>3, <1>4, <1>5, RosterInvIs

LEMMA RosterKept == RosterInv /\ [RosterNext]_rosterVars => RosterInv'
<1> SUFFICES ASSUME RosterInv, [RosterNext]_rosterVars PROVE RosterInv'
  OBVIOUS
<1>1. ASSUME NEW i \in Imports,
             \/ PlanImport(i) \/ StaleImport(i) \/ RefusedImport(i) \/ ApplyImport(i) \/ LeaveImport(i)
             \/ \E s \in Enrollees : GraduateOf(i, s)
      PROVE RosterInv'
  BY <1>1, ImportStep, ApplyStep
<1>2. ASSUME NEW s \in Enrollees,
             Retire(s) \/ Deactivate(s) \/ SelectForErasure(s) \/ EraseRecord(s) \/ DeleteLogin(s)
      PROVE RosterInv'
  BY <1>2, QuietRosterStep, DeactivateStep, EraseStep
<1>3. ASSUME NEW c \in Corrections, ReadForCorrection(c) \/ WriteCorrection(c) PROVE RosterInv'
  BY <1>3, ReadsStep, CorrectionStep
<1>4. ASSUME NEW a \in Additions, ReadForAddition(a) \/ WriteAddition(a) PROVE RosterInv'
  BY <1>4, ReadsStep, AdditionStep
<1>5. ASSUME IssueCodes \/ \E n \in Nos : IssueCode(n) PROVE RosterInv'
  BY <1>5, QuietRosterStep
<1>6. ASSUME NEW n \in Nos, NEW s \in Enrollees, Register(n, s) PROVE RosterInv'
  BY <1>6, RegisterStep
<1>7. CASE UNCHANGED rosterVars
  <2>1. /\ UNCHANGED <<activeYear, people, crossed>> /\ code' = code /\ username' = username
        /\ import' = import /\ correction' = correction /\ addition' = addition
    BY <1>7 DEF rosterVars, errands
  <2>2. RosterTypeOK /\ CallsHold
    BY DEF RosterInv
  <2>3. CallsHold'
    BY <2>1, <2>2, CallsStay DEF Present, people
  <2> QED BY <2>1, <2>2, <2>3, PeopleStay DEF RosterTypeOK
<1> QED BY <1>1, <1>2, <1>3, <1>4, <1>5, <1>6, <1>7 DEF RosterNext

\* However uploads, corrections, additions, registrations, graduations and erasures overlap,
\* the number of an active student is that of his enrolment of the active year, nobody stays
\* an active student without an enrolment of it or a later year, and no two sign in with one
\* login, but for those a write touched that another had overtaken, and whom a rollover
\* overlooked (admin.service.ts applyStudentRoster, updateStudent, createStudent, changeStatus).
THEOREM IdentitiesStaySound == RosterSpec => []IdentitiesAreSound
<1>1. RosterInv => RosterTypeOK /\ NumbersAgree /\ ActiveAreEnrolled
  BY DEF RosterInv
<1>2. RosterSpec => [](RosterTypeOK /\ NumbersAgree /\ ActiveAreEnrolled)
  BY <1>1, RosterBegins, RosterKept, PTL DEF RosterSpec
<1> QED BY <1>2, LoginsStayOnesOwn, PTL DEF IdentitiesAreSound
=============================================================================
