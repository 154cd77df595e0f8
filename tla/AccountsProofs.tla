--------------------------- MODULE AccountsProofs ---------------------------
(***************************************************************************)
(* Why an account and its password are in the hands of the person they     *)
(* belong to, for every number of overlapping calls, codes and failures:   *)
(* the reset of a password, and the registration that opens an account.    *)
(***************************************************************************)
EXTENDS PasswordReset, AccountActivation, FiniteSetTheorems, SequenceTheorems, TLAPS

\* Password reset. The code lives in one record that is read, compared and
\* dropped by calls that overlap; what a check may still do is decided by
\* what it has read.

Flows == [code : Askings \cup {NoCode}, attempts : 0 .. MaxAttempts - 1]
ResetRows ==
    [step : {"idle", "sending", "strayed", "read", "traded", "setting", "done"},
     typed : Askings \cup {Wrong, NoCode}, flow : Flows]

ResetShapes ==
    /\ flow \in Flows /\ tokens \subseteq Checks /\ inbox \in Seq(Askings) /\ password \in Nat
    /\ reset \in [ResetCalls -> ResetRows]
    /\ \A r \in Askings : reset[r].step \in {"idle", "sending", "done"}
    /\ \A v \in Checks : /\ reset[v].step \in {"idle", "strayed", "read", "traded", "done"}
                         /\ reset[v].step = "traded" => reset[v].typed = reset[v].flow.code
    /\ \A c \in Confirmations : reset[c].step \in {"idle", "setting", "done"}

Read == {v \in Checks : reset[v].step = "read"}
Checked == {v \in Checks : reset[v].step \notin {"idle", "strayed"}}

\* A code is in force, or has been read by a check, only after it was stored.
CodesWereStored ==
    /\ flow # NoFlow => flow.code \in Askings /\ reset[flow.code].step # "idle"
    /\ \A v \in Checked : LET r == reset[v].flow.code IN r \in Askings /\ reset[r].step # "idle"

\* Whoever waits for a code nobody knows of is alone.
SenderIsAlone ==
    \A r \in Askings \ overlapped : reset[r].step = "sending" =>
        Busy = {r} /\ (flow = NoFlow \/ flow.code = r)

\* A code that may come to be in force once its mail is out.
Told(r) ==
    \/ r \in overlapped
    \/ inbox # <<>> /\ (r = inbox[Len(inbox)] \/ inbox[Len(inbox)] \in overlapped)

WillBeTold ==
    /\ flow # NoFlow => Told(flow.code) \/ reset[flow.code].step = "sending"
    /\ \A v \in Read : LET r == reset[v].flow.code IN Told(r) \/ reset[r].step = "sending"

\* One check at a time has a code in hand, and what is traded stays dropped.
OneHasIt ==
    \A v, w \in Checks :
        /\ reset[v].step \in {"read", "traded"} /\ reset[w].step \in {"read", "traded"}
        /\ reset[v].flow.code = reset[w].flow.code
        => v = w \/ reset[v].flow.code \in shared

Traded == {v \in Checks : reset[v].step \in {"traded", "done"} /\ reset[v].typed = reset[v].flow.code}

TradedIsDropped ==
    \A v \in Traded : reset[v].step = "done" /\ reset[v].flow.code \notin shared =>
        /\ flow.code # reset[v].flow.code
        /\ \A w \in Checks : reset[w].step \in {"read", "traded"} => reset[w].flow.code # reset[v].flow.code

TradedOnce ==
    \A v, w \in Traded :
        reset[v].flow.code = reset[w].flow.code => v = w \/ reset[v].flow.code \in shared

\* A password that was set, or will be, was traded for.
Setting == {c \in Confirmations : reset[c].step = "setting"}
PasswordsAreTraded ==
    /\ IsFiniteSet(Traded) /\ IsFiniteSet(tokens) /\ IsFiniteSet(Setting)
    /\ tokens \subseteq Traded
    /\ password + Cardinality(Setting) + Cardinality(tokens) <= Cardinality(Traded)

Missed(r) == {v \in Checks : /\ reset[v].step = "done" /\ reset[v].flow.code = r
                             /\ reset[v].typed # r}

\* Whoever has a code that is not shared knows all its mismatches.
MissesAreKnown ==
    \A r \in Askings :
        /\ IsFiniteSet(Missed(r))
        /\ flow.code = r /\ r \notin shared => flow.attempts = Cardinality(Missed(r))
        /\ \A v \in Read : reset[v].flow.code = r /\ r \notin shared =>
               reset[v].flow.attempts = Cardinality(Missed(r))

ResetInv ==
    /\ ResetShapes /\ CodesWereStored /\ SenderIsAlone /\ WillBeTold /\ OneHasIt
    /\ TradedIsDropped /\ TradedOnce /\ PasswordsAreTraded /\ MissesAreKnown

LEMMA StoreCodeKeeps ==
    ASSUME ResetInv, NEW r \in Askings, StoreCode(r)
    PROVE  ResetInv'
<1>a. /\ r \in ResetCalls /\ reset[r].step = "idle" /\ reset'[r].step = "sending" /\ r \notin Checks /\ r \notin Confirmations
      /\ flow' = [code |-> r, attempts |-> 0] /\ UNCHANGED <<tokens, inbox, password, shared>>
      /\ \A c \in ResetCalls \ {r} : reset'[c] = reset[c]
  BY ResetAssumption DEF StoreCode, Step, ResetInv, ResetShapes, ResetRows, Flows, ResetCalls
<1>b. Traded' = Traded
  BY <1>a DEF Traded, ResetCalls
<1>c. Setting' = Setting
  BY <1>a DEF Setting, ResetCalls
<1>d. \A q \in Askings : Missed(q)' = Missed(q)
  BY <1>a DEF Missed, ResetCalls
<1>e. flow \in Flows /\ \A x \in Checks : reset[x].flow \in Flows
  BY DEF ResetInv, ResetShapes, ResetRows, ResetCalls
<1>1. ResetShapes'
  <2>1. flow' \in Flows
    BY <1>a, ResetAssumption DEF ResetInv, ResetShapes, Flows, NoFlow
  <2>2. reset' \in [ResetCalls -> ResetRows]
    <3>1. reset' = [reset EXCEPT ![r].step = "sending"] /\ reset \in [ResetCalls -> ResetRows] /\ r \in ResetCalls
      BY <1>a DEF ResetInv, ResetShapes, StoreCode, Step
    <3>2. [reset[r] EXCEPT !.step = "sending"] \in ResetRows
      BY <3>1 DEF ResetRows
    <3> QED BY <3>1, <3>2
  <2>3. inbox' \in Seq(Askings) /\ tokens' \subseteq Checks /\ password' \in Nat
    BY <1>a, AppendProperties DEF ResetInv, ResetShapes
  <2> QED BY <2>1, <2>2, <2>3, <1>a, ResetAssumption DEF ResetInv, ResetShapes, ResetCalls
<1>2. CodesWereStored'
  <2>1. \A q \in Askings : reset[q].step # "idle" => reset'[q].step # "idle"
    BY <1>a DEF ResetCalls
  <2>2. \A w \in Checks : reset'[w] = reset[w]
    BY <1>a, ResetAssumption DEF ResetCalls
  <2>3. flow' = flow \/ flow' = NoFlow \/ (flow'.code = r /\ reset'[r].step # "idle" /\ r \in Askings)
    BY <1>a
  <2> QED BY <2>1, <2>2, <2>3 DEF ResetInv, CodesWereStored, Checked
<1>3. SenderIsAlone'
  BY <1>a DEF StoreCode, SenderIsAlone, Busy, ResetCalls
<1>4. WillBeTold'
  BY <1>a DEF StoreCode, ResetInv, CodesWereStored, WillBeTold, Told, Read, Checked, ResetCalls
<1>5. OneHasIt'
  BY <1>a DEF ResetInv, OneHasIt, ResetCalls
<1>6. TradedIsDropped'
  BY <1>a DEF ResetInv, CodesWereStored, Checked, Traded, TradedIsDropped, ResetCalls
<1>7. TradedOnce'
  BY <1>a DEF ResetInv, Traded, TradedOnce, ResetCalls
<1>8. PasswordsAreTraded'
  BY <1>a, <1>b, <1>c DEF ResetInv, PasswordsAreTraded
<1>9. MissesAreKnown'
  <2>0. Missed(r) = {}
    BY <1>a DEF ResetInv, CodesWereStored, Checked, Missed
  <2> SUFFICES ASSUME NEW q \in Askings
               PROVE  /\ IsFiniteSet(Missed(q)')
                      /\ flow'.code = q /\ q \notin shared' => flow'.attempts = Cardinality(Missed(q)')
                      /\ \A w \in Read' : reset'[w].flow.code = q /\ q \notin shared' =>
                             reset'[w].flow.attempts = Cardinality(Missed(q)')
    BY DEF MissesAreKnown
  <2>1. IsFiniteSet(Missed(q)')
    BY <1>d, FS_AddElement DEF ResetInv, MissesAreKnown
  <2>2. flow'.code = q /\ q \notin shared' => flow'.attempts = Cardinality(Missed(q)')
    BY <1>a, <1>d, <2>0, FS_EmptySet DEF ResetInv, MissesAreKnown, NoFlow
  <2>3. ASSUME NEW w \in Read', reset'[w].flow.code = q, q \notin shared'
        PROVE  reset'[w].flow.attempts = Cardinality(Missed(q)')
    <3>1. CASE w \in Read /\ reset'[w] = reset[w] /\ shared' = shared
      BY <3>1, <2>3, <1>a, <1>d, ResetAssumption DEF ResetInv, MissesAreKnown
    <3> QED BY <3>1, <2>3, <1>a, <1>d, ResetAssumption DEF ResetInv, MissesAreKnown, Read, ResetCalls
  <2> QED BY <2>1, <2>2, <2>3
<1> QED BY <1>1, <1>2, <1>3, <1>4, <1>5, <1>6, <1>7, <1>8, <1>9 DEF ResetInv

LEMMA SendCodeKeeps ==
    ASSUME ResetInv, NEW r \in Askings, SendCode(r)
    PROVE  ResetInv'
<1>a. /\ r \in ResetCalls /\ reset[r].step = "sending" /\ reset'[r].step = "done" /\ r \notin Checks /\ r \notin Confirmations
      /\ inbox' = Append(inbox, r) /\ UNCHANGED <<flow, tokens, password, overlapped, shared>>
      /\ \A c \in ResetCalls \ {r} : reset'[c] = reset[c]
  BY ResetAssumption DEF SendCode, Step, ResetInv, ResetShapes, ResetRows, Flows, ResetCalls
<1>b. Traded' = Traded
  BY <1>a DEF Traded, ResetCalls
<1>c. Setting' = Setting
  BY <1>a DEF Setting, ResetCalls
<1>d. \A q \in Askings : Missed(q)' = Missed(q)
  BY <1>a DEF Missed, ResetCalls
<1>e. flow \in Flows /\ \A x \in Checks : reset[x].flow \in Flows
  BY DEF ResetInv, ResetShapes, ResetRows, ResetCalls
<1>f. \A w \in Checks : reset'[w] = reset[w]
  BY <1>a, ResetAssumption DEF ResetCalls
<1>1. ResetShapes'
  <2>1. flow' \in Flows
    BY <1>a, ResetAssumption DEF ResetInv, ResetShapes, Flows, NoFlow
  <2>2. reset' \in [ResetCalls -> ResetRows]
    <3>1. reset' = [reset EXCEPT ![r].step = "done"] /\ reset \in [ResetCalls -> ResetRows] /\ r \in ResetCalls
      BY <1>a DEF ResetInv, ResetShapes, SendCode, Step
    <3>2. [reset[r] EXCEPT !.step = "done"] \in ResetRows
      BY <3>1 DEF ResetRows
    <3> QED BY <3>1, <3>2
  <2>3. inbox' \in Seq(Askings) /\ tokens' \subseteq Checks /\ password' \in Nat
    BY <1>a, AppendProperties DEF ResetInv, ResetShapes
  <2> QED BY <2>1, <2>2, <2>3, <1>a, ResetAssumption DEF ResetInv, ResetShapes, ResetCalls
<1>2. CodesWereStored'
  <2>1. \A q \in Askings : reset[q].step # "idle" => reset'[q].step # "idle"
    BY <1>a DEF ResetCalls
  <2>2. \A w \in Checks : reset'[w] = reset[w]
    BY <1>a, ResetAssumption DEF ResetCalls
  <2>3. flow' = flow \/ flow' = NoFlow \/ (flow'.code = r /\ reset'[r].step # "idle" /\ r \in Askings)
    BY <1>a
  <2> QED BY <2>1, <2>2, <2>3 DEF ResetInv, CodesWereStored, Checked
<1>3. SenderIsAlone'
  BY <1>a DEF ResetInv, SenderIsAlone, Busy, ResetCalls
<1>4. WillBeTold'
  <2>1. inbox' # <<>> /\ inbox'[Len(inbox')] = r
    BY <1>a, AppendProperties DEF ResetInv, ResetShapes
  <2>2. CASE r \in overlapped
    BY <2>1, <2>2, <1>a DEF Told, WillBeTold
  <2>3. CASE r \notin overlapped
    <3>1. Busy = {r} /\ (flow = NoFlow \/ flow.code = r)
      BY <2>3, <1>a DEF ResetInv, SenderIsAlone
    <3>2. Read' = {}
      BY <3>1, <1>a DEF Busy, Read, ResetCalls
    <3> QED BY <3>1, <3>2, <2>1, <1>a DEF WillBeTold, Told
  <2> QED BY <2>2, <2>3
<1>5. OneHasIt'
  BY <1>a, <1>f DEF ResetInv, OneHasIt
<1>6. TradedIsDropped'
  BY <1>a, <1>b, <1>f DEF ResetInv, Traded, TradedIsDropped
<1>7. TradedOnce'
  BY <1>a DEF ResetInv, Traded, TradedOnce, ResetCalls
<1>8. PasswordsAreTraded'
  BY <1>a, <1>b, <1>c DEF ResetInv, PasswordsAreTraded
<1>9. MissesAreKnown'
  <2> SUFFICES ASSUME NEW q \in Askings
               PROVE  /\ IsFiniteSet(Missed(q)')
                      /\ flow'.code = q /\ q \notin shared' => flow'.attempts = Cardinality(Missed(q)')
                      /\ \A w \in Read' : reset'[w].flow.code = q /\ q \notin shared' =>
                             reset'[w].flow.attempts = Cardinality(Missed(q)')
    BY DEF MissesAreKnown
  <2>1. IsFiniteSet(Missed(q)')
    BY <1>d, FS_AddElement DEF ResetInv, MissesAreKnown
  <2>2. flow'.code = q /\ q \notin shared' => flow'.attempts = Cardinality(Missed(q)')
    BY <1>a, <1>d, ResetAssumption DEF ResetInv, MissesAreKnown, NoFlow
  <2>3. ASSUME NEW w \in Read', reset'[w].flow.code = q, q \notin shared'
        PROVE  reset'[w].flow.attempts = Cardinality(Missed(q)')
    <3>1. CASE w \in Read /\ reset'[w] = reset[w] /\ shared' = shared
      BY <3>1, <2>3, <1>a, <1>d, ResetAssumption DEF ResetInv, MissesAreKnown
    <3> QED BY <3>1, <2>3, <1>a, <1>d, ResetAssumption DEF ResetInv, MissesAreKnown, Read, ResetCalls
  <2> QED BY <2>1, <2>2, <2>3
<1> QED BY <1>1, <1>2, <1>3, <1>4, <1>5, <1>6, <1>7, <1>8, <1>9 DEF ResetInv

LEMMA SendingFailsKeeps ==
    ASSUME ResetInv, NEW r \in Askings, SendingFails(r)
    PROVE  ResetInv'
<1>a. /\ r \in ResetCalls /\ reset[r].step = "sending" /\ reset'[r].step = "done" /\ r \notin Checks /\ r \notin Confirmations
      /\ flow' = NoFlow /\ UNCHANGED <<inbox, tokens, password, overlapped, shared>>
      /\ \A c \in ResetCalls \ {r} : reset'[c] = reset[c]
  BY ResetAssumption DEF SendingFails, Step, ResetInv, ResetShapes, ResetRows, Flows, ResetCalls
<1>b. Traded' = Traded
  BY <1>a DEF Traded, ResetCalls
<1>c. Setting' = Setting
  BY <1>a DEF Setting, ResetCalls
<1>d. \A q \in Askings : Missed(q)' = Missed(q)
  BY <1>a DEF Missed, ResetCalls
<1>e. flow \in Flows /\ \A x \in Checks : reset[x].flow \in Flows
  BY DEF ResetInv, ResetShapes, ResetRows, ResetCalls
<1>1. ResetShapes'
  <2>1. flow' \in Flows
    BY <1>a, ResetAssumption DEF ResetInv, ResetShapes, Flows, NoFlow
  <2>2. reset' \in [ResetCalls -> ResetRows]
    BY <1>a DEF SendingFails, Step, ResetInv, ResetShapes, ResetRows
  <2>3. inbox' \in Seq(Askings) /\ tokens' \subseteq Checks /\ password' \in Nat
    BY <1>a, AppendProperties DEF ResetInv, ResetShapes
  <2> QED BY <2>1, <2>2, <2>3, <1>a, ResetAssumption DEF ResetInv, ResetShapes, ResetCalls
<1>2. CodesWereStored'
  <2>1. \A q \in Askings : reset[q].step # "idle" => reset'[q].step # "idle"
    BY <1>a DEF ResetCalls
  <2>2. \A w \in Checks : reset'[w] = reset[w]
    BY <1>a, ResetAssumption DEF ResetCalls
  <2>3. flow' = flow \/ flow' = NoFlow \/ (flow'.code = r /\ reset'[r].step # "idle" /\ r \in Askings)
    BY <1>a
  <2> QED BY <2>1, <2>2, <2>3 DEF ResetInv, CodesWereStored, Checked
<1>3. SenderIsAlone'
  BY <1>a DEF ResetInv, SenderIsAlone, Busy, ResetCalls
<1>4. WillBeTold'
  BY <1>a
     DEF ResetInv, CodesWereStored, SenderIsAlone, WillBeTold, Told, Read, Checked, Busy,
         ResetCalls
<1>5. OneHasIt'
  BY <1>a DEF ResetInv, OneHasIt, ResetCalls
<1>6. TradedIsDropped'
  BY <1>a, ResetAssumption
     DEF ResetInv, CodesWereStored, Checked, Traded, TradedIsDropped, NoFlow, ResetCalls
<1>7. TradedOnce'
  BY <1>a DEF ResetInv, Traded, TradedOnce, ResetCalls
<1>8. PasswordsAreTraded'
  BY <1>a, <1>b, <1>c DEF ResetInv, PasswordsAreTraded
<1>9. MissesAreKnown'
  <2> SUFFICES ASSUME NEW q \in Askings
               PROVE  /\ IsFiniteSet(Missed(q)')
                      /\ flow'.code = q /\ q \notin shared' => flow'.attempts = Cardinality(Missed(q)')
                      /\ \A w \in Read' : reset'[w].flow.code = q /\ q \notin shared' =>
                             reset'[w].flow.attempts = Cardinality(Missed(q)')
    BY DEF MissesAreKnown
  <2>1. IsFiniteSet(Missed(q)')
    BY <1>d, FS_AddElement DEF ResetInv, MissesAreKnown
  <2>2. flow'.code = q /\ q \notin shared' => flow'.attempts = Cardinality(Missed(q)')
    BY <1>a, <1>d, ResetAssumption DEF ResetInv, MissesAreKnown, NoFlow
  <2>3. ASSUME NEW w \in Read', reset'[w].flow.code = q, q \notin shared'
        PROVE  reset'[w].flow.attempts = Cardinality(Missed(q)')
    <3>1. CASE w \in Read /\ reset'[w] = reset[w] /\ shared' = shared
      BY <3>1, <2>3, <1>a, <1>d, ResetAssumption DEF ResetInv, MissesAreKnown
    <3> QED BY <3>1, <2>3, <1>a, <1>d, ResetAssumption DEF ResetInv, MissesAreKnown, Read, ResetCalls
  <2> QED BY <2>1, <2>2, <2>3
<1> QED BY <1>1, <1>2, <1>3, <1>4, <1>5, <1>6, <1>7, <1>8, <1>9 DEF ResetInv

LEMMA ReadFlowKeeps ==
    ASSUME ResetInv, NEW v \in Checks, NEW typed \in Askings \cup {Wrong}, ReadFlow(v, typed)
    PROVE  ResetInv'
<1>a. /\ v \in ResetCalls /\ reset[v].step = "idle" /\ v \notin Askings /\ v \notin Confirmations
      /\ reset'[v].step = "read" /\ reset'[v].typed = typed /\ reset'[v].flow = flow
      /\ flow # NoFlow /\ UNCHANGED <<flow, tokens, inbox, password>>
      /\ \A c \in ResetCalls \ {v} : reset'[c] = reset[c]
  BY ResetAssumption DEF ReadFlow, Step, ResetInv, ResetShapes, ResetRows, Flows, ResetCalls
<1>b. Traded' = Traded
  BY DEF Traded, ReadFlow
<1>c. Setting' = Setting
  BY DEF Setting, ReadFlow
<1>d. \A q \in Askings : Missed(q)' = Missed(q)
  BY DEF Missed, ReadFlow
<1>e. flow \in Flows /\ \A x \in Checks : reset[x].flow \in Flows
  BY DEF ResetInv, ResetShapes, ResetRows, ResetCalls
<1>1. ResetShapes'
  <2>1. flow' \in Flows
    BY <1>a, ResetAssumption DEF ResetInv, ResetShapes, Flows, NoFlow
  <2>2. reset' \in [ResetCalls -> ResetRows]
    BY <1>a, ResetAssumption DEF ReadFlow, Step, ResetInv, ResetShapes, ResetRows, Flows, ResetCalls, NoFlow
  <2>3. inbox' \in Seq(Askings) /\ tokens' \subseteq Checks /\ password' \in Nat
    BY <1>a, AppendProperties DEF ResetInv, ResetShapes
  <2> QED BY <2>1, <2>2, <2>3, <1>a, ResetAssumption DEF ResetInv, ResetShapes, ResetCalls
<1>2. CodesWereStored'
  BY <1>a DEF ResetInv, CodesWereStored, Checked, ResetCalls
<1>3. SenderIsAlone'
  BY DEF ReadFlow, SenderIsAlone, Busy
<1>4. WillBeTold'
  BY DEF ReadFlow, ResetInv, WillBeTold, Told, Read
<1>5. OneHasIt'
  BY DEF ReadFlow, ResetInv, OneHasIt
<1>6. TradedIsDropped'
  BY DEF ReadFlow, ResetInv, Traded, TradedIsDropped
<1>7. TradedOnce'
  BY DEF ReadFlow, ResetInv, Traded, TradedOnce
<1>8. PasswordsAreTraded'
  BY <1>a, <1>b, <1>c DEF ResetInv, PasswordsAreTraded
<1>9. MissesAreKnown'
  <2>0. shared \subseteq shared'
    BY DEF ReadFlow
  <2> SUFFICES ASSUME NEW q \in Askings
               PROVE  /\ IsFiniteSet(Missed(q)')
                      /\ flow'.code = q /\ q \notin shared' => flow'.attempts = Cardinality(Missed(q)')
                      /\ \A w \in Read' : reset'[w].flow.code = q /\ q \notin shared' =>
                             reset'[w].flow.attempts = Cardinality(Missed(q)')
    BY DEF MissesAreKnown
  <2>1. IsFiniteSet(Missed(q)')
    BY <1>d, FS_AddElement DEF ResetInv, MissesAreKnown
  <2>2. flow'.code = q /\ q \notin shared' => flow'.attempts = Cardinality(Missed(q)')
    BY <1>a, <1>d, <2>0, ResetAssumption DEF ResetInv, MissesAreKnown, NoFlow
  <2>3. ASSUME NEW w \in Read', reset'[w].flow.code = q, q \notin shared'
        PROVE  reset'[w].flow.attempts = Cardinality(Missed(q)')
    <3>1. CASE w \in Read /\ reset'[w] = reset[w] /\ shared' = shared
      BY <3>1, <2>3, <1>a, <1>d, <2>0, ResetAssumption DEF ResetInv, MissesAreKnown
    <3> QED BY <3>1, <2>3, <1>a, <1>d, <2>0, ResetAssumption DEF ResetInv, MissesAreKnown, Read, ResetCalls
  <2> QED BY <2>1, <2>2, <2>3
<1> QED BY <1>1, <1>2, <1>3, <1>4, <1>5, <1>6, <1>7, <1>8, <1>9 DEF ResetInv

LEMMA CountMismatchKeeps ==
    ASSUME ResetInv, NEW v \in Checks, CountMismatch(v)
    PROVE  ResetInv'
<1>a. /\ v \in ResetCalls /\ reset[v].step = "read" /\ v \notin Askings /\ v \notin Confirmations /\ reset[v].typed # reset[v].flow.code
      /\ reset'[v].step = "done" /\ reset'[v].typed = reset[v].typed /\ reset'[v].flow = reset[v].flow
      /\ UNCHANGED <<tokens, inbox, password, overlapped, shared>>
      /\ \A c \in ResetCalls \ {v} : reset'[c] = reset[c]
      /\ flow' = NoFlow \/ (/\ flow'.code = reset[v].flow.code /\ flow' \in Flows
                            /\ flow'.attempts = reset[v].flow.attempts + 1)
  BY ResetAssumption DEF CountMismatch, Step, ResetInv, ResetShapes, ResetRows, Flows, ResetCalls
<1>b. Traded' = Traded
  BY <1>a DEF Traded, ResetCalls
<1>c. Setting' = Setting
  BY <1>a DEF Setting, ResetCalls
<1>d. \A q \in Askings : /\ q # reset[v].flow.code => Missed(q)' = Missed(q)
                         /\ q = reset[v].flow.code => Missed(q)' = Missed(q) \cup {v} /\ v \notin Missed(q)
  BY <1>a DEF Missed, ResetCalls
<1>e. flow \in Flows /\ \A x \in Checks : reset[x].flow \in Flows
  BY DEF ResetInv, ResetShapes, ResetRows, ResetCalls
<1>1. ResetShapes'
  <2>1. flow' \in Flows
    BY <1>a, ResetAssumption DEF ResetInv, ResetShapes, Flows, NoFlow
  <2>2. reset' \in [ResetCalls -> ResetRows]
    BY <1>a DEF CountMismatch, Step, ResetInv, ResetShapes, ResetRows
  <2>3. inbox' \in Seq(Askings) /\ tokens' \subseteq Checks /\ password' \in Nat
    BY <1>a, AppendProperties DEF ResetInv, ResetShapes
  <2> QED BY <2>1, <2>2, <2>3, <1>a, ResetAssumption DEF ResetInv, ResetShapes, ResetCalls
<1>2. CodesWereStored'
  <2>1. \A q \in Askings : reset'[q] = reset[q]
    BY <1>a, ResetAssumption DEF ResetCalls
  <2>2. \A w \in Checks :
          \/ w = v
          \/ reset'[w].flow = reset[w].flow /\ reset'[w].step = reset[w].step
    BY <1>a, ResetAssumption DEF ResetCalls
  <2>3. flow' = NoFlow \/ flow'.code = reset[v].flow.code
    BY <1>a
  <2> QED BY <2>1, <2>2, <2>3, <1>a DEF ResetInv, CodesWereStored, Checked
<1>3. SenderIsAlone'
  BY <1>a DEF ResetInv, SenderIsAlone, Busy, ResetCalls
<1>4. WillBeTold'
  BY <1>a
     DEF CountMismatch, ResetInv, CodesWereStored, WillBeTold, Told, Read, Checked, ResetCalls
<1>5. OneHasIt'
  BY <1>a DEF ResetInv, OneHasIt, ResetCalls
<1>6. TradedIsDropped'
  BY <1>a, ResetAssumption
     DEF ResetInv, CodesWereStored, Checked, Traded, TradedIsDropped, NoFlow, ResetCalls
<1>7. TradedOnce'
  BY <1>a DEF ResetInv, Traded, TradedOnce, ResetCalls
<1>8. PasswordsAreTraded'
  BY <1>a, <1>b, <1>c DEF ResetInv, PasswordsAreTraded
<1>9. MissesAreKnown'
  <2>0. /\ v \in Read /\ reset[v].flow.code \in Askings
        /\ IsFiniteSet(Missed(reset[v].flow.code)) /\ Cardinality(Missed(reset[v].flow.code)) \in Nat
        /\ reset[v].flow.code \in shared \/ reset[v].flow.attempts = Cardinality(Missed(reset[v].flow.code))
    BY <1>a, FS_CardinalityType DEF ResetInv, MissesAreKnown, CodesWereStored, Checked, Read
  <2>9. ASSUME NEW q \in Askings, q = reset[v].flow.code
        PROVE  IsFiniteSet(Missed(q)) /\ Cardinality(Missed(q)') = Cardinality(Missed(q)) + 1
    <3>1. IsFiniteSet(Missed(q)) /\ Missed(q)' = Missed(q) \cup {v} /\ v \notin Missed(q)
      BY <2>0, <2>9, <1>d
    <3> QED BY <3>1, FS_AddElement
  <2>8. \A w \in Read' : reset'[w] = reset[w] /\ w \in Read /\ w # v
    BY <1>a DEF Read, ResetCalls
  <2>7. \A w \in Read' : reset'[w].flow.code = reset[v].flow.code => reset[v].flow.code \in shared
    BY <1>a, <2>8, <2>0 DEF ResetInv, OneHasIt, Read
  <2> SUFFICES ASSUME NEW q \in Askings
               PROVE  /\ IsFiniteSet(Missed(q)')
                      /\ flow'.code = q /\ q \notin shared' => flow'.attempts = Cardinality(Missed(q)')
                      /\ \A w \in Read' : reset'[w].flow.code = q /\ q \notin shared' =>
                             reset'[w].flow.attempts = Cardinality(Missed(q)')
    BY DEF MissesAreKnown
  <2>1. IsFiniteSet(Missed(q)')
    BY <1>d, FS_AddElement DEF ResetInv, MissesAreKnown
  <2>2. flow'.code = q /\ q \notin shared' => flow'.attempts = Cardinality(Missed(q)')
    BY <1>a, <1>d, <2>0, <2>9, ResetAssumption DEF ResetInv, MissesAreKnown, NoFlow
  <2>3. ASSUME NEW w \in Read', reset'[w].flow.code = q, q \notin shared'
        PROVE  reset'[w].flow.attempts = Cardinality(Missed(q)')
    <3>1. CASE w \in Read /\ reset'[w] = reset[w] /\ shared' = shared
      BY <3>1, <2>3, <1>a, <1>d, <2>8, <2>7 DEF ResetInv, MissesAreKnown
    <3> QED BY <3>1, <2>3, <1>a, <1>d, <2>8, <2>7 DEF ResetInv, MissesAreKnown, Read, ResetCalls
  <2> QED BY <2>1, <2>2, <2>3
<1> QED BY <1>1, <1>2, <1>3, <1>4, <1>5, <1>6, <1>7, <1>8, <1>9 DEF ResetInv

LEMMA TradeCodeKeeps ==
    ASSUME ResetInv, NEW v \in Checks, TradeCode(v)
    PROVE  ResetInv'
<1>a. /\ v \in ResetCalls /\ reset[v].step = "read" /\ v \notin Askings /\ v \notin Confirmations /\ reset[v].typed = reset[v].flow.code
      /\ reset'[v].step = "traded" /\ reset'[v].typed = reset[v].typed /\ reset'[v].flow = reset[v].flow
      /\ tokens' = tokens \cup {v} /\ UNCHANGED <<flow, inbox, password, overlapped, shared>>
      /\ \A c \in ResetCalls \ {v} : reset'[c] = reset[c]
  BY ResetAssumption DEF TradeCode, Step, ResetInv, ResetShapes, ResetRows, Flows, ResetCalls
<1>b. Traded' = Traded \cup {v} /\ v \notin Traded
  BY <1>a DEF Traded, ResetCalls
<1>c. Setting' = Setting
  BY <1>a DEF Setting, ResetCalls
<1>d. \A q \in Askings : Missed(q)' = Missed(q)
  BY <1>a DEF Missed, ResetCalls
<1>e. flow \in Flows /\ \A x \in Checks : reset[x].flow \in Flows
  BY DEF ResetInv, ResetShapes, ResetRows, ResetCalls
<1>1. ResetShapes'
  <2>1. flow' \in Flows
    BY <1>a, ResetAssumption DEF ResetInv, ResetShapes, Flows, NoFlow
  <2>2. reset' \in [ResetCalls -> ResetRows]
    BY <1>a, ResetAssumption DEF TradeCode, Step, ResetInv, ResetShapes, ResetRows, Flows, ResetCalls, NoFlow
  <2>3. inbox' \in Seq(Askings) /\ tokens' \subseteq Checks /\ password' \in Nat
    BY <1>a, AppendProperties DEF ResetInv, ResetShapes
  <2> QED BY <2>1, <2>2, <2>3, <1>a, ResetAssumption DEF ResetInv, ResetShapes, ResetCalls
<1>2. CodesWereStored'
  BY <1>a DEF ResetInv, CodesWereStored, Checked, ResetCalls
<1>3. SenderIsAlone'
  BY <1>a DEF ResetInv, SenderIsAlone, Busy, ResetCalls
<1>4. WillBeTold'
  BY <1>a DEF ResetInv, CodesWereStored, WillBeTold, Told, Read, Checked, ResetCalls
<1>5. OneHasIt'
  BY <1>a DEF ResetInv, OneHasIt, ResetCalls
<1>6. TradedIsDropped'
  BY <1>a DEF ResetInv, Traded, TradedIsDropped, ResetCalls
<1>7. TradedOnce'
  BY <1>a DEF ResetInv, OneHasIt, Traded, TradedIsDropped, TradedOnce, ResetCalls
<1>8. PasswordsAreTraded'
  <2>1. v \notin tokens /\ tokens' = tokens \cup {v} /\ IsFiniteSet(tokens) /\ IsFiniteSet(Traded)
    BY <1>a, <1>b DEF ResetInv, PasswordsAreTraded
  <2>2. /\ IsFiniteSet(tokens') /\ Cardinality(tokens') = Cardinality(tokens) + 1
        /\ IsFiniteSet(Traded') /\ Cardinality(Traded') = Cardinality(Traded) + 1
    BY <2>1, <1>b, FS_AddElement
  <2>3. Cardinality(tokens) \in Nat /\ Cardinality(Setting) \in Nat /\ Cardinality(Traded) \in Nat
    BY FS_CardinalityType DEF ResetInv, PasswordsAreTraded
  <2> QED BY <2>1, <2>2, <2>3, <1>a, <1>b, <1>c DEF ResetInv, ResetShapes, PasswordsAreTraded
<1>9. MissesAreKnown'
  <2> SUFFICES ASSUME NEW q \in Askings
               PROVE  /\ IsFiniteSet(Missed(q)')
                      /\ flow'.code = q /\ q \notin shared' => flow'.attempts = Cardinality(Missed(q)')
                      /\ \A w \in Read' : reset'[w].flow.code = q /\ q \notin shared' =>
                             reset'[w].flow.attempts = Cardinality(Missed(q)')
    BY DEF MissesAreKnown
  <2>1. IsFiniteSet(Missed(q)')
    BY <1>d, FS_AddElement DEF ResetInv, MissesAreKnown
  <2>2. flow'.code = q /\ q \notin shared' => flow'.attempts = Cardinality(Missed(q)')
    BY <1>a, <1>d, ResetAssumption DEF ResetInv, MissesAreKnown, NoFlow
  <2>3. ASSUME NEW w \in Read', reset'[w].flow.code = q, q \notin shared'
        PROVE  reset'[w].flow.attempts = Cardinality(Missed(q)')
    <3>1. CASE w \in Read /\ reset'[w] = reset[w] /\ shared' = shared
      BY <3>1, <2>3, <1>a, <1>d, ResetAssumption DEF ResetInv, MissesAreKnown
    <3> QED BY <3>1, <2>3, <1>a, <1>d, ResetAssumption DEF ResetInv, MissesAreKnown, Read, ResetCalls
  <2> QED BY <2>1, <2>2, <2>3
<1> QED BY <1>1, <1>2, <1>3, <1>4, <1>5, <1>6, <1>7, <1>8, <1>9 DEF ResetInv

LEMMA DropCodeKeeps ==
    ASSUME ResetInv, NEW v \in Checks, DropCode(v)
    PROVE  ResetInv'
<1>a. /\ v \in ResetCalls /\ reset[v].step = "traded" /\ v \notin Askings /\ v \notin Confirmations
      /\ reset'[v].step = "done" /\ reset'[v].typed = reset[v].typed /\ reset'[v].flow = reset[v].flow
      /\ flow' = NoFlow /\ UNCHANGED <<tokens, inbox, password, overlapped, shared>>
      /\ \A c \in ResetCalls \ {v} : reset'[c] = reset[c]
  BY ResetAssumption DEF DropCode, Step, ResetInv, ResetShapes, ResetRows, Flows, ResetCalls
<1>b. Traded' = Traded
  BY <1>a DEF Traded, ResetCalls
<1>c. Setting' = Setting
  BY <1>a DEF Setting, ResetCalls
<1>d. \A q \in Askings : Missed(q)' = Missed(q)
  BY <1>a DEF ResetInv, ResetShapes, Missed, ResetCalls
<1>e. flow \in Flows /\ \A x \in Checks : reset[x].flow \in Flows
  BY DEF ResetInv, ResetShapes, ResetRows, ResetCalls
<1>1. ResetShapes'
  <2>1. flow' \in Flows
    BY <1>a, ResetAssumption DEF ResetInv, ResetShapes, Flows, NoFlow
  <2>2. reset' \in [ResetCalls -> ResetRows]
    BY <1>a, ResetAssumption DEF DropCode, Step, ResetInv, ResetShapes, ResetRows, Flows, ResetCalls, NoFlow
  <2>3. inbox' \in Seq(Askings) /\ tokens' \subseteq Checks /\ password' \in Nat
    BY <1>a, AppendProperties DEF ResetInv, ResetShapes
  <2> QED BY <2>1, <2>2, <2>3, <1>a, ResetAssumption DEF ResetInv, ResetShapes, ResetCalls
<1>2. CodesWereStored'
  BY <1>a DEF DropCode, ResetInv, CodesWereStored, Checked, ResetCalls
<1>3. SenderIsAlone'
  BY <1>a DEF ResetInv, SenderIsAlone, Busy, ResetCalls
<1>4. WillBeTold'
  BY <1>a DEF DropCode, ResetInv, CodesWereStored, WillBeTold, Told, Read, Checked, ResetCalls
<1>5. OneHasIt'
  BY <1>a DEF ResetInv, OneHasIt, ResetCalls
<1>6. TradedIsDropped'
  BY <1>a, ResetAssumption
     DEF ResetInv, CodesWereStored, Checked, OneHasIt, Traded, TradedIsDropped, NoFlow,
         ResetCalls
<1>7. TradedOnce'
  BY <1>a DEF ResetInv, Traded, TradedOnce, ResetCalls
<1>8. PasswordsAreTraded'
  BY <1>a, <1>b, <1>c DEF ResetInv, PasswordsAreTraded
<1>9. MissesAreKnown'
  <2> SUFFICES ASSUME NEW q \in Askings
               PROVE  /\ IsFiniteSet(Missed(q)')
                      /\ flow'.code = q /\ q \notin shared' => flow'.attempts = Cardinality(Missed(q)')
                      /\ \A w \in Read' : reset'[w].flow.code = q /\ q \notin shared' =>
                             reset'[w].flow.attempts = Cardinality(Missed(q)')
    BY DEF MissesAreKnown
  <2>1. IsFiniteSet(Missed(q)')
    BY <1>d, FS_AddElement DEF ResetInv, MissesAreKnown
  <2>2. flow'.code = q /\ q \notin shared' => flow'.attempts = Cardinality(Missed(q)')
    BY <1>a, <1>d, ResetAssumption DEF ResetInv, MissesAreKnown, NoFlow
  <2>3. ASSUME NEW w \in Read', reset'[w].flow.code = q, q \notin shared'
        PROVE  reset'[w].flow.attempts = Cardinality(Missed(q)')
    <3>1. CASE w \in Read /\ reset'[w] = reset[w] /\ shared' = shared
      BY <3>1, <2>3, <1>a, <1>d, ResetAssumption DEF ResetInv, MissesAreKnown
    <3> QED BY <3>1, <2>3, <1>a, <1>d, ResetAssumption DEF ResetInv, MissesAreKnown, Read, ResetCalls
  <2> QED BY <2>1, <2>2, <2>3
<1> QED BY <1>1, <1>2, <1>3, <1>4, <1>5, <1>6, <1>7, <1>8, <1>9 DEF ResetInv

LEMMA TakeTokenKeeps ==
    ASSUME ResetInv, NEW c \in Confirmations, NEW v \in Checks, TakeToken(c, v)
    PROVE  ResetInv'
<1>a. /\ c \in ResetCalls /\ reset[c].step = "idle" /\ reset'[c].step = "setting" /\ c \notin Checks /\ c \notin Askings
      /\ v \in tokens /\ tokens' = tokens \ {v} /\ UNCHANGED <<flow, inbox, password, overlapped, shared>>
      /\ \A d \in ResetCalls \ {c} : reset'[d] = reset[d]
  BY ResetAssumption DEF TakeToken, Step, ResetInv, ResetShapes, ResetRows, Flows, ResetCalls
<1>b. Traded' = Traded
  BY <1>a DEF Traded, ResetCalls
<1>c. Setting' = Setting \cup {c} /\ c \notin Setting
  BY <1>a DEF Setting, ResetCalls
<1>d. \A q \in Askings : Missed(q)' = Missed(q)
  BY <1>a DEF Missed, ResetCalls
<1>e. flow \in Flows /\ \A x \in Checks : reset[x].flow \in Flows
  BY DEF ResetInv, ResetShapes, ResetRows, ResetCalls
<1>1. ResetShapes'
  <2>1. flow' \in Flows
    BY <1>a, ResetAssumption DEF ResetInv, ResetShapes, Flows, NoFlow
  <2>2. reset' \in [ResetCalls -> ResetRows]
    <3>1. reset' = [reset EXCEPT ![c].step = "setting"] /\ reset \in [ResetCalls -> ResetRows] /\ c \in ResetCalls
      BY <1>a DEF ResetInv, ResetShapes, TakeToken, Step
    <3>2. [reset[c] EXCEPT !.step = "setting"] \in ResetRows
      BY <3>1 DEF ResetRows
    <3> QED BY <3>1, <3>2
  <2>3. inbox' \in Seq(Askings) /\ tokens' \subseteq Checks /\ password' \in Nat
    BY <1>a, AppendProperties DEF ResetInv, ResetShapes
  <2> QED BY <2>1, <2>2, <2>3, <1>a, ResetAssumption DEF ResetInv, ResetShapes, ResetCalls
<1>2. CodesWereStored'
  BY <1>a DEF ResetInv, CodesWereStored, Checked, ResetCalls
<1>3. SenderIsAlone'
  BY <1>a DEF ResetInv, SenderIsAlone, Busy, ResetCalls
<1>4. WillBeTold'
  BY <1>a DEF ResetInv, CodesWereStored, WillBeTold, Told, Read, Checked, ResetCalls
<1>5. OneHasIt'
  BY <1>a DEF ResetInv, OneHasIt, ResetCalls
<1>6. TradedIsDropped'
  BY <1>a DEF ResetInv, Traded, TradedIsDropped, ResetCalls
<1>7. TradedOnce'
  BY <1>a DEF ResetInv, Traded, TradedOnce, ResetCalls
<1>8. PasswordsAreTraded'
  <2>1. v \in tokens /\ tokens' = tokens \ {v} /\ IsFiniteSet(tokens) /\ IsFiniteSet(Setting)
    BY <1>a, <1>b DEF ResetInv, PasswordsAreTraded
  <2>2. /\ IsFiniteSet(tokens') /\ Cardinality(tokens') = Cardinality(tokens) - 1
        /\ IsFiniteSet(Setting') /\ Cardinality(Setting') = Cardinality(Setting) + 1
    BY <2>1, <1>c, FS_AddElement, FS_RemoveElement
  <2>3. Cardinality(tokens) \in Nat /\ Cardinality(Setting) \in Nat /\ Cardinality(Traded) \in Nat
    BY FS_CardinalityType DEF ResetInv, PasswordsAreTraded
  <2> QED BY <2>1, <2>2, <2>3, <1>a, <1>b, <1>c DEF ResetInv, ResetShapes, PasswordsAreTraded
<1>9. MissesAreKnown'
  <2> SUFFICES ASSUME NEW q \in Askings
               PROVE  /\ IsFiniteSet(Missed(q)')
                      /\ flow'.code = q /\ q \notin shared' => flow'.attempts = Cardinality(Missed(q)')
                      /\ \A w \in Read' : reset'[w].flow.code = q /\ q \notin shared' =>
                             reset'[w].flow.attempts = Cardinality(Missed(q)')
    BY DEF MissesAreKnown
  <2>1. IsFiniteSet(Missed(q)')
    BY <1>d, FS_AddElement DEF ResetInv, MissesAreKnown
  <2>2. flow'.code = q /\ q \notin shared' => flow'.attempts = Cardinality(Missed(q)')
    BY <1>a, <1>d, ResetAssumption DEF ResetInv, MissesAreKnown, NoFlow
  <2>3. ASSUME NEW w \in Read', reset'[w].flow.code = q, q \notin shared'
        PROVE  reset'[w].flow.attempts = Cardinality(Missed(q)')
    <3>1. CASE w \in Read /\ reset'[w] = reset[w] /\ shared' = shared
      BY <3>1, <2>3, <1>a, <1>d, ResetAssumption DEF ResetInv, MissesAreKnown
    <3> QED BY <3>1, <2>3, <1>a, <1>d, ResetAssumption DEF ResetInv, MissesAreKnown, Read, ResetCalls
  <2> QED BY <2>1, <2>2, <2>3
<1> QED BY <1>1, <1>2, <1>3, <1>4, <1>5, <1>6, <1>7, <1>8, <1>9 DEF ResetInv

LEMMA SetPasswordKeeps ==
    ASSUME ResetInv, NEW c \in Confirmations, NEW accepted \in BOOLEAN, SetPassword(c, accepted)
    PROVE  ResetInv'
<1>a. /\ c \in ResetCalls /\ reset[c].step = "setting" /\ reset'[c].step = "done" /\ c \notin Checks /\ c \notin Askings
      /\ password' \in Nat /\ password' <= password + 1 /\ UNCHANGED <<flow, tokens, inbox, overlapped, shared>>
      /\ \A d \in ResetCalls \ {c} : reset'[d] = reset[d]
  BY ResetAssumption DEF SetPassword, Step, ResetInv, ResetShapes, ResetRows, Flows, ResetCalls
<1>b. Traded' = Traded
  BY <1>a DEF Traded, ResetCalls
<1>c. Setting' = Setting \ {c} /\ c \in Setting
  BY <1>a DEF Setting, ResetCalls
<1>d. \A q \in Askings : Missed(q)' = Missed(q)
  BY <1>a DEF Missed, ResetCalls
<1>e. flow \in Flows /\ \A x \in Checks : reset[x].flow \in Flows
  BY DEF ResetInv, ResetShapes, ResetRows, ResetCalls
<1>1. ResetShapes'
  <2>1. flow' \in Flows
    BY <1>a, ResetAssumption DEF ResetInv, ResetShapes, Flows, NoFlow
  <2>2. reset' \in [ResetCalls -> ResetRows]
    BY <1>a, ResetAssumption DEF SetPassword, Step, ResetInv, ResetShapes, ResetRows, Flows, ResetCalls, NoFlow
  <2>3. inbox' \in Seq(Askings) /\ tokens' \subseteq Checks /\ password' \in Nat
    BY <1>a, AppendProperties DEF ResetInv, ResetShapes
  <2> QED BY <2>1, <2>2, <2>3, <1>a, ResetAssumption DEF ResetInv, ResetShapes, ResetCalls
<1>2. CodesWereStored'
  <2>1. \A d \in Checks \cup Askings : reset'[d] = reset[d]
    BY <1>a, ResetAssumption DEF ResetCalls
  <2> QED BY <1>a, <2>1 DEF ResetInv, CodesWereStored, Checked
<1>3. SenderIsAlone'
  BY <1>a DEF ResetInv, SenderIsAlone, Busy, ResetCalls
<1>4. WillBeTold'
  BY <1>a DEF ResetInv, CodesWereStored, WillBeTold, Told, Read, Checked, ResetCalls
<1>5. OneHasIt'
  BY <1>a DEF ResetInv, OneHasIt, ResetCalls
<1>6. TradedIsDropped'
  BY <1>a DEF ResetInv, Traded, TradedIsDropped, ResetCalls
<1>7. TradedOnce'
  BY <1>a DEF ResetInv, Traded, TradedOnce, ResetCalls
<1>8. PasswordsAreTraded'
  <2>1. IsFiniteSet(tokens) /\ IsFiniteSet(Setting)
    BY DEF ResetInv, PasswordsAreTraded
  <2>2. IsFiniteSet(Setting') /\ Cardinality(Setting') = Cardinality(Setting) - 1
    BY <2>1, <1>c, FS_RemoveElement
  <2>3. Cardinality(tokens) \in Nat /\ Cardinality(Setting) \in Nat /\ Cardinality(Traded) \in Nat
    BY FS_CardinalityType DEF ResetInv, PasswordsAreTraded
  <2> QED BY <2>1, <2>2, <2>3, <1>a, <1>b, <1>c DEF ResetInv, ResetShapes, PasswordsAreTraded
<1>9. MissesAreKnown'
  <2> SUFFICES ASSUME NEW q \in Askings
               PROVE  /\ IsFiniteSet(Missed(q)')
                      /\ flow'.code = q /\ q \notin shared' => flow'.attempts = Cardinality(Missed(q)')
                      /\ \A w \in Read' : reset'[w].flow.code = q /\ q \notin shared' =>
                             reset'[w].flow.attempts = Cardinality(Missed(q)')
    BY DEF MissesAreKnown
  <2>1. IsFiniteSet(Missed(q)')
    BY <1>d, FS_AddElement DEF ResetInv, MissesAreKnown
  <2>2. flow'.code = q /\ q \notin shared' => flow'.attempts = Cardinality(Missed(q)')
    BY <1>a, <1>d, ResetAssumption DEF ResetInv, MissesAreKnown, NoFlow
  <2>3. ASSUME NEW w \in Read', reset'[w].flow.code = q, q \notin shared'
        PROVE  reset'[w].flow.attempts = Cardinality(Missed(q)')
    <3>1. CASE w \in Read /\ reset'[w] = reset[w] /\ shared' = shared
      BY <3>1, <2>3, <1>a, <1>d, ResetAssumption DEF ResetInv, MissesAreKnown
    <3> QED BY <3>1, <2>3, <1>a, <1>d, ResetAssumption DEF ResetInv, MissesAreKnown, Read, ResetCalls
  <2> QED BY <2>1, <2>2, <2>3
<1> QED BY <1>1, <1>2, <1>3, <1>4, <1>5, <1>6, <1>7, <1>8, <1>9 DEF ResetInv

\* Whatever only drops the code or a token, while a check that is none comes or goes.
LEMMA DroppingKeeps ==
    ASSUME ResetInv, flow' \in {flow, NoFlow}, tokens' \subseteq tokens,
           UNCHANGED <<inbox, password, overlapped, shared>>,
           reset' \in [ResetCalls -> ResetRows],
           \A c \in ResetCalls :
               \/ reset'[c] = reset[c]
               \/ c \in Checks /\ {reset[c].step, reset'[c].step} = {"idle", "strayed"}
    PROVE  ResetInv'
<1>a. /\ UNCHANGED <<inbox, password, overlapped, shared>>
      /\ flow' = flow \/ flow' = NoFlow
      /\ \A c \in ResetCalls : \/ reset'[c] = reset[c]
                              \/ /\ c \in Checks /\ reset[c].step \in {"idle", "strayed"}
                                 /\ reset'[c].step \in {"idle", "strayed"}
  OBVIOUS
<1>b. \A c \in Askings \cup Confirmations : c \in ResetCalls /\ c \notin Checks /\ reset'[c] = reset[c]
  BY <1>a, ResetAssumption DEF ResetCalls
<1>c. \A v \in Checks :
          v \in ResetCalls
          /\ (reset[v].step \notin {"idle", "strayed"} \/ reset'[v].step \notin {"idle", "strayed"}
                => reset'[v] = reset[v])
  BY <1>a DEF ResetCalls
<1>d. Traded' = Traded /\ Setting' = Setting /\ Read' = Read /\ Checked' = Checked /\ Busy' = Busy
  <2>1. Traded' = Traded
    BY <1>c DEF Traded
  <2>2. Setting' = Setting
    BY <1>b DEF Setting
  <2>3. Read' = Read
    BY <1>c DEF Read
  <2>4. Checked' = Checked
    BY <1>c DEF Checked
  <2>5. Busy' = Busy
    BY <1>b, <1>c DEF Busy
  <2> QED BY <2>1, <2>2, <2>3, <2>4, <2>5
<1>e. \A q \in Askings : Missed(q)' = Missed(q)
  BY <1>c DEF Missed
<1>1. ResetShapes'
  <2>1. flow' \in Flows
    BY <1>a, ResetAssumption DEF ResetInv, ResetShapes, Flows, NoFlow
  <2>2. \A r \in Askings : reset'[r].step \in {"idle", "sending", "done"}
    BY <1>b DEF ResetInv, ResetShapes
  <2>3. \A v \in Checks : /\ reset'[v].step \in {"idle", "strayed", "read", "traded", "done"}
                          /\ reset'[v].step = "traded" => reset'[v].typed = reset'[v].flow.code
    BY <1>c DEF ResetInv, ResetShapes
  <2>4. \A c \in Confirmations : reset'[c].step \in {"idle", "setting", "done"}
    BY <1>b DEF ResetInv, ResetShapes
  <2> QED BY <2>1, <2>2, <2>3, <2>4, <1>a DEF ResetInv, ResetShapes
<1>2. CodesWereStored'
  <2>1. \A v \in Checked' : v \in Checked /\ reset'[v] = reset[v]
    BY <1>c, <1>d DEF Checked
  <2>2. \A r \in Askings : reset'[r] = reset[r]
    BY <1>b
  <2> QED BY <2>1, <2>2, <1>a DEF ResetInv, CodesWereStored
<1>3. SenderIsAlone'
  BY <1>a, <1>b, <1>d DEF ResetInv, SenderIsAlone
<1>4. WillBeTold'
  <2>1. \A v \in Read' : v \in Read /\ v \in Checked /\ reset'[v] = reset[v]
    BY <1>c, <1>d DEF Read, Checked
  <2>2. \A r \in Askings : reset'[r] = reset[r]
    BY <1>b
  <2>3. /\ flow # NoFlow => flow.code \in Askings
        /\ \A v \in Checked : reset[v].flow.code \in Askings
    BY DEF ResetInv, CodesWereStored
  <2> QED BY <2>1, <2>2, <2>3, <1>a DEF ResetInv, WillBeTold, Told
<1>5. OneHasIt'
  BY <1>a, <1>c DEF ResetInv, OneHasIt
<1>6. TradedIsDropped'
  <2>1. \A v \in Traded : v \in Checked /\ reset'[v] = reset[v] /\ reset[v].flow.code # NoCode
    BY <1>c, ResetAssumption DEF Traded, Checked, ResetInv, CodesWereStored
  <2> QED BY <2>1, <1>a, <1>c, <1>d DEF ResetInv, TradedIsDropped, NoFlow
<1>7. TradedOnce'
  <2>1. \A v \in Traded : reset'[v] = reset[v]
    BY <1>c DEF Traded
  <2> QED BY <2>1, <1>a, <1>d DEF ResetInv, TradedOnce
<1>8. PasswordsAreTraded'
  <2>1. IsFiniteSet(tokens) /\ IsFiniteSet(Setting)
    BY DEF ResetInv, PasswordsAreTraded
  <2>2. IsFiniteSet(tokens') /\ Cardinality(tokens') <= Cardinality(tokens)
    BY <2>1, FS_Subset
  <2>3. /\ Cardinality(tokens) \in Nat /\ Cardinality(tokens') \in Nat /\ Cardinality(Setting) \in Nat
        /\ Cardinality(Traded) \in Nat
    BY <2>1, <2>2, FS_CardinalityType DEF ResetInv, PasswordsAreTraded
  <2> QED BY <2>1, <2>2, <2>3, <1>a, <1>d DEF ResetInv, ResetShapes, PasswordsAreTraded
<1>9. MissesAreKnown'
  <2> SUFFICES ASSUME NEW q \in Askings
               PROVE  /\ IsFiniteSet(Missed(q)')
                      /\ flow'.code = q /\ q \notin shared' => flow'.attempts = Cardinality(Missed(q)')
                      /\ \A w \in Read' : reset'[w].flow.code = q /\ q \notin shared' =>
                             reset'[w].flow.attempts = Cardinality(Missed(q)')
    BY DEF MissesAreKnown
  <2>1. IsFiniteSet(Missed(q)')
    BY <1>e DEF ResetInv, MissesAreKnown
  <2>2. flow'.code = q /\ q \notin shared' => flow'.attempts = Cardinality(Missed(q)')
    BY <1>a, <1>e, ResetAssumption DEF ResetInv, MissesAreKnown, NoFlow
  <2>3. \A w \in Read' : w \in Read /\ reset'[w] = reset[w]
    BY <1>c, <1>d DEF Read
  <2>4. \A w \in Read' : reset'[w].flow.code = q /\ q \notin shared' =>
            reset'[w].flow.attempts = Cardinality(Missed(q)')
    BY <2>3, <1>a, <1>e DEF ResetInv, MissesAreKnown
  <2> QED BY <2>1, <2>2, <2>4
<1> QED BY <1>1, <1>2, <1>3, <1>4, <1>5, <1>6, <1>7, <1>8, <1>9 DEF ResetInv

LEMMA StrayKeeps ==
    ASSUME ResetInv, NEW v \in Checks, ReadStray(v) \/ DropStray(v)
    PROVE  ResetInv'
<1>1. v \in ResetCalls /\ reset \in [ResetCalls -> ResetRows]
  BY DEF ResetInv, ResetShapes, ResetCalls
<1>2. /\ flow' \in {flow, NoFlow} /\ UNCHANGED <<tokens, inbox, password, overlapped, shared>>
      /\ \/ reset[v].step = "idle" /\ reset' = [reset EXCEPT ![v].step = "strayed"]
         \/ reset[v].step = "strayed" /\ reset' = [reset EXCEPT ![v].step = "idle"]
  BY DEF ReadStray, DropStray, Step
<1>3. /\ [reset[v] EXCEPT !.step = "strayed"] \in ResetRows
      /\ [reset[v] EXCEPT !.step = "idle"] \in ResetRows
  BY <1>1 DEF ResetRows
<1>4. reset' \in [ResetCalls -> ResetRows]
  BY <1>1, <1>2, <1>3
<1>5. \A c \in ResetCalls \ {v} : reset'[c] = reset[c]
  BY <1>1, <1>2
<1>6. {reset[v].step, reset'[v].step} = {"idle", "strayed"}
  BY <1>1, <1>2 DEF ResetRows
<1> QED BY <1>2, <1>4, <1>5, <1>6, DroppingKeeps

LEMMA ExpiryKeeps ==
    ASSUME ResetInv, FlowExpires \/ \E v \in Checks : TokenExpires(v)
    PROVE  ResetInv'
<1>1. /\ flow' \in {flow, NoFlow} /\ tokens' \subseteq tokens
      /\ UNCHANGED <<inbox, reset, password, overlapped, shared>>
  BY DEF FlowExpires, TokenExpires
<1>2. reset' \in [ResetCalls -> ResetRows]
  BY <1>1 DEF ResetInv, ResetShapes
<1> QED BY <1>1, <1>2, DroppingKeeps

\* Nothing a call knows of changes when nothing happens.
LEMMA ResetStutters ==
    ASSUME ResetInv, UNCHANGED resetVars
    PROVE  ResetInv'
<1>1. ResetShapes' /\ CodesWereStored' /\ SenderIsAlone' /\ WillBeTold' /\ OneHasIt'
  BY DEF resetVars, ResetInv, ResetShapes, CodesWereStored, SenderIsAlone, WillBeTold, Told, Read,
         Checked, OneHasIt, Busy
<1>2. TradedIsDropped' /\ TradedOnce' /\ PasswordsAreTraded'
  BY DEF resetVars, ResetInv, Traded, TradedIsDropped, TradedOnce, PasswordsAreTraded, Setting
<1>3. MissesAreKnown'
  <2>1. Read' = Read /\ \A r \in Askings : Missed(r)' = Missed(r)
    BY DEF resetVars, Read, Missed
  <2> QED BY <2>1 DEF resetVars, ResetInv, MissesAreKnown
<1> QED BY <1>1, <1>2, <1>3 DEF ResetInv

LEMMA ResetBegins == ResetInit => ResetInv
<1> SUFFICES ASSUME ResetInit PROVE ResetInv
  OBVIOUS
<1>1. /\ flow = NoFlow /\ tokens = {} /\ inbox = <<>> /\ password = 0
      /\ \A c \in ResetCalls : reset[c] = Resting
  BY DEF ResetInit
<1>2. Read = {} /\ Checked = {} /\ Traded = {} /\ Setting = {} /\ \A r \in Askings : Missed(r) = {}
  BY <1>1 DEF Read, Checked, Traded, Setting, Missed, ResetCalls, Resting
<1>3. NoFlow \in Flows /\ Resting \in ResetRows
  BY ResetAssumption DEF NoFlow, Flows, Resting, ResetRows
<1>4. ResetShapes
  BY <1>1, <1>3, EmptySeq DEF ResetInit, ResetShapes, ResetCalls, Resting
<1>5. PasswordsAreTraded
  BY <1>1, <1>2, FS_EmptySet DEF PasswordsAreTraded
<1>6. MissesAreKnown
  BY <1>1, <1>2, FS_EmptySet, ResetAssumption DEF MissesAreKnown, NoFlow
<1> QED BY <1>1, <1>2, <1>4, <1>5, <1>6
        DEF ResetInv, CodesWereStored, SenderIsAlone, WillBeTold, OneHasIt, TradedIsDropped, TradedOnce,
            ResetCalls, Resting

LEMMA ResetInvHolds == ResetSpec => []ResetInv
<1>1. ASSUME ResetInv, [ResetNext]_resetVars
      PROVE  ResetInv'
  <2>1. CASE \E r \in Askings : StoreCode(r) \/ SendCode(r) \/ SendingFails(r)
    BY <1>1, <2>1, StoreCodeKeeps, SendCodeKeeps, SendingFailsKeeps
  <2>2. CASE \E v \in Checks : \/ CountMismatch(v) \/ TradeCode(v) \/ DropCode(v)
                               \/ ReadStray(v) \/ DropStray(v) \/ TokenExpires(v)
                               \/ \E typed \in Askings \cup {Wrong} : ReadFlow(v, typed)
    BY <1>1, <2>2, CountMismatchKeeps, TradeCodeKeeps, DropCodeKeeps, ReadFlowKeeps, StrayKeeps, ExpiryKeeps
  <2>3. CASE \E c \in Confirmations : \/ \E v \in Checks : TakeToken(c, v)
                                      \/ \E accepted \in BOOLEAN : SetPassword(c, accepted)
    BY <1>1, <2>3, TakeTokenKeeps, SetPasswordKeeps
  <2>4. CASE FlowExpires
    BY <1>1, <2>4, ExpiryKeeps
  <2> QED BY <1>1, <2>1, <2>2, <2>3, <2>4, ResetStutters DEF ResetNext
<1> QED BY <1>1, ResetBegins, PTL DEF ResetSpec

\* One password for a code: whoever traded a code that is not shared traded it alone.
LEMMA TradesAreOfCodes ==
    ASSUME ResetInv, shared = {}
    PROVE  Cardinality({r \in Askings : TradedBy(r) # {}}) = Cardinality(Traded)
<1> DEFINE codes == {r \in Askings : TradedBy(r) # {}}
           codeOf == [v \in Traded |-> reset[v].flow.code]
<1>0. \A v, w \in Traded : reset[v].flow.code = reset[w].flow.code => v = w
  BY DEF ResetInv, TradedOnce
<1>1. \A v \in Traded : reset[v].flow.code \in Askings /\ v \in TradedBy(reset[v].flow.code)
  BY DEF ResetInv, CodesWereStored, Checked, Traded, TradedBy
<1>2. \A r \in codes : \E v \in Traded : codeOf[v] = r
  BY DEF Traded, TradedBy
<1>3. codeOf \in [Traded -> codes]
  BY <1>1
<1>4. codeOf \in Surjection(Traded, codes)
  BY <1>2, <1>3 DEF Surjection
<1>5. codeOf \in Injection(Traded, codes)
  BY <1>0, <1>3 DEF Injection, IsInjective
<1>6. IsFiniteSet(Traded)
  BY DEF ResetInv, PasswordsAreTraded
<1>7. IsFiniteSet(codes) /\ Cardinality(codes) = Cardinality(Traded)
  <2> HIDE DEF codes, codeOf
  <2> QED BY <1>4, <1>5, <1>6, FS_Surjection
<1> QED BY <1>7

\* The newest code counts, a code sets one password and every mismatch counts,
\* however the calls of any number of resets overlap (NewestCodeCounts,
\* CodesAreUsedOnce, MismatchesAreCounted).
THEOREM OrderlyResets == ResetSpec => []ResetIsOrderly
<1>1. ASSUME ResetInv
      PROVE  NewestCodeCounts
  BY <1>1 DEF ResetInv, WillBeTold, Told, CodesWereStored, NewestCodeCounts, Busy, NoFlow,
              ResetShapes
<1>2. ASSUME ResetInv
      PROVE  CodesAreUsedOnce
  <2>1. ASSUME NEW r \in Askings, r \notin shared
        PROVE  Cardinality(TradedBy(r)) <= 1
    <3>1. TradedBy(r) \subseteq Traded /\ \A v, w \in TradedBy(r) : v = w
      BY <1>2, <2>1 DEF ResetInv, TradedOnce, Traded, TradedBy
    <3>2. CASE TradedBy(r) = {}
      BY <3>2, FS_EmptySet
    <3>3. ASSUME NEW v \in TradedBy(r)
          PROVE  Cardinality(TradedBy(r)) <= 1
      <4>1. \A w : w \in TradedBy(r) <=> w = v
        BY <3>1, <3>3
      <4>2. TradedBy(r) = {v}
        BY <4>1
      <4>3. Cardinality(TradedBy(r)) = 1
        BY <4>2, FS_Singleton, Zenon
      <4> QED BY <4>3
    <3> QED BY <3>2, <3>3
  <2>2. ASSUME shared = {}
        PROVE  password <= Cardinality({r \in Askings : TradedBy(r) # {}})
    <3>1. /\ Cardinality(tokens) \in Nat /\ Cardinality(Setting) \in Nat /\ Cardinality(Traded) \in Nat
          /\ password \in Nat
      BY <1>2, FS_CardinalityType DEF ResetInv, PasswordsAreTraded, ResetShapes
    <3>2. password <= Cardinality(Traded)
      BY <1>2, <3>1 DEF ResetInv, PasswordsAreTraded
    <3> QED BY <1>2, <2>2, <3>1, <3>2, TradesAreOfCodes
  <2> QED BY <2>1, <2>2 DEF CodesAreUsedOnce
<1>3. ASSUME ResetInv
      PROVE  MismatchesAreCounted
  <2> SUFFICES ASSUME flow # NoFlow, flow.code \notin shared
               PROVE  flow.attempts = Cardinality(Missed(flow.code))
    BY DEF MismatchesAreCounted, Missed
  <2> QED BY <1>3 DEF ResetInv, CodesWereStored, MissesAreKnown
<1> QED BY <1>1, <1>2, <1>3, ResetInvHolds, PTL DEF ResetIsOrderly

\* The flow, the tokens, the codes that arrived and what each call holds are of their
\* kind, for any number of resets (password-reset.service.ts).
THEOREM ResetTypes == ResetSpec => []ResetTypeOK
<1>1. ResetInv => ResetTypeOK
  <2> SUFFICES ASSUME ResetInv PROVE ResetTypeOK
    OBVIOUS
  <2>1. \A c \in ResetCalls : reset[c] \in ResetRows
    BY DEF ResetInv, ResetShapes
  <2> QED BY <2>1 DEF ResetInv, ResetShapes, ResetRows, Flows, ResetTypeOK
<1> QED BY <1>1, ResetInvHolds, PTL

-----------------------------------------------------------------------------
\* Registration. Who writes the user at the provider holds the row of the
\* code or has lost it; a channel is passed with digits that were sent to its
\* contact.

Registering == {"phone", "judging phone", "email", "judging email", "checked",
                "begun", "user", "password", "contacts", "dropping"}
Places == {"idle", "over", "found", "filling", "sending", "judging"} \cup Registering
CallRows == [at : Places, code : Codes \cup {Nil}, to : Contacts \cup {Nil},
             digits : Sends \cup {Mistyped}, read : Verification \cup {Nil}]

ActivationShapes ==
    /\ slip \in [code : Codes, lookup : Codes \cup {Nil}, dated : BOOLEAN, expired : BOOLEAN, used : BOOLEAN]
    /\ proof \in [Codes -> [Kinds -> Verification \cup {Nil}]]
    /\ received \subseteq Sends /\ proven \subseteq received /\ strays \subseteq Completions
    /\ heldBy \in Completions \cup {Nil} /\ account \in Completions \cup {Nil}
    /\ login \in [{"email", "phone", "password"} -> Completions \cup {Nil}]
    /\ crossedFill \in BOOLEAN /\ mishaps \in 0..MaxMishaps
    /\ call \in [Callers \cup Issues -> CallRows]

\* A call under way was made with a code, and is at a place of its own method.
OfAKind(c) ==
    /\ call[c].at \notin {"idle", "over"} => call[c].code \in Codes
    /\ call[c].at \in {"idle", "over"} \cup
           IF c \in Completions THEN Registering ELSE {"found", "filling", "sending", "judging"}

CallsAreOfAKind == \A c \in Callers : OfAKind(c)

\* A flow, stored or in somebody's hands, has digits that were made for its contact, and
\* says verified only of digits that somebody has entered.
GroundedIn(f, P) == f # Nil => SendTo[f.digits] = f.to /\ (f.verified => f.digits \in P)
Grounded(f) == GroundedIn(f, proven)

FlowsAreGrounded ==
    /\ \A c \in Codes, k \in Kinds :
           Grounded(proof[c][k]) /\ (proof[c][k] # Nil => Kind[proof[c][k].to] = k)
    /\ \A c \in Callers : Grounded(call[c].read)

\* What is judged was typed for a contact and, if not wrong, has arrived.
Entered(c) ==
    Judging(c) =>
        /\ call[c].to \in Contacts /\ call[c].digits \in received \cup {Mistyped}
        /\ At(c, "judging phone") => call[c].to = Typed[c]["phone"]
        /\ At(c, "judging email") => call[c].to = Typed[c]["email"]

EntriesAreReal == \A c \in Callers : Entered(c)

\* A registration passes a channel when its contact was shown to be the person's.
Shown(d, k) == \E s \in proven : SendTo[s] = Typed[d][k]

Passed(d) ==
    /\ call[d].at \in Registering \ {"phone", "judging phone"} \/ account = d => Shown(d, "phone")
    /\ call[d].at \in InTransaction \cup {"checked", "dropping"} \/ account = d => Shown(d, "email")

PassedAreShown == \A d \in Completions : Passed(d)

\* Who is in a transaction holds the row or has lost it; a row that is held is unused,
\* and a used one is of the registration recorded.
RowIsHeld ==
    /\ \A d \in Completions : call[d].at \in InTransaction => heldBy = d \/ d \in strays
    /\ heldBy # Nil => /\ call[heldBy].at \in InTransaction /\ ~slip.used
                       /\ call[heldBy].code = slip.code
    /\ slip.used <=> account # Nil
    /\ account # Nil => call[account].at \in {"dropping", "over"} /\ call[account].code = slip.code

\* What the holder of the row has written at the provider is still his, or a stray's.
HoldersLogin ==
    heldBy # Nil =>
        LET own == {heldBy} \cup strays
            at == call[heldBy].at
        IN  /\ at \in {"user", "password", "contacts"} => login.email \in own
            /\ at \in {"password", "contacts"} => login.password \in own
            /\ at = "contacts" => login.phone \in own

LoginIsOwn == HoldersLogin /\ LoginIsTheAccounts

ActivationInv ==
    /\ ActivationShapes /\ CallsAreOfAKind /\ FlowsAreGrounded /\ EntriesAreReal
    /\ PassedAreShown /\ RowIsHeld /\ LoginIsOwn /\ LookupFindsTheCode

\* What Move does to the calls.
Moved(c, place) ==
    /\ call' \in [Callers \cup Issues -> CallRows]
    /\ call'[c].at = place /\ call'[c].code = call[c].code /\ call'[c].read = Nil
    /\ \A e \in (Callers \cup Issues) \ {c} : call'[e] = call[e]

LEMMA Moving ==
    ASSUME ActivationShapes, NEW c \in Callers \cup Issues, NEW place \in Places, Move(c, place)
    PROVE  Moved(c, place)
<1>1. /\ call' \in [Callers \cup Issues -> CallRows]
      /\ call'[c] = [at |-> place, code |-> call[c].code, to |-> Nil, digits |-> Mistyped, read |-> Nil]
      /\ \A e \in (Callers \cup Issues) \ {c} : call'[e] = call[e]
  BY DEF Move, NotCalled, ActivationShapes, CallRows
<1> QED BY <1>1 DEF Moved

\* A call outside the transaction moves.
LEMMA Aside ==
    ASSUME ActivationInv, NEW c \in Callers,
           slip'.used = slip.used, slip'.code = slip.code,
           UNCHANGED <<heldBy, login, account, strays>>,
           received \subseteq received', proven \subseteq proven',
           \A e \in Callers \ {c} : call'[e] = call[e],
           call[c].at \notin InTransaction, call'[c].at \notin InTransaction,
           account = c => call'[c].at \in {"dropping", "over"} /\ call'[c].code = call[c].code,
           OfAKind(c)', Entered(c)', c \in Completions => Passed(c)'
    PROVE  CallsAreOfAKind' /\ EntriesAreReal' /\ PassedAreShown' /\ RowIsHeld' /\ LoginIsOwn'
<1>1. CallsAreOfAKind'
  BY DEF ActivationInv, CallsAreOfAKind, OfAKind
<1>2. EntriesAreReal'
  <2> SUFFICES ASSUME NEW e \in Callers \ {c} PROVE Entered(e)'
    BY DEF EntriesAreReal
  <2> QED BY DEF ActivationInv, EntriesAreReal, Entered, Judging, At
<1>3. PassedAreShown'
  <2> SUFFICES ASSUME NEW e \in Completions, e # c PROVE Passed(e)'
    BY DEF PassedAreShown
  <2>1. call'[e] = call[e] /\ Passed(e)
    BY DEF ActivationInv, PassedAreShown, Callers
  <2> QED BY <2>1 DEF Passed, Shown
<1>4. heldBy # Nil => heldBy \in Completions \ {c} /\ call'[heldBy] = call[heldBy]
  BY DEF ActivationInv, ActivationShapes, RowIsHeld, Callers
<1>5. account # Nil => account \in Completions /\ (account # c => call'[account] = call[account])
  BY DEF ActivationInv, ActivationShapes, Callers
<1>6. RowIsHeld'
  <2>1. \A d \in Completions : call'[d].at \in InTransaction => call'[d] = call[d]
    BY DEF Callers
  <2>2. account # Nil => call'[account].at \in {"dropping", "over"} /\ call'[account].code = slip'.code
    BY <1>5 DEF ActivationInv, RowIsHeld
  <2> QED BY <1>4, <2>1, <2>2 DEF ActivationInv, RowIsHeld
<1>7. LoginIsOwn'
  BY <1>4 DEF ActivationInv, LoginIsOwn, HoldersLogin, LoginIsTheAccounts
<1> QED BY <1>1, <1>2, <1>3, <1>6, <1>7

\* A registration that is in its transaction goes on there, or leaves it without a commit.
LEMMA Within ==
    ASSUME ActivationInv, NEW d \in Completions, NEW place \in {"user", "password", "contacts", "over"},
           Moved(d, place), call[d].at \in InTransaction,
           UNCHANGED <<slip, proof, received, account, proven, strays>>,
           \/ heldBy' = heldBy /\ (heldBy = d => place # "over")
           \/ heldBy = d /\ heldBy' = Nil /\ place = "over"
    PROVE  CallsAreOfAKind' /\ FlowsAreGrounded' /\ EntriesAreReal' /\ PassedAreShown' /\ RowIsHeld'
<1>0. d \in Callers /\ \A e \in Callers \ {d} : call'[e] = call[e]
  BY DEF Moved, Callers
<1>1. CallsAreOfAKind'
  <2>1. OfAKind(d)'
    BY <1>0 DEF ActivationInv, CallsAreOfAKind, OfAKind, Moved, InTransaction, Registering
  <2> QED BY <1>0, <2>1 DEF ActivationInv, CallsAreOfAKind, OfAKind
<1>2. FlowsAreGrounded'
  <2>1. \A e \in Callers : Grounded(call'[e].read)
    BY <1>0 DEF ActivationInv, FlowsAreGrounded, Moved, Grounded, GroundedIn
  <2> QED BY <2>1 DEF ActivationInv, FlowsAreGrounded, Grounded, GroundedIn
<1>3. EntriesAreReal'
  BY <1>0 DEF ActivationInv, EntriesAreReal, Entered, Judging, At, Moved
<1>4. PassedAreShown'
  <2>1. Passed(d)'
    BY DEF ActivationInv, PassedAreShown, Passed, Shown, Moved, InTransaction, Registering
  <2> QED BY <1>0, <2>1 DEF ActivationInv, PassedAreShown, Passed, Shown, Callers
<1>5. RowIsHeld'
  <2>0. account # d /\ (account # Nil => account \in Completions)
    BY ActivationAssumption DEF ActivationInv, ActivationShapes, RowIsHeld, InTransaction, Callers
  <2>1. account # Nil => call'[account] = call[account]
    BY <1>0, <2>0 DEF Callers
  <2>2. heldBy' # Nil => /\ heldBy' = heldBy /\ call'[heldBy].code = call[heldBy].code
                         /\ call'[heldBy].at \in InTransaction
    <3>1. heldBy # Nil /\ heldBy # d => call'[heldBy] = call[heldBy]
      BY <1>0 DEF ActivationInv, ActivationShapes, Callers
    <3> QED BY <3>1 DEF ActivationInv, RowIsHeld, Moved, InTransaction
  <2>3. \A e \in Completions : call'[e].at \in InTransaction => heldBy' = e \/ e \in strays'
    BY <1>0 DEF ActivationInv, RowIsHeld, Moved, InTransaction, Callers
  <2> QED BY <2>1, <2>2, <2>3 DEF ActivationInv, RowIsHeld
<1> QED BY <1>1, <1>2, <1>3, <1>4, <1>5

LEMMA OneMoreTry ==
    ASSUME NEW h \in Verification, ~(h.tries + 1 >= MaxTries)
    PROVE  [h EXCEPT !.tries = @ + 1] \in Verification
<1>1. h.tries \in 0 .. MaxTries /\ MaxTries \in Nat
  BY ActivationAssumption DEF Verification
<1>2. h.tries + 1 \in 0 .. MaxTries
  BY <1>1
<1> QED BY <1>2 DEF Verification

LEMMA IssueKeeps ==
    ASSUME ActivationInv, NEW i \in Issues, Issue(i)
    PROVE  ActivationInv'
<1>s. ActivationShapes /\ account = Nil /\ heldBy = Nil /\ i \in Codes
  BY DEF ActivationInv, RowIsHeld, Issue, Codes
<1>m. Moved(i, "over")
  BY <1>s, Moving DEF Places, Issue
<1>0. \A c \in Callers : call'[c] = call[c]
  BY <1>m, ActivationAssumption DEF Moved
<1>1. ActivationShapes'
  BY <1>s, <1>m DEF ActivationShapes, Moved, Issue
<1>2. CallsAreOfAKind' /\ FlowsAreGrounded' /\ EntriesAreReal' /\ PassedAreShown'
  <2>0. UNCHANGED <<proof, proven, account, received>>
    BY DEF Issue
  <2>1. CallsAreOfAKind' /\ FlowsAreGrounded'
    BY <1>0, <2>0 DEF ActivationInv, CallsAreOfAKind, OfAKind, FlowsAreGrounded, Grounded, GroundedIn
  <2>2. EntriesAreReal'
    BY <1>0, <2>0 DEF ActivationInv, EntriesAreReal, Entered, Judging, At
  <2>3. PassedAreShown'
    BY <1>0, <2>0 DEF ActivationInv, PassedAreShown, Passed, Shown, Callers
  <2> QED BY <2>1, <2>2, <2>3
<1>3. RowIsHeld' /\ LoginIsOwn' /\ LookupFindsTheCode'
  BY <1>s, <1>0 DEF ActivationInv, RowIsHeld, LoginIsOwn, HoldersLogin, LoginIsTheAccounts,
     LookupFindsTheCode, Callers, Issue
<1> QED BY <1>1, <1>2, <1>3 DEF ActivationInv

LEMMA CodeExpiryKeeps ==
    ASSUME ActivationInv, CodeExpires
    PROVE  ActivationInv'
<1>0. slip'.used = slip.used /\ slip'.code = slip.code /\ slip'.lookup = slip.lookup
  BY DEF ActivationInv, ActivationShapes, CodeExpires
<1>1. ActivationShapes'
  BY DEF ActivationInv, ActivationShapes, CodeExpires
<1>2. CallsAreOfAKind' /\ FlowsAreGrounded' /\ EntriesAreReal' /\ PassedAreShown'
  BY DEF ActivationInv, CallsAreOfAKind, OfAKind, FlowsAreGrounded, Grounded, GroundedIn,
     EntriesAreReal, Entered,
     Judging, At, PassedAreShown, Passed, Shown, CodeExpires
<1>3. RowIsHeld' /\ LoginIsOwn' /\ LookupFindsTheCode'
  BY <1>0 DEF ActivationInv, RowIsHeld, LoginIsOwn, HoldersLogin, LoginIsTheAccounts,
     LookupFindsTheCode, CodeExpires
<1> QED BY <1>1, <1>2, <1>3 DEF ActivationInv

LEMMA LapseKeeps ==
    ASSUME ActivationInv, NEW code \in Codes, NEW k \in Kinds, DigitsExpire(code, k)
    PROVE  ActivationInv'
<1>0. \A b \in Codes, h \in Kinds : proof'[b][h] \in {proof[b][h], Nil}
  BY DEF ActivationInv, ActivationShapes, DigitsExpire
<1>1. ActivationShapes'
  BY DEF ActivationInv, ActivationShapes, DigitsExpire
<1>2. FlowsAreGrounded'
  BY <1>0 DEF ActivationInv, FlowsAreGrounded, Grounded, GroundedIn, DigitsExpire
<1>3. CallsAreOfAKind' /\ EntriesAreReal' /\ PassedAreShown'
  BY DEF ActivationInv, CallsAreOfAKind, OfAKind, EntriesAreReal, Entered,
     Judging, At, PassedAreShown, Passed, Shown, DigitsExpire
<1>4. RowIsHeld' /\ LoginIsOwn' /\ LookupFindsTheCode'
  BY DEF ActivationInv, RowIsHeld, LoginIsOwn, HoldersLogin, LoginIsTheAccounts,
     LookupFindsTheCode, DigitsExpire
<1> QED BY <1>1, <1>2, <1>3, <1>4 DEF ActivationInv

LEMMA FindKeeps ==
    ASSUME ActivationInv, NEW c \in Sends \cup Trials, NEW code \in HandedOut, FindActivation(c, code)
    PROVE  ActivationInv'
<1>s. ActivationShapes /\ OfAKind(c) /\ c \in Callers /\ c \notin Completions /\ code \in Codes
  BY ActivationAssumption DEF ActivationInv, CallsAreOfAKind, Callers, HandedOut, Codes,
     ActivationShapes,
     CallRows, FindActivation
<1>m. /\ call' \in [Callers \cup Issues -> CallRows]
      /\ call'[c].at \in {"found", "filling"} /\ call'[c].code = code /\ call'[c].read = call[c].read
      /\ \A e \in (Callers \cup Issues) \ {c} : call'[e] = call[e]
  BY <1>s DEF FindActivation, ActivationShapes, CallRows, Places
<1>1. ActivationShapes'
  BY <1>s, <1>m DEF ActivationShapes, FindActivation
<1>2. FlowsAreGrounded'
  <2>1. \A e \in Callers : Grounded(call'[e].read)
    BY <1>m, <1>s DEF ActivationInv, FlowsAreGrounded
  <2> QED BY <2>1 DEF ActivationInv, FlowsAreGrounded, Grounded, GroundedIn, FindActivation
<1>3. OfAKind(c)' /\ Entered(c)'
  BY <1>s, <1>m DEF OfAKind, Entered, Judging
<1>4. call[c].at \notin InTransaction /\ call'[c].at \notin InTransaction /\ account # c
  BY <1>s, <1>m, ActivationAssumption DEF OfAKind, InTransaction, ActivationShapes,
     FindActivation, At
<1>5. CallsAreOfAKind' /\ EntriesAreReal' /\ PassedAreShown' /\ RowIsHeld' /\ LoginIsOwn'
  BY <1>s, <1>m, <1>3, <1>4, Aside DEF FindActivation
<1>6. LookupFindsTheCode'
  BY DEF ActivationInv, LookupFindsTheCode, FindActivation
<1> QED BY <1>1, <1>2, <1>5, <1>6 DEF ActivationInv

LEMMA FillKeeps ==
    ASSUME ActivationInv, NEW c \in Sends \cup Trials, FillLookup(c)
    PROVE  ActivationInv'
<1>s. ActivationShapes /\ OfAKind(c) /\ c \in Callers
  BY DEF ActivationInv, CallsAreOfAKind, Callers
<1>m. Moved(c, "found")
  BY <1>s, Moving DEF Places, Registering, Callers, FillLookup
<1>1. ActivationShapes'
  BY <1>s, <1>m DEF ActivationShapes, Moved, FillLookup, OfAKind, At
<1>2. FlowsAreGrounded'
  <2>1. \A e \in Callers : Grounded(call'[e].read)
    BY <1>m DEF ActivationInv, FlowsAreGrounded, Moved, Grounded, GroundedIn
  <2> QED BY <2>1 DEF ActivationInv, FlowsAreGrounded, Grounded, GroundedIn, FillLookup
<1>3. OfAKind(c)' /\ Entered(c)'
  <2>1. OfAKind(c)'
    BY <1>s, <1>m, ActivationAssumption DEF OfAKind, At, Moved, Registering, FillLookup
  <2>2. ~Judging(c)'
    BY <1>m DEF Judging, Moved
  <2> QED BY <2>1, <2>2 DEF Entered
<1>4. c \notin Completions
  BY ActivationAssumption
<1>5. /\ call[c].at \notin InTransaction /\ call'[c].at \notin InTransaction
      /\ account = c => call'[c].at \in {"dropping", "over"} /\ call'[c].code = call[c].code
  BY <1>s, <1>m, <1>4, ActivationAssumption DEF ActivationInv, ActivationShapes, RowIsHeld,
     Moved, InTransaction, At, FillLookup
<1>6. CallsAreOfAKind' /\ EntriesAreReal' /\ PassedAreShown' /\ RowIsHeld' /\ LoginIsOwn'
  BY <1>s, <1>m, <1>3, <1>4, <1>5, Aside DEF Moved, FillLookup
<1>7. LookupFindsTheCode'
  BY DEF ActivationInv, ActivationShapes, LookupFindsTheCode, FillLookup
<1> QED BY <1>1, <1>2, <1>6, <1>7 DEF ActivationInv

LEMMA StoreKeeps ==
    ASSUME ActivationInv, NEW s \in Sends, StoreDigits(s)
    PROVE  ActivationInv'
<1>s. ActivationShapes /\ OfAKind(s) /\ s \in Callers
  BY DEF ActivationInv, CallsAreOfAKind, Callers
<1>m. Moved(s, "sending")
  BY <1>s, Moving DEF Places, Registering, Callers, StoreDigits
<1>0. /\ call[s].code \in Codes /\ Kind[SendTo[s]] \in Kinds
      /\ [to |-> SendTo[s], digits |-> s, tries |-> 0, verified |-> FALSE] \in Verification
  BY <1>s, ActivationAssumption DEF OfAKind, At, StoreDigits, Verification
<1>1. ActivationShapes'
  BY <1>s, <1>m, <1>0 DEF ActivationShapes, Moved, StoreDigits
<1>2. FlowsAreGrounded'
  <2>0. proven \subseteq proven'
    BY DEF StoreDigits
  <2>1. \A e \in Callers : GroundedIn(call'[e].read, proven')
    BY <1>m, <2>0 DEF ActivationInv, FlowsAreGrounded, Moved, Grounded, GroundedIn
  <2>2. \A b \in Codes, k \in Kinds : proof'[b][k] = proof[b][k] \/ (b = call[s].code /\ k = Kind[SendTo[s]])
    BY <1>s, <1>0 DEF ActivationShapes, StoreDigits
  <2>3. LET g == proof'[call[s].code][Kind[SendTo[s]]] IN GroundedIn(g, proven') /\ (g # Nil => Kind[g.to] = Kind[SendTo[s]])
    BY <1>s, <1>0 DEF GroundedIn, StoreDigits, ActivationShapes
  <2>4. \A b \in Codes, k \in Kinds : GroundedIn(proof[b][k], proven') /\ (proof[b][k] # Nil => Kind[proof[b][k].to] = k)
    BY <2>0 DEF ActivationInv, FlowsAreGrounded, Grounded, GroundedIn
  <2>5. \A b \in Codes, k \in Kinds : GroundedIn(proof'[b][k], proven') /\ (proof'[b][k] # Nil => Kind[proof'[b][k].to] = k)
    <3> SUFFICES ASSUME NEW b \in Codes, NEW k \in Kinds
                 PROVE  GroundedIn(proof'[b][k], proven') /\ (proof'[b][k] # Nil => Kind[proof'[b][k].to] = k)
      OBVIOUS
    <3>1. CASE proof'[b][k] = proof[b][k]
      BY <2>4, <3>1
    <3>2. CASE proof'[b][k] # proof[b][k]
      BY <2>2, <2>3, <3>2
    <3> QED BY <3>1, <3>2
  <2> QED BY <2>1, <2>5 DEF FlowsAreGrounded, Grounded, GroundedIn
<1>3. OfAKind(s)' /\ Entered(s)'
  <2>1. OfAKind(s)'
    BY <1>s, <1>m, ActivationAssumption DEF OfAKind, At, Moved, Registering, StoreDigits
  <2>2. ~Judging(s)'
    BY <1>m DEF Judging, Moved
  <2> QED BY <2>1, <2>2 DEF Entered
<1>4. s \notin Completions
  BY ActivationAssumption
<1>5. /\ call[s].at \notin InTransaction /\ call'[s].at \notin InTransaction
      /\ account = s => call'[s].at \in {"dropping", "over"} /\ call'[s].code = call[s].code
  BY <1>s, <1>m, <1>4, ActivationAssumption DEF ActivationInv, ActivationShapes, RowIsHeld,
     Moved, InTransaction, At, StoreDigits
<1>6. CallsAreOfAKind' /\ EntriesAreReal' /\ PassedAreShown' /\ RowIsHeld' /\ LoginIsOwn'
  BY <1>s, <1>m, <1>3, <1>4, <1>5, Aside DEF Moved, StoreDigits
<1>7. LookupFindsTheCode'
  BY DEF ActivationInv, ActivationShapes, LookupFindsTheCode, StoreDigits
<1> QED BY <1>1, <1>2, <1>6, <1>7 DEF ActivationInv

LEMMA DeliverKeeps ==
    ASSUME ActivationInv, NEW s \in Sends, Deliver(s)
    PROVE  ActivationInv'
<1>s. ActivationShapes /\ OfAKind(s) /\ s \in Callers
  BY DEF ActivationInv, CallsAreOfAKind, Callers
<1>m. Moved(s, "over")
  BY <1>s, Moving DEF Places, Registering, Callers, Deliver
<1>1. ActivationShapes'
  BY <1>s, <1>m DEF ActivationShapes, Moved, Deliver
<1>2. FlowsAreGrounded'
  <2>1. \A e \in Callers : Grounded(call'[e].read)
    BY <1>m DEF ActivationInv, FlowsAreGrounded, Moved, Grounded, GroundedIn
  <2> QED BY <2>1 DEF ActivationInv, FlowsAreGrounded, Grounded, GroundedIn, Deliver
<1>3. OfAKind(s)' /\ Entered(s)'
  <2>1. OfAKind(s)'
    BY <1>s, <1>m, ActivationAssumption DEF OfAKind, At, Moved, Registering, Deliver
  <2>2. ~Judging(s)'
    BY <1>m DEF Judging, Moved
  <2> QED BY <2>1, <2>2 DEF Entered
<1>4. s \notin Completions
  BY ActivationAssumption
<1>5. /\ call[s].at \notin InTransaction /\ call'[s].at \notin InTransaction
      /\ account = s => call'[s].at \in {"dropping", "over"} /\ call'[s].code = call[s].code
  BY <1>s, <1>m, <1>4, ActivationAssumption DEF ActivationInv, ActivationShapes, RowIsHeld,
     Moved, InTransaction, At, Deliver
<1>6. CallsAreOfAKind' /\ EntriesAreReal' /\ PassedAreShown' /\ RowIsHeld' /\ LoginIsOwn'
  BY <1>s, <1>m, <1>3, <1>4, <1>5, Aside DEF Moved, Deliver
<1>7. LookupFindsTheCode'
  BY DEF ActivationInv, ActivationShapes, LookupFindsTheCode, Deliver
<1> QED BY <1>1, <1>2, <1>6, <1>7 DEF ActivationInv

LEMMA UndeliveredKeeps ==
    ASSUME ActivationInv, NEW s \in Sends, DeliveryFails(s)
    PROVE  ActivationInv'
<1>s. ActivationShapes /\ OfAKind(s) /\ s \in Callers
  BY DEF ActivationInv, CallsAreOfAKind, Callers
<1>m. Moved(s, "over")
  BY <1>s, Moving DEF Places, Registering, Callers, DeliveryFails
<1>0. call[s].code \in Codes /\ Kind[SendTo[s]] \in Kinds
  BY <1>s, ActivationAssumption DEF OfAKind, At, DeliveryFails
<1>1. ActivationShapes'
  BY <1>s, <1>m, <1>0 DEF ActivationShapes, Moved, DeliveryFails
<1>2. FlowsAreGrounded'
  <2>0. proven \subseteq proven'
    BY DEF DeliveryFails
  <2>1. \A e \in Callers : GroundedIn(call'[e].read, proven')
    BY <1>m, <2>0 DEF ActivationInv, FlowsAreGrounded, Moved, Grounded, GroundedIn
  <2>2. \A b \in Codes, k \in Kinds : proof'[b][k] = proof[b][k] \/ (b = call[s].code /\ k = Kind[SendTo[s]])
    BY <1>s, <1>0 DEF ActivationShapes, DeliveryFails
  <2>3. LET g == proof'[call[s].code][Kind[SendTo[s]]] IN GroundedIn(g, proven') /\ (g # Nil => Kind[g.to] = Kind[SendTo[s]])
    BY <1>s, <1>0 DEF GroundedIn, DeliveryFails, ActivationShapes
  <2>4. \A b \in Codes, k \in Kinds : GroundedIn(proof[b][k], proven') /\ (proof[b][k] # Nil => Kind[proof[b][k].to] = k)
    BY <2>0 DEF ActivationInv, FlowsAreGrounded, Grounded, GroundedIn
  <2>5. \A b \in Codes, k \in Kinds : GroundedIn(proof'[b][k], proven') /\ (proof'[b][k] # Nil => Kind[proof'[b][k].to] = k)
    <3> SUFFICES ASSUME NEW b \in Codes, NEW k \in Kinds
                 PROVE  GroundedIn(proof'[b][k], proven') /\ (proof'[b][k] # Nil => Kind[proof'[b][k].to] = k)
      OBVIOUS
    <3>1. CASE proof'[b][k] = proof[b][k]
      BY <2>4, <3>1
    <3>2. CASE proof'[b][k] # proof[b][k]
      BY <2>2, <2>3, <3>2
    <3> QED BY <3>1, <3>2
  <2> QED BY <2>1, <2>5 DEF FlowsAreGrounded, Grounded, GroundedIn
<1>3. OfAKind(s)' /\ Entered(s)'
  <2>1. OfAKind(s)'
    BY <1>s, <1>m, ActivationAssumption DEF OfAKind, At, Moved, Registering, DeliveryFails
  <2>2. ~Judging(s)'
    BY <1>m DEF Judging, Moved
  <2> QED BY <2>1, <2>2 DEF Entered
<1>4. s \notin Completions
  BY ActivationAssumption
<1>5. /\ call[s].at \notin InTransaction /\ call'[s].at \notin InTransaction
      /\ account = s => call'[s].at \in {"dropping", "over"} /\ call'[s].code = call[s].code
  BY <1>s, <1>m, <1>4, ActivationAssumption DEF ActivationInv, ActivationShapes, RowIsHeld,
     Moved, InTransaction, At, DeliveryFails
<1>6. CallsAreOfAKind' /\ EntriesAreReal' /\ PassedAreShown' /\ RowIsHeld' /\ LoginIsOwn'
  BY <1>s, <1>m, <1>3, <1>4, <1>5, Aside DEF Moved, DeliveryFails
<1>7. LookupFindsTheCode'
  BY DEF ActivationInv, ActivationShapes, LookupFindsTheCode, DeliveryFails
<1> QED BY <1>1, <1>2, <1>6, <1>7 DEF ActivationInv

LEMMA ReadKeeps ==
    ASSUME ActivationInv, NEW c \in Trials \cup Completions, NEW to \in Contacts,
           NEW digits \in Sends \cup {Mistyped}, ReadProof(c, to, digits)
    PROVE  ActivationInv'
<1>s. ActivationShapes /\ OfAKind(c) /\ c \in Callers /\ call[c] \in CallRows
  BY DEF ActivationInv, CallsAreOfAKind, Callers, ActivationShapes
<1>0. /\ c \in Trials => c \notin Completions /\ call[c].at = "found"
      /\ c \notin Trials => c \in Completions /\ call[c].at \in {"phone", "email"} /\ to = Typed[c][call[c].at]
  BY ActivationAssumption DEF ReadProof, At, Kinds
<1>f. call[c].code \in Codes /\ Kind[to] \in Kinds
  BY <1>0, <1>s, ActivationAssumption DEF OfAKind
<1>r. LET f == proof[call[c].code][Kind[to]] IN f \in Verification \cup {Nil} /\ Grounded(f)
  BY <1>f DEF ActivationInv, ActivationShapes, FlowsAreGrounded
<1>p. JudgingOf["phone"] = "judging phone" /\ JudgingOf["email"] = "judging email"
  BY DEF JudgingOf
<1>q. LET place == IF c \in Trials THEN "judging" ELSE JudgingOf[call[c].at]
      IN  place \in Places /\ (c \notin Trials => place = IF call[c].at = "phone" THEN "judging phone" ELSE "judging email")
  BY <1>0, <1>p DEF Places, Registering
<1>a. /\ call'[c].at = IF c \in Trials THEN "judging"
                       ELSE IF call[c].at = "phone" THEN "judging phone" ELSE "judging email"
      /\ call'[c].code = call[c].code /\ call'[c].to = to /\ call'[c].digits = digits
      /\ call'[c].read = proof[call[c].code][Kind[to]]
      /\ \A e \in (Callers \cup Issues) \ {c} : call'[e] = call[e]
  BY <1>s, <1>q DEF ActivationShapes, ReadProof
<1>m. call' \in [Callers \cup Issues -> CallRows]
  <2> DEFINE row == [at |-> IF c \in Trials THEN "judging" ELSE JudgingOf[call[c].at], code |-> call[c].code,
                     to |-> to, digits |-> digits, read |-> proof[call[c].code][Kind[to]]]
  <2>1. row \in CallRows
    BY <1>f, <1>r, <1>q DEF CallRows
  <2>2. call' = [call EXCEPT ![c] = row]
    BY DEF ReadProof
  <2> QED BY <1>s, <2>1, <2>2 DEF ActivationShapes
<1>1. ActivationShapes'
  BY <1>s, <1>m DEF ActivationShapes, ReadProof
<1>2. FlowsAreGrounded'
  <2>1. \A e \in Callers : Grounded(call'[e].read)
    BY <1>a, <1>r DEF ActivationInv, FlowsAreGrounded
  <2> QED BY <2>1 DEF ActivationInv, FlowsAreGrounded, Grounded, GroundedIn, ReadProof
<1>3. OfAKind(c)'
  BY <1>s, <1>a, <1>0, <1>f DEF OfAKind, Registering
<1>4. Entered(c)'
  <2>1. digits \in received' \cup {Mistyped}
    BY DEF ReadProof
  <2>2. CASE c \in Trials
    BY <1>a, <2>1, <2>2 DEF Entered, At
  <2>3. CASE c \notin Trials
    BY <1>a, <1>0, <2>1, <2>3 DEF Entered, At
  <2> QED BY <2>2, <2>3
<1>6. call[c].at \notin InTransaction /\ call'[c].at \notin InTransaction /\ account # c
  <2>1. call[c].at \in {"found", "phone", "email"} /\ call'[c].at \in {"judging", "judging phone", "judging email"}
    BY <1>a, <1>0
  <2> QED BY <1>s, <2>1, ActivationAssumption DEF ActivationInv, RowIsHeld, InTransaction
<1>5. c \in Completions => Passed(c)'
  <2> SUFFICES ASSUME c \in Completions PROVE Passed(c)'
    OBVIOUS
  <2>1. c \notin Trials
    BY ActivationAssumption
  <2>2. call'[c].at = "judging email" => call[c].at = "email"
    BY <1>a, <1>0, <2>1
  <2>3. call'[c].at \in {"judging phone", "judging email"} /\ account' # c /\ proven' = proven
    BY <1>a, <1>6, <2>1 DEF ReadProof
  <2>4. call[c].at = "email" => Shown(c, "phone")
    BY DEF ActivationInv, PassedAreShown, Passed, Registering
  <2> QED BY <2>2, <2>3, <2>4 DEF Passed, Shown, Registering, InTransaction
<1>7. CallsAreOfAKind' /\ EntriesAreReal' /\ PassedAreShown' /\ RowIsHeld' /\ LoginIsOwn'
  BY <1>s, <1>a, <1>3, <1>4, <1>5, <1>6, Aside DEF ReadProof
<1>8. LookupFindsTheCode'
  BY DEF ActivationInv, LookupFindsTheCode, ReadProof
<1> QED BY <1>1, <1>2, <1>7, <1>8 DEF ActivationInv

LEMMA NoProofKeeps ==
    ASSUME ActivationInv, NEW c \in Trials \cup Completions, NoProof(c)
    PROVE  ActivationInv'
<1>s. ActivationShapes /\ OfAKind(c) /\ c \in Callers
  BY DEF ActivationInv, CallsAreOfAKind, Callers
<1>m. Moved(c, "over")
  BY <1>s, Moving DEF Places, Registering, Callers, NoProof, Judging
<1>1. ActivationShapes'
  BY <1>s, <1>m DEF ActivationShapes, Moved, NoProof, Judging
<1>2. FlowsAreGrounded'
  <2>1. \A e \in Callers : Grounded(call'[e].read)
    BY <1>m DEF ActivationInv, FlowsAreGrounded, Moved, Grounded, GroundedIn
  <2> QED BY <2>1 DEF ActivationInv, FlowsAreGrounded, Grounded, GroundedIn, NoProof, Judging
<1>3. OfAKind(c)' /\ Entered(c)'
  <2>1. OfAKind(c)'
    BY <1>s, <1>m, ActivationAssumption DEF OfAKind, At, Moved, Registering, NoProof
  <2>2. ~Judging(c)'
    BY <1>m DEF Judging, Moved
  <2> QED BY <2>1, <2>2 DEF Entered
<1>4. c \in Completions => Passed(c)'
  BY <1>s, <1>m, ActivationAssumption DEF ActivationInv, ActivationShapes, PassedAreShown,
     RowIsHeld, Passed, Shown, Moved, Registering, InTransaction, NoProof, Judging
<1>5. /\ call[c].at \notin InTransaction /\ call'[c].at \notin InTransaction
      /\ account = c => call'[c].at \in {"dropping", "over"} /\ call'[c].code = call[c].code
  BY <1>s, <1>m, <1>4, ActivationAssumption DEF ActivationInv, ActivationShapes, RowIsHeld,
     Moved, InTransaction, At, NoProof, Judging
<1>6. CallsAreOfAKind' /\ EntriesAreReal' /\ PassedAreShown' /\ RowIsHeld' /\ LoginIsOwn'
  BY <1>s, <1>m, <1>3, <1>4, <1>5, Aside DEF Moved, NoProof, Judging
<1>7. LookupFindsTheCode'
  BY DEF ActivationInv, ActivationShapes, LookupFindsTheCode, NoProof, Judging
<1> QED BY <1>1, <1>2, <1>6, <1>7 DEF ActivationInv

LEMMA MismatchKeeps ==
    ASSUME ActivationInv, NEW c \in Trials \cup Completions, Mismatch(c)
    PROVE  ActivationInv'
<1>s. ActivationShapes /\ OfAKind(c) /\ c \in Callers
  BY DEF ActivationInv, CallsAreOfAKind, Callers
<1>m. Moved(c, "over")
  BY <1>s, Moving DEF Places, Registering, Callers, Mismatch, Judging
<1>0. /\ call[c].code \in Codes /\ Kind[call[c].to] \in Kinds /\ call[c].read \in Verification
      /\ call[c].read.to = call[c].to /\ call[c].read.digits \in Sends /\ Grounded(call[c].read)
      /\ call[c].digits \in received \cup {Mistyped}
  <2>1. call[c] \in CallRows /\ Entered(c) /\ Grounded(call[c].read)
    BY <1>s DEF ActivationInv, ActivationShapes, EntriesAreReal, FlowsAreGrounded
  <2> QED BY <1>s, <2>1, ActivationAssumption DEF OfAKind, Entered, Judging, Same, CallRows,
     Verification, Mismatch
<1>n. PICK f \in Verification \cup {Nil} :
          /\ proof' = [proof EXCEPT ![call[c].code][Kind[call[c].to]] = f]
          /\ f # Nil => /\ f.to = call[c].read.to /\ f.digits = call[c].read.digits
                        /\ f.verified = call[c].read.verified
  <2>1. ~(call[c].read.tries + 1 >= MaxTries) => [call[c].read EXCEPT !.tries = @ + 1] \in Verification
    BY <1>0, OneMoreTry
  <2> QED BY <1>0, <2>1 DEF Mismatch, Verification
<1>u. UNCHANGED <<slip, received, heldBy, login, account, proven, strays, crossedFill, mishaps>>
  BY DEF Mismatch
<1>1. ActivationShapes'
  BY <1>s, <1>m, <1>0, <1>n, <1>u DEF ActivationShapes, Moved
<1>2. FlowsAreGrounded'
  <2>0. proven \subseteq proven'
    BY DEF Mismatch, Judging
  <2>1. \A e \in Callers : GroundedIn(call'[e].read, proven')
    BY <1>m, <2>0 DEF ActivationInv, FlowsAreGrounded, Moved, Grounded, GroundedIn
  <2>2. \A b \in Codes, k \in Kinds : proof'[b][k] = proof[b][k] \/ (b = call[c].code /\ k = Kind[call[c].to])
    BY <1>s, <1>0, <1>n DEF ActivationShapes
  <2>3. LET g == proof'[call[c].code][Kind[call[c].to]] IN GroundedIn(g, proven') /\ (g # Nil => Kind[g.to] = Kind[call[c].to])
    <3>1. proof'[call[c].code][Kind[call[c].to]] = f
      BY <1>s, <1>0, <1>n DEF ActivationShapes
    <3>2. f # Nil => Kind[f.to] = Kind[call[c].to]
      BY <1>0, <1>n
    <3>3. GroundedIn(f, proven')
      BY <1>0, <1>n, <1>u, ActivationAssumption DEF Grounded, GroundedIn
    <3> QED BY <3>1, <3>2, <3>3
  <2>4. \A b \in Codes, k \in Kinds : GroundedIn(proof[b][k], proven') /\ (proof[b][k] # Nil => Kind[proof[b][k].to] = k)
    BY <2>0 DEF ActivationInv, FlowsAreGrounded, Grounded, GroundedIn
  <2>5. \A b \in Codes, k \in Kinds : GroundedIn(proof'[b][k], proven') /\ (proof'[b][k] # Nil => Kind[proof'[b][k].to] = k)
    <3> SUFFICES ASSUME NEW b \in Codes, NEW k \in Kinds
                 PROVE  GroundedIn(proof'[b][k], proven') /\ (proof'[b][k] # Nil => Kind[proof'[b][k].to] = k)
      OBVIOUS
    <3>1. CASE proof'[b][k] = proof[b][k]
      BY <2>4, <3>1
    <3>2. CASE proof'[b][k] # proof[b][k]
      BY <2>2, <2>3, <3>2
    <3> QED BY <3>1, <3>2
  <2> QED BY <2>1, <2>5 DEF FlowsAreGrounded, Grounded, GroundedIn
<1>3. OfAKind(c)' /\ Entered(c)'
  <2>1. OfAKind(c)'
    BY <1>s, <1>m, ActivationAssumption DEF OfAKind, At, Moved, Registering, Mismatch, Judging
  <2>2. ~Judging(c)'
    BY <1>m DEF Judging, Moved
  <2> QED BY <2>1, <2>2 DEF Entered
<1>4. c \in Completions => Passed(c)'
  BY <1>s, <1>m, ActivationAssumption DEF ActivationInv, ActivationShapes, PassedAreShown,
     RowIsHeld, Passed, Shown, Moved, Registering, InTransaction, Mismatch, Judging
<1>5. /\ call[c].at \notin InTransaction /\ call'[c].at \notin InTransaction
      /\ account = c => call'[c].at \in {"dropping", "over"} /\ call'[c].code = call[c].code
  BY <1>s, <1>m, <1>4, ActivationAssumption DEF ActivationInv, ActivationShapes, RowIsHeld,
     Moved, InTransaction, At, Mismatch, Judging
<1>6. CallsAreOfAKind' /\ EntriesAreReal' /\ PassedAreShown' /\ RowIsHeld' /\ LoginIsOwn'
  BY <1>s, <1>m, <1>3, <1>4, <1>5, Aside DEF Moved, Mismatch, Judging
<1>7. LookupFindsTheCode'
  BY DEF ActivationInv, ActivationShapes, LookupFindsTheCode, Mismatch, Judging
<1> QED BY <1>1, <1>2, <1>6, <1>7 DEF ActivationInv

LEMMA VerifyKeeps ==
    ASSUME ActivationInv, NEW v \in Trials, MarkVerified(v)
    PROVE  ActivationInv'
<1>s. ActivationShapes /\ OfAKind(v) /\ v \in Callers
  BY DEF ActivationInv, CallsAreOfAKind, Callers
<1>m. Moved(v, "over")
  BY <1>s, Moving DEF Places, Registering, Callers, MarkVerified, Judging
<1>0. /\ call[v].code \in Codes /\ Kind[call[v].to] \in Kinds /\ call[v].read \in Verification
      /\ call[v].read.to = call[v].to /\ call[v].read.digits \in Sends /\ Grounded(call[v].read)
      /\ call[v].digits \in received \cup {Mistyped}
  <2>1. call[v] \in CallRows /\ Entered(v) /\ Grounded(call[v].read)
    BY <1>s DEF ActivationInv, ActivationShapes, EntriesAreReal, FlowsAreGrounded
  <2> QED BY <1>s, <2>1, ActivationAssumption DEF OfAKind, Entered, Judging, Same, CallRows,
     Verification, MarkVerified
<1>n. /\ [call[v].read EXCEPT !.verified = TRUE] \in Verification
      /\ call[v].read.digits \in received
  BY <1>0, ActivationAssumption DEF Verification, MarkVerified
<1>1. ActivationShapes'
  BY <1>s, <1>m, <1>0, <1>n DEF ActivationShapes, Moved, MarkVerified
<1>2. FlowsAreGrounded'
  <2>0. proven \subseteq proven'
    BY DEF MarkVerified, Judging
  <2>1. \A e \in Callers : GroundedIn(call'[e].read, proven')
    BY <1>m, <2>0 DEF ActivationInv, FlowsAreGrounded, Moved, Grounded, GroundedIn
  <2>2. \A b \in Codes, k \in Kinds : proof'[b][k] = proof[b][k] \/ (b = call[v].code /\ k = Kind[call[v].to])
    BY <1>s, <1>0, <1>n DEF ActivationShapes, MarkVerified
  <2>3. LET g == proof'[call[v].code][Kind[call[v].to]] IN GroundedIn(g, proven') /\ (g # Nil => Kind[g.to] = Kind[call[v].to])
    <3> DEFINE h == [call[v].read EXCEPT !.verified = TRUE]
    <3>1. h.to = call[v].read.to /\ h.digits = call[v].read.digits /\ h.verified = TRUE
      BY <1>0 DEF Verification
    <3>2. call[v].read.digits \in proven' /\ SendTo[call[v].read.digits] = call[v].read.to
      BY <1>0, ActivationAssumption DEF Grounded, GroundedIn, MarkVerified
    <3>3. proof'[call[v].code][Kind[call[v].to]] = h
      BY <1>s, <1>0 DEF ActivationShapes, MarkVerified
    <3> QED BY <1>0, <3>1, <3>2, <3>3 DEF GroundedIn
  <2>4. \A b \in Codes, k \in Kinds : GroundedIn(proof[b][k], proven') /\ (proof[b][k] # Nil => Kind[proof[b][k].to] = k)
    BY <2>0 DEF ActivationInv, FlowsAreGrounded, Grounded, GroundedIn
  <2>5. \A b \in Codes, k \in Kinds : GroundedIn(proof'[b][k], proven') /\ (proof'[b][k] # Nil => Kind[proof'[b][k].to] = k)
    <3> SUFFICES ASSUME NEW b \in Codes, NEW k \in Kinds
                 PROVE  GroundedIn(proof'[b][k], proven') /\ (proof'[b][k] # Nil => Kind[proof'[b][k].to] = k)
      OBVIOUS
    <3>1. CASE proof'[b][k] = proof[b][k]
      BY <2>4, <3>1
    <3>2. CASE proof'[b][k] # proof[b][k]
      BY <2>2, <2>3, <3>2
    <3> QED BY <3>1, <3>2
  <2> QED BY <2>1, <2>5 DEF FlowsAreGrounded, Grounded, GroundedIn
<1>3. OfAKind(v)' /\ Entered(v)'
  <2>1. OfAKind(v)'
    BY <1>s, <1>m, ActivationAssumption DEF OfAKind, At, Moved, Registering, MarkVerified, Judging
  <2>2. ~Judging(v)'
    BY <1>m DEF Judging, Moved
  <2> QED BY <2>1, <2>2 DEF Entered
<1>4. v \notin Completions
  BY ActivationAssumption
<1>5. /\ call[v].at \notin InTransaction /\ call'[v].at \notin InTransaction
      /\ account = v => call'[v].at \in {"dropping", "over"} /\ call'[v].code = call[v].code
  BY <1>s, <1>m, <1>4, ActivationAssumption DEF ActivationInv, ActivationShapes, RowIsHeld,
     Moved, InTransaction, At, MarkVerified, Judging
<1>6. CallsAreOfAKind' /\ EntriesAreReal' /\ PassedAreShown' /\ RowIsHeld' /\ LoginIsOwn'
  BY <1>s, <1>m, <1>3, <1>4, <1>5, Aside DEF Moved, MarkVerified, Judging
<1>7. LookupFindsTheCode'
  BY DEF ActivationInv, ActivationShapes, LookupFindsTheCode, MarkVerified, Judging
<1> QED BY <1>1, <1>2, <1>6, <1>7 DEF ActivationInv

LEMMA PassKeeps ==
    ASSUME ActivationInv, NEW d \in Completions, PassChannel(d)
    PROVE  ActivationInv'
<1>s. ActivationShapes /\ OfAKind(d) /\ d \in Callers
  BY DEF ActivationInv, CallsAreOfAKind, Callers
<1>m. Moved(d, Next1(d))
  BY <1>s, Moving DEF Places, Registering, Callers, PassChannel, Judging, Next1
<1>0. /\ call[d].code \in Codes /\ Kind[call[d].to] \in Kinds /\ call[d].read \in Verification
      /\ call[d].read.to = call[d].to /\ call[d].read.digits \in Sends /\ Grounded(call[d].read)
      /\ call[d].digits \in received \cup {Mistyped}
  <2>1. call[d] \in CallRows /\ Entered(d) /\ Grounded(call[d].read)
    BY <1>s DEF ActivationInv, ActivationShapes, EntriesAreReal, FlowsAreGrounded
  <2> QED BY <1>s, <2>1, ActivationAssumption DEF OfAKind, Entered, Judging, Same, CallRows,
     Verification, PassChannel
<1>n. proven \subseteq proven' /\ proven' \subseteq received /\ call[d].read.digits \in proven'
  BY <1>0, <1>s, ActivationAssumption DEF ActivationShapes, PassChannel, Same, Grounded, GroundedIn
<1>p. /\ account # d
      /\ \/ call[d].at = "judging phone" /\ call'[d].at = "email" /\ SendTo[call[d].read.digits] = Typed[d]["phone"]
         \/ call[d].at = "judging email" /\ call'[d].at = "checked" /\ SendTo[call[d].read.digits] = Typed[d]["email"]
  <2>1. call[d].at \in {"judging phone", "judging email"}
    BY <1>s DEF PassChannel, Judging, OfAKind, Registering
  <2>2. Entered(d)
    BY <1>s DEF ActivationInv, EntriesAreReal
  <2>3. account # d
    BY <2>1, ActivationAssumption DEF ActivationInv, ActivationShapes, RowIsHeld, Callers
  <2>4. SendTo[call[d].read.digits] = call[d].to
    BY <1>0, ActivationAssumption DEF Grounded, GroundedIn
  <2> QED BY <1>m, <2>1, <2>2, <2>3, <2>4 DEF Entered, Judging, At, Moved, Next1
<1>1. ActivationShapes'
  BY <1>s, <1>m, <1>0, <1>n DEF ActivationShapes, Moved, PassChannel
<1>2. FlowsAreGrounded'
  <2>1. \A e \in Callers : GroundedIn(call'[e].read, proven')
    BY <1>m, <1>n DEF ActivationInv, FlowsAreGrounded, Moved, Grounded, GroundedIn
  <2> QED BY <1>n, <2>1 DEF ActivationInv, FlowsAreGrounded, Grounded, GroundedIn, PassChannel
<1>3. OfAKind(d)' /\ Entered(d)'
  <2>1. OfAKind(d)'
    BY <1>p, <1>m, <1>0 DEF OfAKind, Moved, Registering
  <2>2. ~Judging(d)'
    BY <1>p DEF Judging
  <2> QED BY <2>1, <2>2 DEF Entered
<1>4. d \in Completions => Passed(d)'
  <2>1. call[d].read.digits \in proven' /\ account' # d
    BY <1>n, <1>p DEF PassChannel
  <2>2. call[d].at = "judging email" => Shown(d, "phone")'
    BY <1>n DEF ActivationInv, PassedAreShown, Passed, Shown, Registering
  <2> QED BY <1>p, <2>1, <2>2 DEF Passed, Shown, Registering, InTransaction
<1>5. /\ call[d].at \notin InTransaction /\ call'[d].at \notin InTransaction
      /\ account = d => call'[d].at \in {"dropping", "over"} /\ call'[d].code = call[d].code
  BY <1>s, <1>m, <1>4, ActivationAssumption DEF ActivationInv, ActivationShapes, RowIsHeld,
     Moved, InTransaction, At, PassChannel, Judging, Next1
<1>6. CallsAreOfAKind' /\ EntriesAreReal' /\ PassedAreShown' /\ RowIsHeld' /\ LoginIsOwn'
  BY <1>s, <1>m, <1>3, <1>4, <1>5, Aside DEF Moved, PassChannel, Judging, Next1
<1>7. LookupFindsTheCode'
  BY DEF ActivationInv, ActivationShapes, LookupFindsTheCode, PassChannel, Judging, Next1
<1> QED BY <1>1, <1>2, <1>6, <1>7 DEF ActivationInv

LEMMA RefuseKeeps ==
    ASSUME ActivationInv, NEW d \in Completions, RefuseCompletion(d)
    PROVE  ActivationInv'
<1>s. ActivationShapes /\ OfAKind(d) /\ d \in Callers
  BY DEF ActivationInv, CallsAreOfAKind, Callers
<1>m. Moved(d, "over")
  BY <1>s, Moving DEF Places, Registering, Callers, RefuseCompletion
<1>1. ActivationShapes'
  BY <1>s, <1>m DEF ActivationShapes, Moved, RefuseCompletion
<1>2. FlowsAreGrounded'
  <2>1. \A e \in Callers : Grounded(call'[e].read)
    BY <1>m DEF ActivationInv, FlowsAreGrounded, Moved, Grounded, GroundedIn
  <2> QED BY <2>1 DEF ActivationInv, FlowsAreGrounded, Grounded, GroundedIn, RefuseCompletion
<1>3. OfAKind(d)' /\ Entered(d)'
  <2>1. OfAKind(d)'
    BY <1>s, <1>m, ActivationAssumption DEF OfAKind, At, Moved, Registering, RefuseCompletion
  <2>2. ~Judging(d)'
    BY <1>m DEF Judging, Moved
  <2> QED BY <2>1, <2>2 DEF Entered
<1>4. d \in Completions => Passed(d)'
  BY <1>s, <1>m, ActivationAssumption DEF ActivationInv, ActivationShapes, PassedAreShown,
     RowIsHeld, Passed, Shown, Moved, Registering, InTransaction, RefuseCompletion, At
<1>5. /\ call[d].at \notin InTransaction /\ call'[d].at \notin InTransaction
      /\ account = d => call'[d].at \in {"dropping", "over"} /\ call'[d].code = call[d].code
  BY <1>s, <1>m, <1>4, ActivationAssumption DEF ActivationInv, ActivationShapes, RowIsHeld,
     Moved, InTransaction, At, RefuseCompletion
<1>6. CallsAreOfAKind' /\ EntriesAreReal' /\ PassedAreShown' /\ RowIsHeld' /\ LoginIsOwn'
  BY <1>s, <1>m, <1>3, <1>4, <1>5, Aside DEF Moved, RefuseCompletion
<1>7. LookupFindsTheCode'
  BY DEF ActivationInv, ActivationShapes, LookupFindsTheCode, RefuseCompletion
<1> QED BY <1>1, <1>2, <1>6, <1>7 DEF ActivationInv

LEMMA DropKeeps ==
    ASSUME ActivationInv, NEW d \in Completions, DropProofs(d)
    PROVE  ActivationInv'
<1>s. ActivationShapes /\ OfAKind(d) /\ d \in Callers
  BY DEF ActivationInv, CallsAreOfAKind, Callers
<1>m. Moved(d, "over")
  BY <1>s, Moving DEF Places, Registering, Callers, DropProofs
<1>n. /\ proof' \in [Codes -> [Kinds -> Verification \cup {Nil}]]
      /\ \A b \in Codes, h \in Kinds : proof'[b][h] \in {proof[b][h], Nil}
  <2>0. call[d].code \in Codes
    BY <1>s DEF OfAKind, At, DropProofs
  <2>1. PICK K \in SUBSET Kinds :
            proof' = [proof EXCEPT ![call[d].code] = [k \in Kinds |-> IF k \in K THEN Nil ELSE @[k]]]
    BY DEF DropProofs, Kinds
  <2>2. \A b \in Codes, h \in Kinds : proof'[b][h] \in {proof[b][h], Nil}
    BY <1>s, <2>0, <2>1 DEF ActivationShapes
  <2>3. [k \in Kinds |-> IF k \in K THEN Nil ELSE proof[call[d].code][k]] \in [Kinds -> Verification \cup {Nil}]
    BY <1>s, <2>0 DEF ActivationShapes
  <2> QED BY <1>s, <2>1, <2>2, <2>3 DEF ActivationShapes
<1>1. ActivationShapes'
  BY <1>s, <1>m, <1>n DEF ActivationShapes, Moved, DropProofs
<1>2. FlowsAreGrounded'
  <2>1. \A e \in Callers : Grounded(call'[e].read)
    BY <1>m DEF ActivationInv, FlowsAreGrounded, Moved, Grounded, GroundedIn
  <2>2. proven' = proven
    BY DEF DropProofs
  <2>3. \A b \in Codes, k \in Kinds : GroundedIn(proof[b][k], proven') /\ (proof[b][k] # Nil => Kind[proof[b][k].to] = k)
    BY <2>2 DEF ActivationInv, FlowsAreGrounded, Grounded
  <2>4. GroundedIn(Nil, proven')
    BY DEF GroundedIn
  <2>5. \A b \in Codes, k \in Kinds : GroundedIn(proof'[b][k], proven') /\ (proof'[b][k] # Nil => Kind[proof'[b][k].to] = k)
    BY <1>n, <2>3, <2>4
  <2>6. \A e \in Callers : GroundedIn(call'[e].read, proven')
    BY <2>1, <2>2 DEF Grounded
  <2> QED BY <2>5, <2>6 DEF FlowsAreGrounded, Grounded, GroundedIn
<1>3. OfAKind(d)' /\ Entered(d)'
  <2>1. OfAKind(d)'
    BY <1>s, <1>m, ActivationAssumption DEF OfAKind, At, Moved, Registering, DropProofs
  <2>2. ~Judging(d)'
    BY <1>m DEF Judging, Moved
  <2> QED BY <2>1, <2>2 DEF Entered
<1>4. d \in Completions => Passed(d)'
  BY <1>s, <1>m DEF ActivationInv, PassedAreShown, Passed, Shown, Moved, Registering,
     InTransaction, DropProofs, At
<1>5. /\ call[d].at \notin InTransaction /\ call'[d].at \notin InTransaction
      /\ account = d => call'[d].at \in {"dropping", "over"} /\ call'[d].code = call[d].code
  BY <1>s, <1>m, <1>4, ActivationAssumption DEF ActivationInv, ActivationShapes, RowIsHeld,
     Moved, InTransaction, At, DropProofs
<1>6. CallsAreOfAKind' /\ EntriesAreReal' /\ PassedAreShown' /\ RowIsHeld' /\ LoginIsOwn'
  BY <1>s, <1>m, <1>3, <1>4, <1>5, Aside DEF Moved, DropProofs
<1>7. LookupFindsTheCode'
  BY DEF ActivationInv, ActivationShapes, LookupFindsTheCode, DropProofs
<1> QED BY <1>1, <1>2, <1>6, <1>7 DEF ActivationInv

LEMMA CompleteKeeps ==
    ASSUME ActivationInv, NEW d \in Completions, NEW code \in HandedOut, Complete(d, code)
    PROVE  ActivationInv'
<1>s. ActivationShapes /\ OfAKind(d) /\ d \in Callers /\ code \in Codes
  BY DEF ActivationInv, CallsAreOfAKind, Callers, HandedOut, Codes, ActivationShapes, CallRows
<1>m. /\ call' \in [Callers \cup Issues -> CallRows]
      /\ call'[d].at = "phone" /\ call'[d].code = code /\ call'[d].read = call[d].read
      /\ \A e \in (Callers \cup Issues) \ {d} : call'[e] = call[e]
  <2>1. "phone" \in Places
    BY DEF Places, Registering
  <2>2. call[d] \in CallRows /\ d \in DOMAIN call
    BY <1>s DEF ActivationShapes
  <2>3. /\ [call[d] EXCEPT !.at = "phone", !.code = code] \in CallRows
        /\ [call[d] EXCEPT !.at = "phone", !.code = code].at = "phone"
        /\ [call[d] EXCEPT !.at = "phone", !.code = code].code = code
        /\ [call[d] EXCEPT !.at = "phone", !.code = code].read = call[d].read
    BY <1>s, <2>1, <2>2 DEF CallRows
  <2>4. call' = [call EXCEPT ![d] = [call[d] EXCEPT !.at = "phone", !.code = code]]
    BY <2>2 DEF Complete
  <2> QED BY <1>s, <2>2, <2>3, <2>4 DEF ActivationShapes
<1>1. ActivationShapes'
  <2>1. UNCHANGED <<slip, proof, received, heldBy, login, account, proven, strays, crossedFill, mishaps>>
    BY DEF Complete
  <2> QED BY <1>s, <1>m, <2>1 DEF ActivationShapes
<1>2. FlowsAreGrounded'
  <2>1. \A e \in Callers : Grounded(call'[e].read)
    BY <1>m, <1>s DEF ActivationInv, FlowsAreGrounded
  <2> QED BY <2>1 DEF ActivationInv, FlowsAreGrounded, Grounded, GroundedIn, Complete
<1>3. call[d].at \notin InTransaction /\ call'[d].at \notin InTransaction /\ account # d
  BY <1>s, <1>m, ActivationAssumption DEF ActivationInv, RowIsHeld, InTransaction, Complete, At
<1>4. OfAKind(d)' /\ Entered(d)' /\ Passed(d)'
  <2>1. OfAKind(d)' /\ Entered(d)'
    BY <1>s, <1>m DEF OfAKind, Entered, Judging, Registering
  <2>2. Passed(d)'
    BY <1>m, <1>3 DEF Passed, Registering, InTransaction, Complete
  <2> QED BY <2>1, <2>2
<1>5. CallsAreOfAKind' /\ EntriesAreReal' /\ PassedAreShown' /\ RowIsHeld' /\ LoginIsOwn'
  BY <1>s, <1>m, <1>3, <1>4, Aside DEF Complete
<1>6. LookupFindsTheCode'
  BY DEF ActivationInv, LookupFindsTheCode, Complete
<1> QED BY <1>1, <1>2, <1>5, <1>6 DEF ActivationInv

LEMMA LockKeeps ==
    ASSUME ActivationInv, NEW d \in Completions, LockActivation(d)
    PROVE  ActivationInv'
<1>s. ActivationShapes /\ OfAKind(d) /\ d \in Callers /\ d # Nil
  BY ActivationAssumption DEF ActivationInv, CallsAreOfAKind, Callers
<1>m. Moved(d, "begun")
  BY <1>s, Moving DEF Places, Registering, LockActivation
<1>0. \A e \in Callers \ {d} : call'[e] = call[e]
  BY <1>m DEF Moved
<1>g. /\ heldBy = Nil /\ heldBy' = d /\ ~slip.used /\ call[d].code = slip.code /\ account = Nil
      /\ call[d].at = "checked" /\ UNCHANGED <<slip, proof, received, login, account, proven, strays, crossedFill>>
  BY DEF LockActivation, Usable, At, ActivationInv, RowIsHeld
<1>1. ActivationShapes'
  BY <1>s, <1>m DEF ActivationShapes, Moved, LockActivation
<1>2. CallsAreOfAKind' /\ FlowsAreGrounded' /\ EntriesAreReal'
  <2>1. \A e \in Callers : Grounded(call'[e].read)
    BY <1>0, <1>m DEF ActivationInv, FlowsAreGrounded, Moved, Grounded, GroundedIn
  <2>2. OfAKind(d)' /\ Entered(d)'
    BY <1>s, <1>m, <1>g DEF OfAKind, Entered, Judging, Moved, Registering
  <2>3. CallsAreOfAKind'
    BY <1>0, <2>2 DEF ActivationInv, CallsAreOfAKind, OfAKind
  <2>4. FlowsAreGrounded'
    BY <1>g, <2>1 DEF ActivationInv, FlowsAreGrounded, Grounded, GroundedIn
  <2>5. EntriesAreReal'
    BY <1>0, <1>g, <2>2 DEF ActivationInv, EntriesAreReal, Entered, Judging, At
  <2> QED BY <2>3, <2>4, <2>5
<1>3. PassedAreShown'
  <2>1. Passed(d)'
    BY <1>m, <1>g DEF ActivationInv, PassedAreShown, Passed, Shown, Moved, Registering,
       InTransaction
  <2> QED BY <1>0, <1>g, <2>1 DEF ActivationInv, PassedAreShown, Passed, Shown, Callers
<1>4. RowIsHeld'
  BY <1>s, <1>m, <1>0, <1>g, ActivationAssumption DEF ActivationInv, RowIsHeld, Moved,
     Callers, InTransaction
<1>5. LoginIsOwn'
  BY <1>s, <1>m, <1>g DEF LoginIsOwn, HoldersLogin, LoginIsTheAccounts, Moved
<1>6. LookupFindsTheCode'
  BY <1>g DEF ActivationInv, LookupFindsTheCode
<1> QED BY <1>1, <1>2, <1>3, <1>4, <1>5, <1>6 DEF ActivationInv

LEMMA WriteUserKeeps ==
    ASSUME ActivationInv, NEW d \in Completions, WriteUser(d)
    PROVE  ActivationInv'
<1>s. ActivationShapes /\ d \in Callers /\ d # Nil
  BY ActivationAssumption DEF ActivationInv, Callers
<1>m. Moved(d, "user") /\ call[d].at \in InTransaction
  BY <1>s, Moving DEF Places, Registering, InTransaction, At, WriteUser
<1>1. ActivationShapes'
  BY <1>s, <1>m, ActivationAssumption DEF ActivationShapes, Moved, NobodysLogin, WriteUser
<1>2. CallsAreOfAKind' /\ FlowsAreGrounded' /\ EntriesAreReal' /\ PassedAreShown' /\ RowIsHeld'
  BY <1>m, Within DEF WriteUser
<1>3. LookupFindsTheCode'
  BY DEF ActivationInv, LookupFindsTheCode, WriteUser
<1>4. LoginIsOwn'
  <2>1. heldBy # Nil /\ heldBy # d => call'[heldBy] = call[heldBy] /\ d \in strays
    BY <1>m DEF ActivationInv, ActivationShapes, RowIsHeld, Moved, Callers
  <2>2. account # Nil => d \in strays
    BY <1>m, <1>s DEF ActivationInv, RowIsHeld
  <2>3. login.email = login["email"] /\ login.password = login["password"] /\ login.phone = login["phone"]
    OBVIOUS
  <2>4. \A f \in {"email", "phone", "password"} : login'[f] \in {login[f], d}
    BY <1>s DEF ActivationShapes, WriteUser
  <2>5. LoginIsTheAccounts'
    BY <1>1, <1>s, <2>2, <2>4 DEF ActivationInv, ActivationShapes, LoginIsOwn,
       LoginIsTheAccounts, WriteUser
  <2>6. HoldersLogin'
    BY <1>s, <1>m, <2>1, <2>4 DEF ActivationInv, ActivationShapes, LoginIsOwn, HoldersLogin,
       Moved, At, WriteUser
  <2> QED BY <2>5, <2>6 DEF LoginIsOwn
<1> QED BY <1>1, <1>2, <1>3, <1>4 DEF ActivationInv

LEMMA PasswordKeeps ==
    ASSUME ActivationInv, NEW d \in Completions, SetUserPassword(d)
    PROVE  ActivationInv'
<1>s. ActivationShapes /\ d \in Callers /\ d # Nil
  BY ActivationAssumption DEF ActivationInv, Callers
<1>m. Moved(d, "password") /\ call[d].at \in InTransaction
  BY <1>s, Moving DEF Places, Registering, InTransaction, At, SetUserPassword
<1>1. ActivationShapes'
  BY <1>s, <1>m, ActivationAssumption DEF ActivationShapes, Moved, NobodysLogin, SetUserPassword
<1>2. CallsAreOfAKind' /\ FlowsAreGrounded' /\ EntriesAreReal' /\ PassedAreShown' /\ RowIsHeld'
  BY <1>m, Within DEF SetUserPassword
<1>3. LookupFindsTheCode'
  BY DEF ActivationInv, LookupFindsTheCode, SetUserPassword
<1>4. LoginIsOwn'
  <2>1. heldBy # Nil /\ heldBy # d => call'[heldBy] = call[heldBy] /\ d \in strays
    BY <1>m DEF ActivationInv, ActivationShapes, RowIsHeld, Moved, Callers
  <2>2. account # Nil => d \in strays
    BY <1>m, <1>s DEF ActivationInv, RowIsHeld
  <2>3. login.email = login["email"] /\ login.password = login["password"] /\ login.phone = login["phone"]
    OBVIOUS
  <2>4. \A f \in {"email", "phone", "password"} : login'[f] \in {login[f], d}
    BY <1>s DEF ActivationShapes, SetUserPassword
  <2>5. LoginIsTheAccounts'
    BY <1>1, <1>s, <2>2, <2>4 DEF ActivationInv, ActivationShapes, LoginIsOwn,
       LoginIsTheAccounts, SetUserPassword
  <2>6. HoldersLogin'
    BY <1>s, <1>m, <2>1, <2>4 DEF ActivationInv, ActivationShapes, LoginIsOwn, HoldersLogin,
       Moved, At, SetUserPassword
  <2> QED BY <2>5, <2>6 DEF LoginIsOwn
<1> QED BY <1>1, <1>2, <1>3, <1>4 DEF ActivationInv

LEMMA ContactsKeep ==
    ASSUME ActivationInv, NEW d \in Completions, UpdateContacts(d)
    PROVE  ActivationInv'
<1>s. ActivationShapes /\ d \in Callers /\ d # Nil
  BY ActivationAssumption DEF ActivationInv, Callers
<1>m. Moved(d, "contacts") /\ call[d].at \in InTransaction
  BY <1>s, Moving DEF Places, Registering, InTransaction, At, UpdateContacts
<1>1. ActivationShapes'
  BY <1>s, <1>m, ActivationAssumption DEF ActivationShapes, Moved, NobodysLogin, UpdateContacts
<1>2. CallsAreOfAKind' /\ FlowsAreGrounded' /\ EntriesAreReal' /\ PassedAreShown' /\ RowIsHeld'
  BY <1>m, Within DEF UpdateContacts
<1>3. LookupFindsTheCode'
  BY DEF ActivationInv, LookupFindsTheCode, UpdateContacts
<1>4. LoginIsOwn'
  <2>1. heldBy # Nil /\ heldBy # d => call'[heldBy] = call[heldBy] /\ d \in strays
    BY <1>m DEF ActivationInv, ActivationShapes, RowIsHeld, Moved, Callers
  <2>2. account # Nil => d \in strays
    BY <1>m, <1>s DEF ActivationInv, RowIsHeld
  <2>3. login.email = login["email"] /\ login.password = login["password"] /\ login.phone = login["phone"]
    OBVIOUS
  <2>4. \A f \in {"email", "phone", "password"} : login'[f] \in {login[f], d}
    BY <1>s DEF ActivationShapes, UpdateContacts
  <2>5. LoginIsTheAccounts'
    BY <1>1, <1>s, <2>2, <2>4 DEF ActivationInv, ActivationShapes, LoginIsOwn,
       LoginIsTheAccounts, UpdateContacts
  <2>6. HoldersLogin'
    BY <1>s, <1>m, <2>1, <2>4 DEF ActivationInv, ActivationShapes, LoginIsOwn, HoldersLogin,
       Moved, At, UpdateContacts
  <2> QED BY <2>5, <2>6 DEF LoginIsOwn
<1> QED BY <1>1, <1>2, <1>3, <1>4 DEF ActivationInv

LEMMA FailureKeeps ==
    ASSUME ActivationInv, NEW d \in Completions, CompletionFails(d)
    PROVE  ActivationInv'
<1>s. ActivationShapes /\ d \in Callers /\ d # Nil
  BY ActivationAssumption DEF ActivationInv, Callers
<1>m. Moved(d, "over") /\ call[d].at \in InTransaction
  BY <1>s, Moving DEF Places, Registering, InTransaction, At, CompletionFails, Release, Mishap
<1>1. ActivationShapes'
  BY <1>s, <1>m, ActivationAssumption DEF ActivationShapes, Moved, NobodysLogin,
     CompletionFails, Release, Mishap
<1>2. CallsAreOfAKind' /\ FlowsAreGrounded' /\ EntriesAreReal' /\ PassedAreShown' /\ RowIsHeld'
  BY <1>m, Within DEF CompletionFails, Release, Mishap
<1>3. LookupFindsTheCode'
  BY DEF ActivationInv, LookupFindsTheCode, CompletionFails, Release, Mishap
<1>4. LoginIsOwn'
  <2>1. heldBy' # Nil => heldBy' = heldBy /\ heldBy # d /\ call'[heldBy] = call[heldBy]
    BY <1>m DEF ActivationInv, ActivationShapes, Moved, Callers, CompletionFails, Release, Mishap
  <2> QED BY <2>1 DEF ActivationInv, LoginIsOwn, HoldersLogin, LoginIsTheAccounts,
     CompletionFails, Release, Mishap
<1> QED BY <1>1, <1>2, <1>3, <1>4 DEF ActivationInv

LEMMA NoticeKeeps ==
    ASSUME ActivationInv, NEW d \in Completions, NoticeLoss(d)
    PROVE  ActivationInv'
<1>s. ActivationShapes /\ d \in Callers /\ d # Nil
  BY ActivationAssumption DEF ActivationInv, Callers
<1>m. Moved(d, "over") /\ call[d].at \in InTransaction
  BY <1>s, Moving DEF Places, Registering, InTransaction, At, NoticeLoss
<1>1. ActivationShapes'
  BY <1>s, <1>m, ActivationAssumption DEF ActivationShapes, Moved, NobodysLogin, NoticeLoss
<1>2. CallsAreOfAKind' /\ FlowsAreGrounded' /\ EntriesAreReal' /\ PassedAreShown' /\ RowIsHeld'
  BY <1>m, Within DEF NoticeLoss
<1>3. LookupFindsTheCode'
  BY DEF ActivationInv, LookupFindsTheCode, NoticeLoss
<1>4. LoginIsOwn'
  <2>1. heldBy' # Nil => heldBy' = heldBy /\ heldBy # d /\ call'[heldBy] = call[heldBy]
    BY <1>m DEF ActivationInv, ActivationShapes, Moved, Callers, NoticeLoss
  <2> QED BY <2>1 DEF ActivationInv, LoginIsOwn, HoldersLogin, LoginIsTheAccounts, NoticeLoss
<1> QED BY <1>1, <1>2, <1>3, <1>4 DEF ActivationInv

LEMMA CommitKeeps ==
    ASSUME ActivationInv, NEW d \in Completions, Commit(d)
    PROVE  ActivationInv'
<1>s. ActivationShapes /\ OfAKind(d) /\ d \in Callers /\ d # Nil
  BY ActivationAssumption DEF ActivationInv, CallsAreOfAKind, Callers
<1>m. Moved(d, "dropping")
  BY <1>s, Moving DEF Places, Registering, Commit
<1>0. \A e \in Callers \ {d} : call'[e] = call[e]
  BY <1>m DEF Moved
<1>g. /\ heldBy = d /\ heldBy' = Nil /\ account = Nil /\ account' = d /\ call[d].code = slip.code
      /\ slip' = [slip EXCEPT !.used = TRUE] /\ call[d].at = "contacts"
      /\ UNCHANGED <<proof, received, login, proven, strays, crossedFill>>
  BY <1>s DEF At, ActivationInv, RowIsHeld, Commit, EnsureStaffIdentity, Release
<1>u. slip'.used /\ slip'.code = slip.code /\ slip'.lookup = slip.lookup
  BY <1>s, <1>g DEF ActivationShapes
<1>1. ActivationShapes'
  <2>1. mishaps' \in 0..MaxMishaps
    BY <1>s, ActivationAssumption DEF ActivationShapes, Mishap, Commit
  <2> QED BY <1>s, <1>m, <1>g, <2>1 DEF ActivationShapes, Moved
<1>2. CallsAreOfAKind' /\ FlowsAreGrounded' /\ EntriesAreReal'
  <2>1. \A e \in Callers : Grounded(call'[e].read)
    BY <1>0, <1>m DEF ActivationInv, FlowsAreGrounded, Moved, Grounded, GroundedIn
  <2>2. OfAKind(d)' /\ Entered(d)'
    BY <1>s, <1>m, <1>g DEF OfAKind, Entered, Judging, Moved, Registering
  <2>3. CallsAreOfAKind'
    BY <1>0, <2>2 DEF ActivationInv, CallsAreOfAKind, OfAKind
  <2>4. FlowsAreGrounded'
    BY <1>g, <2>1 DEF ActivationInv, FlowsAreGrounded, Grounded, GroundedIn
  <2>5. EntriesAreReal'
    BY <1>0, <1>g, <2>2 DEF ActivationInv, EntriesAreReal, Entered, Judging, At
  <2> QED BY <2>3, <2>4, <2>5
<1>3. PassedAreShown'
  <2>1. Shown(d, "phone") /\ Shown(d, "email")
    BY <1>g DEF ActivationInv, PassedAreShown, Passed, Registering, InTransaction
  <2> QED BY <1>0, <1>g, <2>1 DEF ActivationInv, PassedAreShown, Passed, Shown, Callers
<1>4. RowIsHeld'
  BY <1>s, <1>m, <1>0, <1>g, <1>u DEF ActivationInv, RowIsHeld, Moved, Callers, InTransaction
<1>5. LoginIsOwn'
  <2>1. /\ login["email"] \in {d} \cup strays /\ login["password"] \in {d} \cup strays
        /\ login["phone"] \in {d} \cup strays
    BY <1>g, <1>s DEF ActivationInv, LoginIsOwn, HoldersLogin
  <2> QED BY <1>g, <1>s, <2>1 DEF ActivationShapes, LoginIsOwn, HoldersLogin, LoginIsTheAccounts
<1>6. LookupFindsTheCode'
  BY <1>g, <1>u DEF ActivationInv, LookupFindsTheCode
<1> QED BY <1>1, <1>2, <1>3, <1>4, <1>5, <1>6 DEF ActivationInv

LEMMA UnackedKeeps ==
    ASSUME ActivationInv, NEW d \in Completions, CommitUnacked(d)
    PROVE  ActivationInv'
<1>s. ActivationShapes /\ OfAKind(d) /\ d \in Callers /\ d # Nil
  BY ActivationAssumption DEF ActivationInv, CallsAreOfAKind, Callers
<1>m. Moved(d, "over")
  BY <1>s, Moving DEF Places, Registering, CommitUnacked
<1>0. \A e \in Callers \ {d} : call'[e] = call[e]
  BY <1>m DEF Moved
<1>g. /\ heldBy = d /\ heldBy' = Nil /\ account = Nil /\ account' = d /\ call[d].code = slip.code
      /\ slip' = [slip EXCEPT !.used = TRUE] /\ call[d].at = "contacts"
      /\ UNCHANGED <<proof, received, login, proven, strays, crossedFill>>
  BY <1>s DEF At, ActivationInv, RowIsHeld, CommitUnacked, EnsureStaffIdentity, Release, Mishap
<1>u. slip'.used /\ slip'.code = slip.code /\ slip'.lookup = slip.lookup
  BY <1>s, <1>g DEF ActivationShapes
<1>1. ActivationShapes'
  <2>1. mishaps' \in 0..MaxMishaps
    BY <1>s, ActivationAssumption DEF ActivationShapes, Mishap, CommitUnacked
  <2> QED BY <1>s, <1>m, <1>g, <2>1 DEF ActivationShapes, Moved
<1>2. CallsAreOfAKind' /\ FlowsAreGrounded' /\ EntriesAreReal'
  <2>1. \A e \in Callers : Grounded(call'[e].read)
    BY <1>0, <1>m DEF ActivationInv, FlowsAreGrounded, Moved, Grounded, GroundedIn
  <2>2. OfAKind(d)' /\ Entered(d)'
    BY <1>s, <1>m, <1>g DEF OfAKind, Entered, Judging, Moved, Registering
  <2>3. CallsAreOfAKind'
    BY <1>0, <2>2 DEF ActivationInv, CallsAreOfAKind, OfAKind
  <2>4. FlowsAreGrounded'
    BY <1>g, <2>1 DEF ActivationInv, FlowsAreGrounded, Grounded, GroundedIn
  <2>5. EntriesAreReal'
    BY <1>0, <1>g, <2>2 DEF ActivationInv, EntriesAreReal, Entered, Judging, At
  <2> QED BY <2>3, <2>4, <2>5
<1>3. PassedAreShown'
  <2>1. Shown(d, "phone") /\ Shown(d, "email")
    BY <1>g DEF ActivationInv, PassedAreShown, Passed, Registering, InTransaction
  <2> QED BY <1>0, <1>g, <2>1 DEF ActivationInv, PassedAreShown, Passed, Shown, Callers
<1>4. RowIsHeld'
  BY <1>s, <1>m, <1>0, <1>g, <1>u DEF ActivationInv, RowIsHeld, Moved, Callers, InTransaction
<1>5. LoginIsOwn'
  <2>1. /\ login["email"] \in {d} \cup strays /\ login["password"] \in {d} \cup strays
        /\ login["phone"] \in {d} \cup strays
    BY <1>g, <1>s DEF ActivationInv, LoginIsOwn, HoldersLogin
  <2> QED BY <1>g, <1>s, <2>1 DEF ActivationShapes, LoginIsOwn, HoldersLogin, LoginIsTheAccounts
<1>6. LookupFindsTheCode'
  BY <1>g, <1>u DEF ActivationInv, LookupFindsTheCode
<1> QED BY <1>1, <1>2, <1>3, <1>4, <1>5, <1>6 DEF ActivationInv

LEMMA LossKeeps ==
    ASSUME ActivationInv, NEW d \in Completions, LoseConnection(d)
    PROVE  ActivationInv'
<1>0. /\ heldBy = d /\ heldBy' = Nil /\ strays' = strays \cup {d}
      /\ UNCHANGED <<slip, proof, received, call, login, account, proven, crossedFill>>
  BY DEF LoseConnection, Release
<1>1. ActivationShapes'
  BY <1>0, ActivationAssumption DEF ActivationInv, ActivationShapes, LoseConnection, Mishap
<1>2. CallsAreOfAKind' /\ FlowsAreGrounded' /\ EntriesAreReal' /\ PassedAreShown'
  BY <1>0 DEF ActivationInv, CallsAreOfAKind, OfAKind, FlowsAreGrounded, Grounded, GroundedIn,
     EntriesAreReal, Entered,
     Judging, At, PassedAreShown, Passed, Shown
<1>3. RowIsHeld' /\ LoginIsOwn' /\ LookupFindsTheCode'
  BY <1>0 DEF ActivationInv, RowIsHeld, LoginIsOwn, HoldersLogin, LoginIsTheAccounts,
     LookupFindsTheCode
<1> QED BY <1>1, <1>2, <1>3 DEF ActivationInv

LEMMA RestartKeeps ==
    ASSUME ActivationInv, Restart
    PROVE  ActivationInv'
<1>s. ActivationShapes
  BY DEF ActivationInv
<1>0. /\ heldBy' = Nil
      /\ UNCHANGED <<slip, proof, received, login, account, proven, strays, crossedFill>>
  BY DEF Restart
<1>m. \A c \in Callers \cup Issues :
          /\ call[c] \in CallRows
          /\ call[c].at = "idle" => call'[c] = call[c]
          /\ call[c].at # "idle" =>
                call'[c] = [at |-> "over", code |-> call[c].code, to |-> Nil, digits |-> Mistyped, read |-> Nil]
  BY <1>s DEF ActivationShapes, Restart, NotCalled
<1>n. /\ call' \in [Callers \cup Issues -> CallRows]
      /\ \A c \in Callers \cup Issues :
            \/ call'[c] = call[c] /\ call[c].at = "idle"
            \/ call'[c].at = "over" /\ call'[c].code = call[c].code /\ call'[c].read = Nil
  <2>1. \A c \in Callers \cup Issues : call'[c] \in CallRows
    <3> TAKE c \in Callers \cup Issues
    <3>1. CASE call[c].at = "idle"
      BY <3>1, <1>m
    <3>2. CASE call[c].at # "idle"
      <4>1. call[c].code \in Codes \cup {Nil}
        BY <1>m DEF CallRows
      <4>2. "over" \in Places
        BY DEF Places
      <4>3. [at |-> "over", code |-> call[c].code, to |-> Nil, digits |-> Mistyped, read |-> Nil] \in CallRows
        BY <4>1, <4>2 DEF CallRows
      <4> QED BY <3>2, <4>3, <1>m
    <3> QED BY <3>1, <3>2
  <2>2. call' = [c \in Callers \cup Issues |-> call'[c]]
    <3>1. DOMAIN call = Callers \cup Issues
      BY <1>s DEF ActivationShapes
    <3>2. call' = [c \in DOMAIN call |-> IF call[c].at = "idle" THEN call[c]
                                        ELSE [NotCalled EXCEPT !.at = "over", !.code = call[c].code]]
      BY Zenon DEF Restart
    <3>3. call' = [c \in Callers \cup Issues |-> IF call[c].at = "idle" THEN call[c]
                                              ELSE [NotCalled EXCEPT !.at = "over", !.code = call[c].code]]
      BY <3>1, <3>2, Zenon
    <3> HIDE DEF NotCalled
    <3> QED BY <3>3
  <2>3. \A c \in Callers \cup Issues : call[c].at # "idle" =>
            call'[c].at = "over" /\ call'[c].code = call[c].code /\ call'[c].read = Nil
    <3> SUFFICES ASSUME NEW c \in Callers \cup Issues, call[c].at # "idle"
                 PROVE  call'[c].at = "over" /\ call'[c].code = call[c].code /\ call'[c].read = Nil
      OBVIOUS
    <3>1. call'[c] = [at |-> "over", code |-> call[c].code, to |-> Nil, digits |-> Mistyped, read |-> Nil]
      BY <1>m
    <3> QED BY <3>1
  <2>4. call' \in [Callers \cup Issues -> CallRows]
    BY <2>1, <2>2
  <2> QED BY <1>m, <2>3, <2>4
<1>1. ActivationShapes'
  <2>1. mishaps' \in 0..MaxMishaps
    <3>1. mishaps \in 0..MaxMishaps /\ MaxMishaps \in Nat
      BY <1>s, ActivationAssumption DEF ActivationShapes
    <3>2. mishaps < MaxMishaps /\ mishaps' = mishaps + 1
      BY DEF Restart, Mishap
    <3> QED BY <3>1, <3>2
  <2> QED BY <1>s, <1>0, <1>n, <2>1 DEF ActivationShapes
<1>2. CallsAreOfAKind' /\ EntriesAreReal'
  BY <1>0, <1>n DEF ActivationInv, CallsAreOfAKind, OfAKind, EntriesAreReal, Entered, Judging,
     At, Callers
<1>3. FlowsAreGrounded'
  <2>1. \A e \in Callers : Grounded(call'[e].read)
    BY <1>n DEF ActivationInv, FlowsAreGrounded, Grounded, GroundedIn
  <2> QED BY <1>0, <2>1 DEF ActivationInv, FlowsAreGrounded, Grounded, GroundedIn
<1>4. PassedAreShown'
  <2>1. \A d \in Completions : call'[d].at \in {"idle", "over"}
    BY <1>n DEF Callers
  <2> QED BY <1>0, <2>1 DEF ActivationInv, PassedAreShown, Passed, Shown, InTransaction, Registering
<1>5. RowIsHeld'
  <2>1. \A d \in Completions : call'[d].at \in {"idle", "over"}
    BY <1>n DEF Callers
  <2>2. account # Nil => call'[account].at = "over" /\ call'[account].code = call[account].code
    BY <1>s, <1>n DEF ActivationInv, ActivationShapes, RowIsHeld, Callers
  <2> QED BY <1>0, <2>1, <2>2 DEF ActivationInv, RowIsHeld, InTransaction
<1>6. LoginIsOwn' /\ LookupFindsTheCode'
  BY <1>0 DEF ActivationInv, LoginIsOwn, HoldersLogin, LoginIsTheAccounts, LookupFindsTheCode
<1> QED BY <1>1, <1>2, <1>3, <1>4, <1>5, <1>6 DEF ActivationInv

LEMMA ActivationStutter ==
    ASSUME ActivationInv, UNCHANGED activationVars
    PROVE  ActivationInv'
<1>1. ActivationShapes' /\ CallsAreOfAKind' /\ RowIsHeld'
  BY DEF activationVars, ActivationInv, ActivationShapes, CallsAreOfAKind, OfAKind, RowIsHeld
<1>2. FlowsAreGrounded' /\ EntriesAreReal' /\ PassedAreShown'
  BY DEF activationVars, ActivationInv, FlowsAreGrounded, Grounded, GroundedIn,
     EntriesAreReal, Entered, Judging,
     At, PassedAreShown, Passed, Shown
<1>3. LoginIsOwn' /\ LookupFindsTheCode'
  BY DEF activationVars, ActivationInv, LoginIsOwn, HoldersLogin, LoginIsTheAccounts,
     LookupFindsTheCode
<1> QED BY <1>1, <1>2, <1>3 DEF ActivationInv

LEMMA ActivationStep ==
    ASSUME ActivationInv, ActivationNext
    PROVE  ActivationInv'
BY IssueKeeps, CodeExpiryKeeps, LapseKeeps, FindKeeps, FillKeeps, StoreKeeps, DeliverKeeps,
   UndeliveredKeeps, ReadKeeps, NoProofKeeps, MismatchKeeps, VerifyKeeps, PassKeeps,
   RefuseKeeps, DropKeeps, CompleteKeeps, LockKeeps, WriteUserKeeps, PasswordKeeps,
   ContactsKeep, FailureKeeps, NoticeKeeps, CommitKeeps, UnackedKeeps, LossKeeps, RestartKeeps
   DEF ActivationNext

LEMMA ActivationStarts == ActivationInit => ActivationInv
<1> SUFFICES ASSUME NEW S \in SUBSET (Callers \cup Issues), NEW done \in SUBSET Sends,
                    NEW legacy \in BOOLEAN, ActivationInitWith(S, done, legacy)
             PROVE  ActivationInv
  BY DEF ActivationInit
<1>0. \A k \in Kinds : proof[FirstCode][k] # Nil =>
          \E s \in done : Kind[SendTo[s]] = k
             /\ proof[FirstCode][k] = [to |-> SendTo[s], digits |-> s, tries |-> 0, verified |-> TRUE]
  <2> TAKE k \in Kinds
  <2>1. CASE \E s \in done : Kind[SendTo[s]] = k
    <3> DEFINE s == CHOOSE t \in done : Kind[SendTo[t]] = k
    <3>1. s \in done /\ Kind[SendTo[s]] = k
      BY <2>1
    <3>2. proof[FirstCode][k] = [to |-> SendTo[s], digits |-> s, tries |-> 0, verified |-> TRUE]
      BY <2>1 DEF ActivationInitWith, Codes
    <3> QED BY <3>1, <3>2
  <2>2. CASE ~ \E s \in done : Kind[SendTo[s]] = k
    BY <2>2 DEF ActivationInitWith, Codes
  <2> QED BY <2>1, <2>2
<1>1. \A c \in Codes, k \in Kinds : proof[c][k] \in Verification \cup {Nil}
                                     /\ (c # FirstCode => proof[c][k] = Nil)
  <2>1. \A c \in Codes, k \in Kinds : c # FirstCode => proof[c][k] = Nil
    BY DEF ActivationInitWith
  <2>2. \A s \in Sends : [to |-> SendTo[s], digits |-> s, tries |-> 0, verified |-> TRUE] \in Verification
    <3>1. \A s \in Sends : SendTo[s] \in Contacts
      BY ActivationAssumption
    <3>2. MaxTries \in Nat
      BY ActivationAssumption
    <3>3. 0 \in 0 .. MaxTries
      BY <3>2
    <3> QED BY <3>1, <3>3 DEF Verification
  <2> TAKE c \in Codes, k \in Kinds
  <2>3. CASE c # FirstCode \/ proof[c][k] = Nil
    BY <2>1, <2>3
  <2>4. CASE c = FirstCode /\ proof[c][k] # Nil
    <3>1. PICK s \in done : proof[c][k] = [to |-> SendTo[s], digits |-> s, tries |-> 0, verified |-> TRUE]
      BY <1>0, <2>4
    <3> QED BY <2>2, <2>4, <3>1
  <2> QED BY <2>3, <2>4
<1>2. ActivationShapes
  <2>1. proof \in [Codes -> [Kinds -> Verification \cup {Nil}]]
    <3>1. proof = [c \in Codes |-> [k \in Kinds |-> proof[c][k]]]
      BY DEF ActivationInitWith
    <3> QED BY <1>1, <3>1
  <2>2. call \in [Callers \cup Issues -> CallRows]
    <3>1. \A place \in {"idle", "over"} : [NotCalled EXCEPT !.at = place] \in CallRows
      BY DEF NotCalled, CallRows, Places
    <3> QED BY <3>1 DEF ActivationInitWith
  <2>3. slip \in [code : Codes, lookup : Codes \cup {Nil}, dated : BOOLEAN, expired : BOOLEAN, used : BOOLEAN]
    BY DEF ActivationInitWith, Codes
  <2>4. login \in [{"email", "phone", "password"} -> Completions \cup {Nil}]
    <3>1. [email |-> Nil, phone |-> Nil, password |-> Nil]
             \in [{"email", "phone", "password"} -> Completions \cup {Nil}]
      <4>1. \A C, d : d \in C => [email |-> d, phone |-> d, password |-> d] \in [{"email", "phone", "password"} -> C]
        OBVIOUS
      <4> QED BY <4>1
    <3> QED BY <3>1 DEF ActivationInitWith, NobodysLogin
  <2>5. mishaps \in 0..MaxMishaps
    BY ActivationAssumption DEF ActivationInitWith
  <2>6. received \subseteq Sends /\ proven \subseteq received /\ strays \subseteq Completions /\ crossedFill \in BOOLEAN
    BY DEF ActivationInitWith
  <2>7. heldBy = Nil /\ account = Nil
    BY DEF ActivationInitWith
  <2> QED BY <2>1, <2>2, <2>3, <2>4, <2>5, <2>6, <2>7 DEF ActivationShapes
<1>3. CallsAreOfAKind /\ EntriesAreReal /\ PassedAreShown /\ RowIsHeld /\ LoginIsOwn /\ LookupFindsTheCode
  BY ActivationAssumption DEF ActivationInitWith, CallsAreOfAKind, OfAKind, EntriesAreReal,
     Entered, Judging, At, PassedAreShown, Passed,
     RowIsHeld, LoginIsOwn, HoldersLogin, LoginIsTheAccounts, LookupFindsTheCode, NotCalled, Callers,
     InTransaction, Registering
<1>4. FlowsAreGrounded
  BY <1>0, <1>1, ActivationAssumption DEF ActivationInitWith, FlowsAreGrounded, Grounded,
     GroundedIn, Callers, NotCalled
<1> QED BY <1>2, <1>3, <1>4 DEF ActivationInv

\* Whatever calls overlap, fail or lose their connection, an account's contacts were proven,
\* its login is its own and its code registered once (account-activation.service.ts complete).
THEOREM SoundActivations == ActivationSpec => []ActivationsAreSound
<1>1. ActivationSpec => []ActivationInv
  <2>1. ActivationInv /\ [ActivationNext]_activationVars => ActivationInv'
    BY ActivationStep, ActivationStutter
  <2> QED BY ActivationStarts, <2>1, PTL DEF ActivationSpec
<1>2. ActivationInv => ActivationsAreSound
  <2> SUFFICES ASSUME ActivationInv PROVE ActivationsAreSound
    OBVIOUS
  <2>1. ActivationTypeOK
    BY DEF ActivationInv, ActivationShapes, FlowsAreGrounded, ActivationTypeOK
  <2>2. ContactsWereProven
    BY DEF ActivationInv, ActivationShapes, PassedAreShown, Passed, Shown, ContactsWereProven, Kinds
  <2>3. CodesRegisterOnce
    BY ActivationAssumption DEF ActivationInv, ActivationShapes, RowIsHeld, CodesRegisterOnce
  <2> QED BY <2>1, <2>2, <2>3 DEF ActivationInv, LoginIsOwn, ActivationsAreSound
<1> QED BY <1>1, <1>2, PTL
=============================================================================
