--------------------------- MODULE PasswordReset ---------------------------
(***************************************************************************)
(* Resetting a forgotten password of one account (auth.service.ts).        *)
(*                                                                         *)
(* A request stores a fresh code under a key of the account and sends it;  *)
(* a verification reads the key, compares, and either writes it back with  *)
(* one more attempt or trades it for a reset token; a confirmation takes   *)
(* the token.  Redis keeps each value; nothing orders the calls, and only  *)
(* the token is taken in one step.                                         *)
(***************************************************************************)
EXTENDS Naturals, FiniteSets, Sequences

CONSTANTS
    Askings,        \* calls of requestPasswordReset; each makes a code, named after it
    Checks,         \* calls of verifyPasswordResetCode; each may make a token
    Confirmations,  \* calls of confirmPasswordReset
    MaxAttempts,    \* 5
    Wrong,          \* a code that was never sent
    NoCode

ASSUME ResetAssumption ==
    /\ MaxAttempts \in Nat \ {0}
    /\ Wrong \notin Askings /\ NoCode \notin Askings
    /\ Askings \cap Checks = {} /\ Confirmations \cap (Askings \cup Checks) = {}

ResetCalls == Askings \cup Checks \cup Confirmations

VARIABLES
    flow,       \* the code in force and its attempts
    tokens,     \* reset tokens in Redis, named after the check that made them
    inbox,      \* the codes that reached the user, in this order
    reset,      \* where each call is, and what it has read
    password,   \* how often the password was set
    overlapped, \* history: codes stored while a check or an asking was under way
    shared      \* history: codes two checks held at once

resetVars == <<flow, tokens, inbox, reset, password, overlapped, shared>>

NoFlow == [code |-> NoCode, attempts |-> 0]
Resting == [step |-> "idle", typed |-> NoCode, flow |-> NoFlow]

ResetInit ==
    /\ flow = NoFlow /\ tokens = {} /\ inbox = <<>> /\ password = 0
    /\ reset = [c \in ResetCalls |-> Resting]
    /\ overlapped = {} /\ shared = {}

Step(c, from, to) == reset[c].step = from /\ reset' = [reset EXCEPT ![c].step = to]

Busy == {c \in Askings \cup Checks : reset[c].step \notin {"idle", "strayed", "done"}}

-----------------------------------------------------------------------------
\* requestPasswordReset: store, send, and take back what could not be sent.
StoreCode(r) ==
    /\ r \in Askings /\ Step(r, "idle", "sending")
    /\ flow' = [code |-> r, attempts |-> 0]
    /\ overlapped' = IF Busy # {} THEN overlapped \cup {r} \cup (Busy \cap Askings) ELSE overlapped
    /\ UNCHANGED <<tokens, inbox, password, shared>>

SendCode(r) ==
    /\ r \in Askings /\ Step(r, "sending", "done")
    /\ inbox' = Append(inbox, r)
    /\ UNCHANGED <<flow, tokens, password, overlapped, shared>>

SendingFails(r) ==
    /\ r \in Askings /\ Step(r, "sending", "done")
    /\ flow' = NoFlow
    /\ UNCHANGED <<tokens, inbox, password, overlapped, shared>>

-----------------------------------------------------------------------------
\* verifyPasswordResetCode: read the code in force, then compare with what was typed.
ReadFlow(v, typed) ==
    /\ v \in Checks /\ reset[v].step = "idle" /\ flow # NoFlow
    /\ typed = Wrong \/ \E i \in DOMAIN inbox : inbox[i] = typed
    /\ reset' = [reset EXCEPT ![v] = [step |-> "read", typed |-> typed, flow |-> flow]]
    /\ shared' = IF \E w \in Checks : reset[w].step \in {"read", "traded"} /\ reset[w].flow.code = flow.code
                 THEN shared \cup {flow.code} ELSE shared
    /\ overlapped' = IF Busy \cap Askings # {} THEN overlapped \cup (Busy \cap Askings) ELSE overlapped
    /\ UNCHANGED <<flow, tokens, inbox, password>>

\* The code was asked for on another surface: whatever is in force is dropped, and
\* the check is none.
ReadStray(v) ==
    /\ v \in Checks /\ flow # NoFlow
    /\ Step(v, "idle", "strayed")
    /\ UNCHANGED <<flow, tokens, inbox, password, overlapped, shared>>

DropStray(v) ==
    /\ v \in Checks /\ Step(v, "strayed", "idle")
    /\ flow' = NoFlow
    /\ UNCHANGED <<tokens, inbox, password, overlapped, shared>>

\* Slip: the code is dropped one attempt too late.
MutantCountMismatch(v) ==
    LET f == reset[v].flow IN
    /\ v \in Checks /\ reset[v].typed # f.code
    /\ Step(v, "read", "done")
    /\ flow' = IF f.attempts + 1 > MaxAttempts THEN NoFlow ELSE [f EXCEPT !.attempts = @ + 1]
    /\ UNCHANGED <<tokens, inbox, password, overlapped, shared>>

\* The flow that was read is written back, over whatever is there by now.
CountMismatch(v) ==
    LET f == reset[v].flow IN
    /\ v \in Checks /\ reset[v].typed # f.code
    /\ Step(v, "read", "done")
    /\ flow' = IF f.attempts + 1 >= MaxAttempts THEN NoFlow ELSE [f EXCEPT !.attempts = @ + 1]
    /\ UNCHANGED <<tokens, inbox, password, overlapped, shared>>

\* The code is right: a token is stored, ...
TradeCode(v) ==
    /\ v \in Checks /\ reset[v].typed = reset[v].flow.code
    /\ Step(v, "read", "traded")
    /\ tokens' = tokens \cup {v}
    /\ UNCHANGED <<flow, inbox, password, overlapped, shared>>

\* Slip: the code stays in force after it was traded.
MutantDropCode(v) ==
    /\ v \in Checks /\ Step(v, "traded", "done")
    /\ UNCHANGED <<flow, tokens, inbox, password, overlapped, shared>>

\* ... and the code in force, whichever it is by now, is dropped.
DropCode(v) ==
    /\ v \in Checks /\ Step(v, "traded", "done")
    /\ flow' = NoFlow
    /\ UNCHANGED <<tokens, inbox, password, overlapped, shared>>

-----------------------------------------------------------------------------
\* confirmPasswordReset: the token is taken before the password is set; it is
\* gone when the password is refused.
TakeToken(c, v) ==
    /\ c \in Confirmations /\ v \in tokens
    /\ Step(c, "idle", "setting")
    /\ tokens' = tokens \ {v}
    /\ UNCHANGED <<flow, inbox, password, overlapped, shared>>

SetPassword(c, accepted) ==
    /\ c \in Confirmations /\ Step(c, "setting", "done")
    /\ password' = IF accepted THEN password + 1 ELSE password
    /\ UNCHANGED <<flow, tokens, inbox, overlapped, shared>>

\* PASSWORD_RESET_CODE_TTL_SECONDS are over, for the code or for a token.
FlowExpires ==
    /\ flow # NoFlow /\ flow' = NoFlow
    /\ UNCHANGED <<tokens, inbox, reset, password, overlapped, shared>>

TokenExpires(v) ==
    /\ v \in tokens /\ tokens' = tokens \ {v}
    /\ UNCHANGED <<flow, inbox, reset, password, overlapped, shared>>

ResetNext ==
    \/ \E r \in Askings : StoreCode(r) \/ SendCode(r) \/ SendingFails(r)
    \/ \E v \in Checks : \/ CountMismatch(v) \/ TradeCode(v) \/ DropCode(v)
                         \/ ReadStray(v) \/ DropStray(v) \/ TokenExpires(v)
                         \/ \E typed \in Askings \cup {Wrong} : ReadFlow(v, typed)
    \/ \E c \in Confirmations : \/ \E v \in Checks : TakeToken(c, v)
                                \/ \E accepted \in BOOLEAN : SetPassword(c, accepted)
    \/ FlowExpires

ResetSpec == ResetInit /\ [][ResetNext]_resetVars

-----------------------------------------------------------------------------
ResetTypeOK ==
    /\ flow.code \in Askings \cup {NoCode} /\ flow.attempts \in 0 .. MaxAttempts - 1
    /\ tokens \subseteq Checks
    /\ inbox \in Seq(Askings)
    /\ \A c \in ResetCalls :
        /\ reset[c].step \in {"idle", "sending", "strayed", "read", "traded", "setting", "done"}
        /\ reset[c].typed \in Askings \cup {Wrong, NoCode}
    /\ password \in Nat

\* The code in force is the last one the user was sent, unless it or that one
\* was asked for while another call was under way: a mismatch writes back what
\* it read, over a code stored since.
NewestCodeCounts ==
    Busy = {} /\ flow # NoFlow =>
        \/ inbox # <<>> /\ flow.code = inbox[Len(inbox)]
        \/ flow.code \in overlapped
        \/ inbox # <<>> /\ inbox[Len(inbox)] \in overlapped

TradedBy(r) ==
    {v \in Checks : reset[v].typed = r /\ reset[v].flow.code = r /\ reset[v].step \in {"traded", "done"}}

\* A code is traded once and sets at most one password, unless two checks had
\* read it before either was through.
CodesAreUsedOnce ==
    /\ \A r \in Askings : Cardinality(TradedBy(r)) <= 1 \/ r \in shared
    /\ shared = {} => password <= Cardinality({r \in Askings : TradedBy(r) # {}})

\* Every mismatch counts, unless two checks overlapped.
MismatchesAreCounted ==
    flow # NoFlow =>
        \/ flow.code \in shared
        \/ flow.attempts = Cardinality({v \in Checks : reset[v].step = "done" /\ reset[v].flow.code = flow.code
                                                          /\ reset[v].typed # flow.code})

\* What the reset of a password promises, however its calls overlap.
ResetIsOrderly == NewestCodeCounts /\ CodesAreUsedOnce /\ MismatchesAreCounted
=============================================================================
