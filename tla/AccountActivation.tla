-------------------------- MODULE AccountActivation --------------------------
(***************************************************************************)
(* Registering the account of one member of staff                          *)
(* (account-activation.service.ts).                                        *)
(*                                                                         *)
(* The school hands out a code; with it the person proves an e-mail        *)
(* address and a telephone number, whose six digits wait in Redis under a  *)
(* key of the code, and completes the registration.  The completion holds  *)
(* the row of the code in a transaction while it writes a user at the      *)
(* identity provider, which no rollback undoes.  Codes are reissued        *)
(* meanwhile, calls overlap, and the transaction may be lost under a       *)
(* completion that is still talking to the provider.                       *)
(*                                                                         *)
(* Students register the same way; whose number a code is for, and who may *)
(* be linked to which login, is the subject of StudentRoster.              *)
(***************************************************************************)
EXTENDS Naturals

CONSTANTS
    FirstCode,      \* the code handed out first; the others are named after the call that issues them
    Issues,         \* calls of issue
    Sends,          \* calls of requestPhone- and requestEmailVerification; each makes six digits named after it
    Trials,         \* calls of verifyPhone- and verifyEmailVerification
    Completions,    \* calls of complete
    Contacts,       \* telephone numbers and addresses
    Kind,           \* Kind[c]: "phone" or "email"
    SendTo,         \* SendTo[s]: the contact of s
    Typed,          \* Typed[d]: the contacts somebody completes with, by kind
    MaxTries,       \* 5 mismatches end a verification
    MaxMishaps,     \* failures of the provider, lost answers, lost connections and restarts
    Mistyped, Nil

Kinds == {"phone", "email"}
Codes == {FirstCode} \cup Issues
Callers == Sends \cup Trials \cup Completions
Verification == [to : Contacts, digits : Sends, tries : 0..MaxTries, verified : BOOLEAN]

ASSUME ActivationAssumption ==
    /\ MaxTries \in Nat \ {0} /\ MaxMishaps \in Nat
    /\ Kind \in [Contacts -> Kinds] /\ SendTo \in [Sends -> Contacts]
    /\ Typed \in [Completions -> [Kinds -> Contacts]]
    /\ Sends \cap Trials = {} /\ Completions \cap (Sends \cup Trials) = {} /\ Issues \cap Callers = {}
    /\ Mistyped \notin Sends /\ Nil \notin Codes \cup Contacts \cup Callers \cup Verification

VARIABLES
    slip,        \* the account_activation_codes row of this person
    proof,       \* the verification flows in Redis, by code and kind
    received,    \* six digits that arrived
    call,        \* where each call is, the code it was made with, what it typed and has read
    heldBy,      \* the completion whose transaction holds the row
    login,       \* the user at the provider: whose e-mail, telephone and password it has
    account,     \* the completion whose user, profile, role and link are in the database
    proven,      \* history: digits that somebody has entered correctly
    strays,      \* history: completions that lost their transaction and went on
    crossedFill, \* history: the lookup of an old code was filled in after its reissue
    mishaps

activationVars == <<slip, proof, received, call, heldBy, login, account, proven, strays, crossedFill, mishaps>>

NobodysLogin == [email |-> Nil, phone |-> Nil, password |-> Nil]
NotCalled == [at |-> "idle", code |-> Nil, to |-> Nil, digits |-> Mistyped, read |-> Nil]

\* An unused code is out; it is an old one, without lookup hash and expiry, or not.
\* The calls of S are made, and the digits of those in done are proven already.
ActivationInitWith(S, done, legacy) ==
    /\ slip = [code |-> FirstCode, lookup |-> IF legacy THEN Nil ELSE FirstCode,
               dated |-> ~legacy, expired |-> FALSE, used |-> FALSE]
    /\ proof = [c \in Codes |-> [k \in Kinds |->
                   IF c = FirstCode /\ \E s \in done : Kind[SendTo[s]] = k
                   THEN LET s == CHOOSE t \in done : Kind[SendTo[t]] = k
                        IN [to |-> SendTo[s], digits |-> s, tries |-> 0, verified |-> TRUE]
                   ELSE Nil]]
    /\ received = done /\ proven = done
    /\ call = [c \in Callers \cup Issues |-> [NotCalled EXCEPT !.at = IF c \in S THEN "idle" ELSE "over"]]
    /\ heldBy = Nil /\ login = NobodysLogin /\ account = Nil
    /\ strays = {} /\ crossedFill = FALSE /\ mishaps = 0

At(c, place) == call[c].at = place
Move(c, place) == call' = [call EXCEPT ![c] = [NotCalled EXCEPT !.at = place, !.code = call[c].code]]
Usable == ~slip.used /\ ~slip.expired
Mishap == mishaps < MaxMishaps /\ mishaps' = mishaps + 1

-----------------------------------------------------------------------------
\* issue, for the row there is: one transaction that waits for whoever holds the row.
\* A code that is still good is replaced by force only, a used one never.

Issue(i) ==
    /\ At(i, "idle") /\ heldBy = Nil /\ ~slip.used
    /\ slip' = [code |-> i, lookup |-> i, dated |-> TRUE, expired |-> FALSE, used |-> FALSE]
    /\ Move(i, "over")
    /\ UNCHANGED <<proof, received, heldBy, login, account, proven, strays, crossedFill, mishaps>>

\* Its thirty days are over.
CodeExpires ==
    /\ slip.dated /\ ~slip.expired /\ ~slip.used
    /\ slip' = [slip EXCEPT !.expired = TRUE]
    /\ UNCHANGED <<proof, received, call, heldBy, login, account, proven, strays, crossedFill, mishaps>>

\* Codes that have been handed out.
HandedOut == {FirstCode} \cup {i \in Issues : slip.code = i \/ \E c \in Callers : call[c].code = i}

-----------------------------------------------------------------------------
\* findAvailableActivation: by the lookup hash, which is all that is compared, or,
\* for a row that has none yet, by the code itself; its hash is then filled in, by
\* a later statement that does not look at the row again.
FindActivation(c, code) ==
    /\ c \in Sends \cup Trials /\ At(c, "idle") /\ Usable
    /\ \/ slip.lookup = code /\ call' = [call EXCEPT ![c].at = "found", ![c].code = code]
       \/ slip.lookup = Nil /\ slip.code = code
          /\ call' = [call EXCEPT ![c].at = "filling", ![c].code = code]
    /\ UNCHANGED <<slip, proof, received, heldBy, login, account, proven, strays, crossedFill, mishaps>>

FillLookup(c) ==
    /\ At(c, "filling") /\ heldBy = Nil
    /\ slip' = [slip EXCEPT !.lookup = call[c].code]
    /\ crossedFill' = (crossedFill \/ slip.code # call[c].code)
    /\ Move(c, "found")
    /\ UNCHANGED <<proof, received, heldBy, login, account, proven, strays, mishaps>>

-----------------------------------------------------------------------------
\* requestPhoneVerification, requestEmailVerification: the digits replace those before
\* them; if they cannot be sent the key is deleted, whatever it holds by then.
StoreDigits(s) ==
    /\ s \in Sends /\ At(s, "found")
    /\ proof' = [proof EXCEPT ![call[s].code][Kind[SendTo[s]]] =
                    [to |-> SendTo[s], digits |-> s, tries |-> 0, verified |-> FALSE]]
    /\ Move(s, "sending")
    /\ UNCHANGED <<slip, received, heldBy, login, account, proven, strays, crossedFill, mishaps>>

Deliver(s) ==
    /\ At(s, "sending")
    /\ received' = received \cup {s} /\ Move(s, "over")
    /\ UNCHANGED <<slip, proof, heldBy, login, account, proven, strays, crossedFill, mishaps>>

DeliveryFails(s) ==
    /\ At(s, "sending")
    /\ proof' = [proof EXCEPT ![call[s].code][Kind[SendTo[s]]] = Nil]
    /\ Move(s, "over")
    /\ UNCHANGED <<slip, received, heldBy, login, account, proven, strays, crossedFill, mishaps>>

DigitsExpire(code, k) ==
    /\ proof[code][k] # Nil /\ proof' = [proof EXCEPT ![code][k] = Nil]
    /\ UNCHANGED <<slip, received, call, heldBy, login, account, proven, strays, crossedFill, mishaps>>

-----------------------------------------------------------------------------
\* assertPhoneVerification, assertEmailVerification.  A verification types one contact
\* and its digits; a completion types both pairs, and is checked channel by channel.
\* The flow is read first and, after a mismatch or for a verification, written back.
\* The telephone comes before the address.
JudgingOf == [phone |-> "judging phone", email |-> "judging email"]

ReadProof(c, to, digits) ==
    /\ \/ c \in Trials /\ At(c, "found")
       \/ c \in Completions /\ call[c].at \in Kinds /\ to = Typed[c][call[c].at]
    /\ digits = Mistyped \/ digits \in received
    /\ call' = [call EXCEPT ![c] =
                   [at |-> IF c \in Trials THEN "judging" ELSE JudgingOf[@.at], code |-> @.code,
                    to |-> to, digits |-> digits, read |-> proof[@.code][Kind[to]]]]
    /\ UNCHANGED <<slip, proof, received, heldBy, login, account, proven, strays, crossedFill, mishaps>>

Judging(c) == call[c].at \in {"judging", "judging phone", "judging email"}
Same(c) == call[c].read # Nil /\ call[c].read.to = call[c].to
Next1(c) == IF At(c, "judging phone") THEN "email" ELSE "checked"

\* No flow, or one for another contact.
NoProof(c) ==
    /\ Judging(c) /\ ~Same(c) /\ Move(c, "over")
    /\ UNCHANGED <<slip, proof, received, heldBy, login, account, proven, strays, crossedFill, mishaps>>

Mismatch(c) ==
    LET f == call[c].read
    IN  /\ Judging(c) /\ Same(c) /\ f.digits # call[c].digits
        /\ ~(f.verified /\ c \in Completions)
        /\ proof' = [proof EXCEPT ![call[c].code][Kind[call[c].to]] =
                        IF f.tries + 1 >= MaxTries THEN Nil ELSE [f EXCEPT !.tries = @ + 1]]
        /\ Move(c, "over")
        /\ UNCHANGED <<slip, received, heldBy, login, account, proven, strays, crossedFill, mishaps>>

MarkVerified(v) ==
    LET f == call[v].read
    IN  /\ v \in Trials /\ Judging(v) /\ Same(v) /\ f.digits = call[v].digits
        /\ proof' = [proof EXCEPT ![call[v].code][Kind[call[v].to]] = [f EXCEPT !.verified = TRUE]]
        /\ proven' = proven \cup {f.digits} /\ Move(v, "over")
        /\ UNCHANGED <<slip, received, heldBy, login, account, strays, crossedFill, mishaps>>

\* Slip: a flow that is verified counts before it is compared with the contact.
MutantPassChannel(d) ==
    LET f == call[d].read
    IN  /\ d \in Completions /\ Judging(d) /\ f # Nil
        /\ f.verified \/ (Same(d) /\ f.digits = call[d].digits)
        /\ proven' = IF f.digits = call[d].digits THEN proven \cup {f.digits} ELSE proven
        /\ Move(d, Next1(d))
        /\ UNCHANGED <<slip, proof, received, heldBy, login, account, strays, crossedFill, mishaps>>

PassChannel(d) ==
    LET f == call[d].read
    IN  /\ d \in Completions /\ Judging(d) /\ Same(d)
        /\ f.verified \/ f.digits = call[d].digits
        /\ proven' = IF f.digits = call[d].digits THEN proven \cup {f.digits} ELSE proven
        /\ Move(d, Next1(d))
        /\ UNCHANGED <<slip, proof, received, heldBy, login, account, strays, crossedFill, mishaps>>

-----------------------------------------------------------------------------
\* complete.
Complete(d, code) ==
    /\ d \in Completions /\ At(d, "idle")
    /\ call' = [call EXCEPT ![d].at = "phone", ![d].code = code]
    /\ UNCHANGED <<slip, proof, received, heldBy, login, account, proven, strays, crossedFill, mishaps>>

\* The transaction begins with the school year and the row of the code, locked; the
\* user and the profile it then writes are nobody else's to see before the commit.
\* Slip: the row is read without a lock.
MutantLockActivation(d) ==
    /\ At(d, "checked") /\ Usable /\ slip.code = call[d].code
    /\ heldBy' = d /\ Move(d, "begun")
    /\ UNCHANGED <<slip, proof, received, login, account, proven, strays, crossedFill, mishaps>>

LockActivation(d) ==
    /\ At(d, "checked") /\ heldBy = Nil /\ Usable /\ slip.code = call[d].code
    /\ heldBy' = d /\ Move(d, "begun")
    /\ UNCHANGED <<slip, proof, received, login, account, proven, strays, crossedFill, mishaps>>

\* Used, expired, another code or one of a school year that is over, which nothing
\* before looks at and which is not told here.  The attempt that is counted in the row
\* is undone with the transaction by the exception that reports it.
RefuseCompletion(d) ==
    /\ At(d, "checked") /\ heldBy = Nil
    /\ Move(d, "over")
    /\ UNCHANGED <<slip, proof, received, heldBy, login, account, proven, strays, crossedFill, mishaps>>

\* createOrUpdatePermanentPasswordUser: a new user comes with e-mail and password, an
\* existing one is given the e-mail; then the password, then both contacts.
WriteUser(d) ==
    /\ At(d, "begun")
    /\ login' = IF login = NobodysLogin THEN [login EXCEPT !.email = d, !.password = d]
                                        ELSE [login EXCEPT !.email = d]
    /\ Move(d, "user")
    /\ UNCHANGED <<slip, proof, received, heldBy, account, proven, strays, crossedFill, mishaps>>

SetUserPassword(d) ==
    /\ At(d, "user") /\ login' = [login EXCEPT !.password = d] /\ Move(d, "password")
    /\ UNCHANGED <<slip, proof, received, heldBy, account, proven, strays, crossedFill, mishaps>>

UpdateContacts(d) ==
    /\ At(d, "password") /\ login' = [login EXCEPT !.email = d, !.phone = d] /\ Move(d, "contacts")
    /\ UNCHANGED <<slip, proof, received, heldBy, account, proven, strays, crossedFill, mishaps>>

InTransaction == {"begun", "user", "password", "contacts"}
Release(d) == heldBy' = IF heldBy = d THEN Nil ELSE heldBy

\* The user with these contacts, the staff profile under the number and the role.
EnsureStaffIdentity(d) == account' = d

\* With the link and the code marked used; all of it is seen from now on.
Commit(d) ==
    /\ At(d, "contacts") /\ heldBy = d
    /\ slip' = [slip EXCEPT !.used = TRUE] /\ EnsureStaffIdentity(d) /\ Release(d) /\ Move(d, "dropping")
    /\ UNCHANGED <<proof, received, login, proven, strays, crossedFill, mishaps>>

\* Committed, and the answer is lost, or the audit row that follows fails.
CommitUnacked(d) ==
    /\ Mishap /\ At(d, "contacts") /\ heldBy = d
    /\ slip' = [slip EXCEPT !.used = TRUE] /\ EnsureStaffIdentity(d) /\ Release(d) /\ Move(d, "over")
    /\ UNCHANGED <<proof, received, login, proven, strays, crossedFill>>

DropProofs(d) ==
    /\ At(d, "dropping")
    /\ \E K \in {{}, {"phone"}, Kinds} :   \* one delete after the other; either may fail
           proof' = [proof EXCEPT ![call[d].code] = [k \in Kinds |-> IF k \in K THEN Nil ELSE @[k]]]
    /\ Move(d, "over")
    /\ UNCHANGED <<slip, received, heldBy, login, account, proven, strays, crossedFill, mishaps>>

\* The provider or the database refuses: rolled back.
CompletionFails(d) ==
    /\ Mishap /\ call[d].at \in InTransaction
    /\ Release(d) /\ Move(d, "over")
    /\ UNCHANGED <<slip, proof, received, login, account, proven, strays, crossedFill>>

\* The connection breaks: the database rolls back and lets go of the row, and the
\* completion, which is waiting for the provider, notices at its next statement.
LoseConnection(d) ==
    /\ Mishap /\ call[d].at \in InTransaction /\ heldBy = d
    /\ Release(d) /\ strays' = strays \cup {d}
    /\ UNCHANGED <<slip, proof, received, call, login, account, proven, crossedFill>>

NoticeLoss(d) ==
    /\ At(d, "contacts") /\ heldBy # d /\ Move(d, "over")
    /\ UNCHANGED <<slip, proof, received, heldBy, login, account, proven, strays, crossedFill, mishaps>>

\* The process is restarted under everybody.
Restart ==
    /\ Mishap /\ \E c \in Callers : call[c].at \notin {"idle", "over"}
    /\ call' = [c \in DOMAIN call |-> IF call[c].at = "idle" THEN call[c] ELSE [NotCalled EXCEPT !.at = "over", !.code = call[c].code]]
    /\ heldBy' = Nil
    /\ UNCHANGED <<slip, proof, received, login, account, proven, strays, crossedFill>>

-----------------------------------------------------------------------------
ActivationNext ==
    \/ \E i \in Issues : Issue(i)
    \/ \E c \in Sends \cup Trials, code \in HandedOut : FindActivation(c, code)
    \/ \E c \in Sends \cup Trials : FillLookup(c)
    \/ \E s \in Sends : StoreDigits(s) \/ Deliver(s) \/ DeliveryFails(s)
    \/ \E c \in Trials \cup Completions, to \in Contacts, digits \in Sends \cup {Mistyped} : ReadProof(c, to, digits)
    \/ \E c \in Trials \cup Completions : NoProof(c) \/ Mismatch(c)
    \/ \E v \in Trials : MarkVerified(v)
    \/ \E d \in Completions :
           \/ PassChannel(d) \/ LockActivation(d) \/ RefuseCompletion(d)
           \/ \E code \in HandedOut : Complete(d, code)
           \/ WriteUser(d) \/ SetUserPassword(d) \/ UpdateContacts(d)
           \/ Commit(d) \/ CommitUnacked(d) \/ DropProofs(d)
           \/ CompletionFails(d) \/ LoseConnection(d) \/ NoticeLoss(d)
    \/ \E code \in Codes, k \in Kinds : DigitsExpire(code, k)
    \/ CodeExpires \/ Restart

ActivationInit ==
    \E S \in SUBSET (Callers \cup Issues), done \in SUBSET Sends, legacy \in BOOLEAN :
        ActivationInitWith(S, done, legacy)

ActivationSpec == ActivationInit /\ [][ActivationNext]_activationVars

-----------------------------------------------------------------------------
ActivationTypeOK ==
    /\ slip \in [code : Codes, lookup : Codes \cup {Nil}, dated : BOOLEAN, expired : BOOLEAN, used : BOOLEAN]
    /\ \A c \in Codes, k \in Kinds :
           proof[c][k] = Nil \/ (proof[c][k] \in Verification /\ Kind[proof[c][k].to] = k)
    /\ received \subseteq Sends /\ proven \subseteq received /\ strays \subseteq Completions
    /\ heldBy \in Completions \cup {Nil} /\ account \in Completions \cup {Nil}
    /\ login \in [{"email", "phone", "password"} -> Completions \cup {Nil}]
    /\ mishaps \in 0..MaxMishaps

\* The telephone number and the address of an account were shown to be the person's:
\* digits that had been sent to them were entered, before or with the registration,
\* although flows are replaced, written back and deleted by calls that overlap.
ContactsWereProven ==
    account # Nil => \A k \in Kinds : \E s \in proven : SendTo[s] = Typed[account][k]

\* The login belongs to the registration that was recorded, not to one that failed
\* before or overlapped with it, unless that one went on without its transaction.
LoginIsTheAccounts ==
    account # Nil => \A f \in DOMAIN login : login[f] \in {account} \cup strays

\* A code registers once: there is an account exactly when the row says used, it is
\* of the code that the row still has, and whoever holds the row found it unused.
CodesRegisterOnce ==
    /\ slip.used <=> account # Nil
    /\ account # Nil => call[account].code = slip.code
    /\ heldBy # Nil => account = Nil /\ call[heldBy].code = slip.code

\* A code that was handed out is the one its row is found by, unless somebody used
\* the old one, without hash, while it was replaced.
LookupFindsTheCode == slip.lookup \in {Nil, slip.code} \/ crossedFill

ActivationsAreSound ==
    ActivationTypeOK /\ ContactsWereProven /\ LoginIsTheAccounts /\ CodesRegisterOnce /\ LookupFindsTheCode
=============================================================================
