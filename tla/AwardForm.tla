----------------------------- MODULE AwardForm -----------------------------
(***************************************************************************)
(* The page that awards points (admin PointAwardPage.tsx) against          *)
(* createRecordBatch.  Rows are collected in a list, from a form or from a *)
(* spreadsheet, and awarded by one call; every call has a new idempotency  *)
(* key, so the server does not know a repetition.  The form stays open     *)
(* while the call is under way, and its success empties the list, whatever *)
(* was added or edited meanwhile.                                          *)
(***************************************************************************)
EXTENDS Naturals, FiniteSets

CONSTANTS
    Awards,         \* what the administrator means to award: a student and a reason
    Filed,          \* those of them that are in the spreadsheet
    NoAward,
    MaxWordings,    \* bounds: how often an award is worded,
    MaxRows,        \* rows of the list,
    MaxSubmissions, \* calls,
    MaxLost         \* answers that are lost

ASSUME AwardAssumption ==
    /\ NoAward \notin Awards /\ Filed \subseteq Awards
    /\ MaxWordings \in Nat /\ MaxRows \in Nat /\ MaxSubmissions \in Nat /\ MaxLost \in Nat

VARIABLES
    queue,          \* the rows of the list
    rows,           \* rows so far; a row is known by its number
    chosen,         \* the award in the form
    editKey,        \* the row it edits, 0 for none
    importing,      \* the award of a spreadsheet that is being checked
    calls,          \* the calls: rows and status
    pending,        \* the call the page waits for, 0 for none
    awarded,        \* point_records
    wording,        \* history: how often each award was put into the list
    withdrawn,      \* history: awards whose row was deleted,
    meanwhile,      \* that came into the list or changed during a call,
    straddled,      \* that were in the form, being edited, when a success came,
    unsure          \* that were in a call whose answer was lost

awardVars == <<queue, rows, chosen, editKey, importing, calls, pending, awarded,
               wording, withdrawn, meanwhile, straddled, unsure>>

Submissions == 1 .. MaxSubmissions

AwardInit ==
    /\ queue = {} /\ rows = 0
    /\ chosen = NoAward /\ editKey = 0 /\ importing = NoAward
    /\ calls = [n \in Submissions |-> [rows |-> {}, status |-> "none"]]
    /\ pending = 0 /\ awarded = {}
    /\ wording = [a \in Awards |-> 0]
    /\ withdrawn = {} /\ meanwhile = {} /\ straddled = {} /\ unsure = {}

AwardsOf(R) == {r.award : r \in R}

\* An award is worded, anew or once more.
Worded(a) ==
    /\ wording[a] < MaxWordings
    /\ wording' = [wording EXCEPT ![a] = @ + 1]
    /\ meanwhile' = IF pending # 0 THEN meanwhile \cup {a} ELSE meanwhile

NewRow(a) ==
    /\ rows < MaxRows /\ rows' = rows + 1
    /\ queue' = queue \cup {[key |-> rows', award |-> a, wording |-> wording'[a]]}

ClearForm == chosen' = NoAward /\ editKey' = 0

-----------------------------------------------------------------------------
\* A student is picked and the form filled in.
Choose(a) ==
    /\ chosen = NoAward /\ wording[a] = 0 /\ importing # a
    /\ chosen' = a
    /\ UNCHANGED <<queue, rows, editKey, importing, calls, pending, awarded, wording,
                   withdrawn, meanwhile, straddled, unsure>>

\* The form replaces the row it edits, or adds one.
AddToQueue ==
    /\ chosen # NoAward
    /\ Worded(chosen)
    /\ IF editKey = 0 THEN NewRow(chosen)
       ELSE /\ queue' = {IF r.key = editKey THEN [r EXCEPT !.wording = wording'[chosen]] ELSE r :
                            r \in queue}
            /\ UNCHANGED rows
    /\ ClearForm
    /\ UNCHANGED <<importing, calls, pending, awarded, withdrawn, straddled, unsure>>

EditRow(r) ==
    /\ r \in queue
    /\ chosen' = r.award /\ editKey' = r.key
    /\ UNCHANGED <<queue, rows, importing, calls, pending, awarded, wording, withdrawn,
                   meanwhile, straddled, unsure>>

CancelEdit ==
    /\ editKey # 0 /\ ClearForm
    /\ UNCHANGED <<queue, rows, importing, calls, pending, awarded, wording, withdrawn,
                   meanwhile, straddled, unsure>>

DeleteRow(r) ==
    /\ r \in queue
    /\ queue' = queue \ {r}
    /\ withdrawn' = withdrawn \cup {r.award}
    /\ IF editKey = r.key THEN ClearForm ELSE UNCHANGED <<chosen, editKey>>
    /\ UNCHANGED <<rows, importing, calls, pending, awarded, wording, meanwhile,
                   straddled, unsure>>

\* A spreadsheet is sent to be checked, one at a time.
ImportFile(a) ==
    /\ importing = NoAward /\ a \in Filed /\ wording[a] = 0 /\ chosen # a
    /\ importing' = a
    /\ UNCHANGED <<queue, rows, chosen, editKey, calls, pending, awarded, wording,
                   withdrawn, meanwhile, straddled, unsure>>

\* Rows without errors are added to the list.
FinishImport ==
    /\ importing # NoAward /\ importing' = NoAward
    /\ Worded(importing) /\ NewRow(importing)
    /\ UNCHANGED <<chosen, editKey, calls, pending, awarded, withdrawn, straddled,
                   unsure>>

RefuseImport ==
    /\ importing # NoAward /\ importing' = NoAward
    /\ UNCHANGED <<queue, rows, chosen, editKey, calls, pending, awarded, wording,
                   withdrawn, meanwhile, straddled, unsure>>

-----------------------------------------------------------------------------
\* Slip: the button is not disabled while a call is under way.
MutantSubmitBatch(n) ==
    /\ calls[n].status = "none" /\ (n > 1 => calls[n - 1].status # "none")
    /\ queue # {}
    /\ calls' = [calls EXCEPT ![n] = [rows |-> queue, status |-> "sent"]]
    /\ pending' = n
    /\ UNCHANGED <<queue, rows, chosen, editKey, importing, awarded, wording, withdrawn,
                   meanwhile, straddled, unsure>>

\* The rows are those of the list at this moment, the key is new.
SubmitBatch(n) ==
    /\ pending = 0 /\ queue # {}
    /\ calls[n].status = "none" /\ (n > 1 => calls[n - 1].status # "none")
    /\ calls' = [calls EXCEPT ![n] = [rows |-> queue, status |-> "sent"]]
    /\ pending' = n
    /\ UNCHANGED <<queue, rows, chosen, editKey, importing, awarded, wording, withdrawn,
                   meanwhile, straddled, unsure>>

\* All rows or none; a call whose caller has given up is carried out all the same.
AwardRows(n) ==
    /\ calls[n].status = "sent"
    /\ calls' = [calls EXCEPT ![n].status = "committed"]
    /\ awarded' = awarded \cup {[call |-> n, row |-> r] : r \in calls[n].rows}
    /\ UNCHANGED <<queue, rows, chosen, editKey, importing, pending, wording, withdrawn,
                   meanwhile, straddled, unsure>>

RefuseRows(n) ==
    /\ calls[n].status = "sent"
    /\ calls' = [calls EXCEPT ![n].status = "refused"]
    /\ UNCHANGED <<queue, rows, chosen, editKey, importing, pending, awarded, wording,
                   withdrawn, meanwhile, straddled, unsure>>

\* The list is emptied and no row is being edited any more; the form is left as it is.
SubmissionSucceeds ==
    /\ pending # 0 /\ calls[pending].status = "committed"
    /\ pending' = 0
    /\ queue' = {} /\ editKey' = 0
    /\ straddled' = IF editKey # 0 THEN straddled \cup {chosen} ELSE straddled
    /\ UNCHANGED <<rows, chosen, importing, calls, awarded, wording, withdrawn,
                   meanwhile, unsure>>

\* A refusal, or an answer that does not arrive: the page shows an error.
SubmissionIsInError ==
    /\ pending # 0 /\ pending' = 0
    /\ IF calls[pending].status = "refused" THEN UNCHANGED unsure
       ELSE /\ Cardinality({n \in Submissions : calls[n].status # "none"}) <= MaxLost
            /\ unsure' = unsure \cup AwardsOf(calls[pending].rows)
    /\ UNCHANGED <<queue, rows, chosen, editKey, importing, calls, awarded, wording,
                   withdrawn, meanwhile, straddled>>

AwardNext ==
    \/ \E a \in Awards : Choose(a) \/ ImportFile(a)
    \/ AddToQueue \/ CancelEdit \/ FinishImport \/ RefuseImport
    \/ \E r \in queue : EditRow(r) \/ DeleteRow(r)
    \/ \E n \in Submissions : SubmitBatch(n) \/ AwardRows(n) \/ RefuseRows(n)
    \/ SubmissionSucceeds \/ SubmissionIsInError

AwardSpec == AwardInit /\ [][AwardNext]_awardVars

-----------------------------------------------------------------------------
AwardTypeOK ==
    /\ \A r \in queue : r.key \in 1 .. rows /\ r.award \in Awards
    /\ chosen \in Awards \cup {NoAward} /\ editKey \in 0 .. rows
    /\ pending \in {0} \cup Submissions
    /\ AwardsOf({a.row : a \in awarded}) \subseteq Awards

RecordsOf(a) == {x \in awarded : x.row.award = a}

\* Nothing is awarded twice, unless the answer of a call was lost and the list was
\* submitted again under its new key, or the form was editing a row when the call that
\* awarded it succeeded and has added it to the list a second time.
AwardedOnce ==
    \A a \in Awards \ (unsure \cup straddled) : Cardinality(RecordsOf(a)) <= 1

\* An award that was put into the list is there, or awarded, until somebody deletes it,
\* unless a call was under way when it came: the success of the call empties the list.
NothingIsDropped ==
    \A a \in Awards \ (withdrawn \cup meanwhile) :
        wording[a] > 0 => RecordsOf(a) # {} \/ a \in AwardsOf(queue)

\* What is awarded and no longer in the list was awarded as it was worded last, unless
\* the wording changed during the call.
LastWordingIsAwarded ==
    \A a \in Awards \ (withdrawn \cup meanwhile) :
        RecordsOf(a) # {} /\ a \notin AwardsOf(queue) =>
            \E x \in RecordsOf(a) : x.row.wording = wording[a]

\* What the page shows is of its type, and what the server has is what was entered.
AwardsAreExplained == AwardTypeOK /\ AwardedOnce /\ NothingIsDropped /\ LastWordingIsAwarded
=============================================================================
