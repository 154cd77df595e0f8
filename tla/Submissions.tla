---------------------------- MODULE Submissions ----------------------------
(***************************************************************************)
(* Notices and lost items as their pages make and correct them             *)
(* (NewNoticePage.tsx, EditNoticePage.tsx, NewLostItemPage.tsx) with the   *)
(* services behind them.  A page creates the row, uploads images and       *)
(* attachments one by one, and writes the text again with the images in    *)
(* it; the row is public from the first call on.  When a call fails a page *)
(* that made a row deletes it, a page that corrects one leaves what it     *)
(* did; its author tries again.                                            *)
(***************************************************************************)
EXTENDS Naturals, Sequences, FiniteSets, FiniteSetsExt

CONSTANTS
    Writers,        \* pages that make a row
    Correctors,     \* pages that correct one (EditNoticePage)
    Numbered,       \* the writers of notices; lost items have no public number
    Pictures,       \* Pictures[p]: images in the text of page p
    Enclosures,     \* Enclosures[p]: its attachments
    MaxNotices, MaxUploads,    \* bounds,
    MaxMishaps      \* failing calls, closed pages and deletions by others together

FormPages == Writers \cup Correctors

ASSUME SubmissionAssumption ==
    /\ Writers \cap Correctors = {} /\ Numbered \subseteq Writers
    /\ \A p \in FormPages : Pictures[p] \cap Enclosures[p] = {}
    /\ MaxNotices \in Nat /\ MaxUploads \in Nat /\ MaxMishaps \in Nat

VARIABLES
    posted,     \* the rows so far: who made it, its number, whether it is there, images shown
    attached,   \* files: number, row, item, and the page that sent it
    arrivals,   \* how many there have been
    at,         \* where each page is
    target,     \* the row it knows, 0 for none
    number,     \* the public number a creation has read
    base,       \* the images a corrector found in the text
    got,        \* the files this attempt has been answered about
    mishaps,    \* how much has gone wrong so far
    abandoned,  \* history: rows unknown to their page, not deleted by it, or left by it
    erased,     \* history: rows somebody else deleted
    stumbled,   \* history: pages one of whose calls failed
    crossed     \* history: rows whose text was written while a corrector held an older one

rowVars == <<posted, attached, arrivals, crossed>>
pageVars == <<at, target, number, base, got>>
historyVars == <<abandoned, erased, stumbled>>
submissionVars == <<rowVars, pageVars, historyVars, mishaps>>

SubmissionInit ==
    /\ posted = <<>> /\ attached = {} /\ arrivals = 0
    /\ at = [p \in FormPages |-> "form"] /\ target = [p \in FormPages |-> 0]
    /\ number = [w \in Writers |-> 0] /\ base = [c \in Correctors |-> {}]
    /\ got = [p \in FormPages |-> {}]
    /\ mishaps = 0 /\ abandoned = {} /\ erased = {} /\ stumbled = {} /\ crossed = {}

There == {r \in DOMAIN posted : posted[r].there}
LastNumber == Max({0} \cup {posted[r].no : r \in There})

Move(p, step) == at' = [at EXCEPT ![p] = step]
Trouble == mishaps < MaxMishaps /\ mishaps' = mishaps + 1
Mishap(p) ==
    /\ Trouble
    /\ stumbled' = stumbled \cup {p}

\* Where the catch of a page goes: a writer deletes what it made.  The next attempt
\* sends everything again.
Catch(p) ==
    /\ Move(p, IF p \in Writers THEN "discarding" ELSE "form")
    /\ got' = [got EXCEPT ![p] = {}]

-----------------------------------------------------------------------------
\* The transaction reads the highest number without a lock ...
ReadNumber(w) ==
    /\ w \in Writers /\ at[w] = "form"
    /\ number' = [number EXCEPT ![w] = IF w \in Numbered THEN LastNumber + 1 ELSE 0]
    /\ Move(w, "creating")
    /\ UNCHANGED <<rowVars, historyVars, target, base, got, mishaps>>

NumberIsFree(w) == w \in Numbered => \A r \in There : posted[r].no # number[w]

\* ... and inserts the next; the text has no images yet.
Inserted(w) ==
    /\ Len(posted) < MaxNotices
    /\ posted' = Append(posted, [by |-> w, no |-> number[w], there |-> TRUE, shows |-> {}])

CreateNotice(w) ==
    /\ w \in Writers /\ at[w] = "creating" /\ NumberIsFree(w)
    /\ Inserted(w)
    /\ target' = [target EXCEPT ![w] = Len(posted')]
    /\ Move(w, "uploading")
    /\ UNCHANGED <<historyVars, attached, arrivals, crossed, number, base, got, mishaps>>

\* The unique index refuses a number another creation has taken.
NumberIsTaken(w) ==
    /\ w \in Writers /\ at[w] = "creating" /\ ~NumberIsFree(w)
    /\ Move(w, "form")
    /\ UNCHANGED <<rowVars, historyVars, target, number, base, got, mishaps>>

\* Refused, or carried out and the answer lost: the page knows no row to delete.
CreationFails(w) ==
    /\ w \in Writers /\ at[w] = "creating"
    /\ Mishap(w) /\ Move(w, "form")
    /\ \/ UNCHANGED <<posted, abandoned>>
       \/ /\ NumberIsFree(w) /\ Inserted(w)
          /\ abandoned' = abandoned \cup {Len(posted')}
    /\ UNCHANGED <<attached, arrivals, crossed, target, number, base, got, erased>>

OpenCorrection(c, r) ==
    /\ c \in Correctors /\ at[c] = "form" /\ r \in There /\ target[c] \in {0, r}
    /\ target' = [target EXCEPT ![c] = r]
    /\ base' = [base EXCEPT ![c] = IF target[c] = 0 THEN posted[r].shows ELSE @]
    /\ Move(c, "uploading")
    /\ UNCHANGED <<rowVars, historyVars, number, got, mishaps>>

-----------------------------------------------------------------------------
StillToSend(p, items) == items \ {f.item : f \in got[p]}

\* Images first, then attachments.
NextItems(p) ==
    IF StillToSend(p, Pictures[p]) # {} THEN StillToSend(p, Pictures[p])
    ELSE StillToSend(p, Enclosures[p])

\* A file is stored only while its row is there.
Stores(p, item) ==
    /\ target[p] \in There
    /\ arrivals < MaxUploads /\ arrivals' = arrivals + 1
    /\ attached' = attached \cup {[n |-> arrivals', row |-> target[p], item |-> item, by |-> p]}

UploadItem(p) ==
    /\ at[p] = "uploading"
    /\ \E item \in NextItems(p) :
          /\ Stores(p, item)
          /\ got' = [got EXCEPT ![p] = @ \cup {[n |-> arrivals', item |-> item]}]
    /\ UNCHANGED <<historyVars, posted, crossed, at, target, number, base, mishaps>>

\* The row is gone, or the call is refused, or it is carried out and its answer lost.
UploadFails(p) ==
    /\ at[p] = "uploading" /\ NextItems(p) # {}
    /\ \/ /\ target[p] \notin There
          /\ stumbled' = stumbled \cup {p}
          /\ UNCHANGED <<attached, arrivals, mishaps>>
       \/ Mishap(p) /\ UNCHANGED <<attached, arrivals>>
       \/ Mishap(p) /\ \E item \in NextItems(p) : Stores(p, item)
    /\ Catch(p)
    /\ UNCHANGED <<posted, crossed, target, number, base, abandoned, erased>>

ShownImages(p) == {f.n : f \in {g \in got[p] : g.item \in Pictures[p]}}

Rewritten(p) ==
    /\ posted' = IF target[p] \in There
                  THEN [posted EXCEPT ![target[p]].shows =
                           ShownImages(p) \cup (IF p \in Correctors THEN base[p] ELSE {})]
                  ELSE posted
    /\ crossed' = IF \E c \in Correctors \ {p} : target[c] = target[p]
                  THEN crossed \cup {target[p]} ELSE crossed

\* A page that made a row without images has nothing to write in the end.
WritesText(p) == p \in Correctors \/ Pictures[p] # {}

\* The text is written with the images; whether there is such a row is not asked.
WriteText(p) ==
    /\ at[p] = "uploading" /\ NextItems(p) = {}
    /\ IF WritesText(p) THEN Rewritten(p) ELSE UNCHANGED <<posted, crossed>>
    /\ Move(p, "finished")
    /\ UNCHANGED <<historyVars, attached, arrivals, target, number, base, got, mishaps>>

TextFails(p) ==
    /\ at[p] = "uploading" /\ NextItems(p) = {} /\ WritesText(p)
    /\ Mishap(p) /\ Catch(p)
    /\ UNCHANGED <<posted, crossed>> \/ Rewritten(p)
    /\ UNCHANGED <<attached, arrivals, target, number, base, abandoned, erased>>

-----------------------------------------------------------------------------
\* notices.delete and lostItems.discard: the row and its files go together.
Removed(r) ==
    /\ posted' = [posted EXCEPT ![r].there = FALSE]
    /\ attached' = {f \in attached : f.row # r}

\* Slip: the page shows the error and leaves the row it has made.
MutantDiscardOwn(w) ==
    /\ w \in Writers /\ at[w] = "discarding"
    /\ target' = [target EXCEPT ![w] = 0] /\ Move(w, "form")
    /\ UNCHANGED <<rowVars, historyVars, number, base, got, mishaps>>

\* The catch of a writer; its author may submit the form again.
DiscardOwn(w) ==
    /\ w \in Writers /\ at[w] = "discarding"
    /\ IF target[w] \in There THEN Removed(target[w]) ELSE UNCHANGED <<posted, attached>>
    /\ target' = [target EXCEPT ![w] = 0] /\ Move(w, "form")
    /\ UNCHANGED <<historyVars, arrivals, crossed, number, base, got, mishaps>>

\* Its failure is swallowed.
DiscardFails(w) ==
    /\ w \in Writers /\ at[w] = "discarding"
    /\ Mishap(w)
    /\ abandoned' = abandoned \cup {target[w]}
    /\ target' = [target EXCEPT ![w] = 0] /\ Move(w, "form")
    /\ UNCHANGED <<rowVars, number, base, got, erased>>

DeleteNotice(r) ==
    /\ r \in There /\ Trouble
    /\ Removed(r)
    /\ erased' = erased \cup {r}
    /\ UNCHANGED <<pageVars, arrivals, crossed, abandoned, stumbled>>

ClosePage(p) ==
    /\ at[p] \in {"form", "uploading", "discarding"}
    /\ Trouble
    /\ Move(p, "closed")
    /\ abandoned' = abandoned \cup (IF p \in Writers THEN {target[p]} \ {0} ELSE {})
    /\ UNCHANGED <<rowVars, target, number, base, got, erased, stumbled>>

SubmissionNext ==
    \/ \E w \in Writers :
          \/ ReadNumber(w) \/ CreateNotice(w) \/ NumberIsTaken(w) \/ CreationFails(w)
          \/ DiscardOwn(w) \/ DiscardFails(w)
    \/ \E c \in Correctors, r \in There : OpenCorrection(c, r)
    \/ \E p \in FormPages :
          UploadItem(p) \/ UploadFails(p) \/ WriteText(p) \/ TextFails(p) \/ ClosePage(p)
    \/ \E r \in There : DeleteNotice(r)

SubmissionSpec == SubmissionInit /\ [][SubmissionNext]_submissionVars

-----------------------------------------------------------------------------
SubmissionTypeOK ==
    /\ \A r \in DOMAIN posted : posted[r].by \in Writers /\ posted[r].shows \subseteq Nat
    /\ \A f \in attached : f.row \in DOMAIN posted /\ f.by \in FormPages
    /\ at \in [FormPages ->
                  {"form", "creating", "uploading", "discarding", "finished", "closed"}]
    /\ target \in [FormPages -> 0 .. Len(posted)]

FilesOf(r) == {f \in attached : f.row = r}
AsGiven(r) ==
    LET w == posted[r].by IN
    /\ Pictures[w] \cup Enclosures[w] \subseteq {f.item : f \in FilesOf(r)}
    /\ Pictures[w] \subseteq {f.item : f \in {g \in FilesOf(r) : g.n \in posted[r].shows}}

\* What the public sees without its images or attachments is being completed or
\* deleted by its page, unless the page does not know the row (the answer of its
\* creation was lost), could not delete it, or was closed; or somebody had opened a
\* correction before the text was complete and saved what he had found.
IncompleteIsExplained ==
    \A r \in There \ (abandoned \cup crossed) :
        \/ AsGiven(r)
        \/ target[posted[r].by] = r /\ at[posted[r].by] \in {"uploading", "discarding"}

\* A page whose submissions failed and were repeated has made one row.
OneRowPerPage ==
    \A r, s \in There \ abandoned : posted[r].by = posted[s].by => r = s

\* A page that reports success has a complete row, unless somebody deleted it: the
\* last call does not notice.
SuccessIsComplete ==
    \A w \in Writers : at[w] = "finished" =>
        IF target[w] \in There THEN AsGiven(target[w]) \/ target[w] \in crossed
        ELSE target[w] \in erased

\* An image in a text is a file of that row, never one of the browser's own.
ShownIsAttached ==
    \A r \in There : posted[r].shows \subseteq {f.n : f \in FilesOf(r)}

\* A correction attaches something twice only if one of its calls failed before.
TwiceOnlyAfterAFailure ==
    \A f, g \in attached :
        f.n # g.n /\ f.by = g.by /\ f.item = g.item /\ f.row = g.row => f.by \in stumbled

SubmissionsAreSound ==
    /\ IncompleteIsExplained /\ OneRowPerPage /\ SuccessIsComplete /\ ShownIsAttached
    /\ TwiceOnlyAfterAFailure
=============================================================================
