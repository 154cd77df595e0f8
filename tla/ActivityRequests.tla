-------------------------- MODULE ActivityRequests --------------------------
(***************************************************************************)
(* One activity request and the notices of its review                      *)
(* (activity-requests.service.ts, notifications.service.ts).               *)
(*                                                                         *)
(* Students and administrators change the request in transactions that     *)
(* lock its row, in any order the status allows, and each writes the       *)
(* columns it thinks of: status, issued number, reason, representative,    *)
(* participants.  The review is told to the representative by a notice     *)
(* with a key made of request and outcome: while a row with the key is     *)
(* there, expired or not, the same outcome is not told again.              *)
(***************************************************************************)
EXTENDS Naturals

CONSTANTS
    Pupils,         \* who can represent the request
    Applicant,      \* the student who creates it
    Week,           \* the life of a notice
    MaxEdits, MaxReviews, MaxDays   \* bounds of a run

ASSUME ActivityAssumption ==
    /\ Applicant \in Pupils
    /\ Week \in Nat \ {0} /\ MaxEdits \in Nat /\ MaxReviews \in Nat /\ MaxDays \in Nat

VARIABLES
    request,    \* the row: status, representative, version, issued, reason
    members,    \* activity_request_participants
    notices,    \* the review notices of each user, by the review they tell
    today,
    issuedAs,   \* history: the version an issued number was given to
    twice,      \* history: outcomes that came again while their key was taken
    reviews     \* how many reviews there have been

activityVars == <<request, members, notices, today, issuedAs, twice, reviews>>

Reviewed == {"approved", "rejected"}
NoRequest == [status |-> "absent", representative |-> Applicant, version |-> 0,
              issued |-> FALSE, reason |-> FALSE]

ActivityInit ==
    /\ request = NoRequest /\ members = {}
    /\ notices = [u \in Pupils |-> {}]
    /\ today = 0 /\ issuedAs = 0 /\ twice = {} /\ reviews = 0

-----------------------------------------------------------------------------
\* createForUser: the insertion fails on the key of an earlier notice, and the
\* earlier notice is taken for this one.
Tell(u, outcome) ==
    LET taken == \E n \in notices[u] : n.kind = outcome IN
    /\ notices' = IF taken THEN notices
                  ELSE [notices EXCEPT ![u] = @ \cup
                           {[kind |-> outcome, nth |-> reviews', expires |-> today + Week]}]
    /\ twice' = IF taken THEN twice \cup {<<u, outcome>>} ELSE twice \ {<<u, outcome>>}

Untold == UNCHANGED <<notices, twice>>

\* create of a student, for himself or for another.
CreateRequest(rep) ==
    /\ request = NoRequest
    /\ request' = [NoRequest EXCEPT !.status = "submitted", !.representative = rep]
    /\ members' = {rep, Applicant}
    /\ UNCHANGED <<notices, today, issuedAs, twice, reviews>>

\* adminCreate: approved from the start.
AdminCreateRequest(rep) ==
    /\ request = NoRequest
    /\ request' = [NoRequest EXCEPT !.status = "approved", !.representative = rep, !.issued = TRUE]
    /\ members' = {rep} /\ issuedAs' = 0
    /\ UNCHANGED <<today, reviews>>
    /\ Tell(rep, "approved")

\* Slip: a request is edited whatever its status.
MutantUpdateRequest(rep) ==
    /\ request.status \in Reviewed \cup {"submitted"} /\ request.version < MaxEdits
    /\ request' = [request EXCEPT !.representative = rep, !.version = @ + 1]
    /\ members' = {rep, Applicant}
    /\ UNCHANGED <<notices, today, issuedAs, twice, reviews>>

\* update: what the student sends replaces request and participants.
UpdateRequest(rep) ==
    /\ request.status = "submitted" /\ request.version < MaxEdits
    /\ request' = [request EXCEPT !.representative = rep, !.version = @ + 1]
    /\ members' = {rep, Applicant}
    /\ UNCHANGED <<notices, today, issuedAs, twice, reviews>>

CancelRequest ==
    /\ request.status = "submitted"
    /\ request' = [request EXCEPT !.status = "canceled"]
    /\ UNCHANGED <<members, notices, today, issuedAs, twice, reviews>>

DeleteRequest ==
    /\ request.status = "submitted"
    /\ request' = [NoRequest EXCEPT !.status = "gone"] /\ members' = {}
    /\ UNCHANGED <<notices, today, issuedAs, twice, reviews>>

-----------------------------------------------------------------------------
Review == reviews < MaxReviews /\ reviews' = reviews + 1

Approve ==
    /\ request.status = "submitted" /\ Review
    /\ request' = [request EXCEPT !.status = "approved", !.issued = TRUE, !.reason = FALSE]
    /\ issuedAs' = request.version
    /\ Tell(request.representative, "approved")
    /\ UNCHANGED <<members, today>>

\* reject leaves the issued number alone.
Reject ==
    /\ request.status = "submitted" /\ Review
    /\ request' = [request EXCEPT !.status = "rejected", !.reason = TRUE]
    /\ Tell(request.representative, "rejected")
    /\ UNCHANGED <<members, today, issuedAs>>

\* updateAdminStatus: any status but canceled may be changed to any of three.
UpdateAdminStatus(s) ==
    /\ request.status \in Reviewed \cup {"submitted"} /\ Review
    /\ request' = [request EXCEPT !.status = s, !.issued = (s = "approved"),
                                  !.reason = (s = "rejected")]
    /\ issuedAs' = IF s = "approved" THEN request.version ELSE issuedAs
    /\ IF s \in Reviewed THEN Tell(request.representative, s) ELSE Untold
    /\ UNCHANGED <<members, today>>

-----------------------------------------------------------------------------
NextDay ==
    /\ today < MaxDays /\ today' = today + 1
    /\ UNCHANGED <<request, members, notices, issuedAs, twice, reviews>>

\* deleteExpired, from time to time: an expired notice is hidden at once.
DeleteExpired ==
    /\ notices' = [u \in Pupils |-> {n \in notices[u] : n.expires > today}]
    /\ notices' # notices
    /\ UNCHANGED <<request, members, today, issuedAs, twice, reviews>>

ActivityNext ==
    \/ \E rep \in Pupils : CreateRequest(rep) \/ AdminCreateRequest(rep) \/ UpdateRequest(rep)
    \/ CancelRequest \/ DeleteRequest \/ Approve \/ Reject
    \/ \E s \in Reviewed \cup {"submitted"} : UpdateAdminStatus(s)
    \/ NextDay \/ DeleteExpired

ActivitySpec == ActivityInit /\ [][ActivityNext]_activityVars

-----------------------------------------------------------------------------
ActivityTypeOK ==
    /\ request.status \in Reviewed \cup {"absent", "submitted", "canceled", "gone"}
    /\ request.representative \in Pupils
    /\ members \subseteq Pupils
    /\ \A u \in Pupils : notices[u] \subseteq [kind : Reviewed, nth : Nat, expires : Nat]

\* A number is issued exactly to approved requests, a reason given exactly to
\* rejected ones, though reject and cancel do not touch the number.
DecisionFitsStatus ==
    /\ request.issued <=> request.status = "approved"
    /\ request.reason <=> request.status = "rejected"

\* What was approved under a number is what stands under it.
IssuedDocumentStands == request.status = "approved" => request.version = issuedAs

\* The representative takes part, however often both were replaced.
RepresentativeTakesPart ==
    request.status \notin {"absent", "gone"} => request.representative \in members

\* The newest notice the representative sees of the review is its outcome,
\* unless this outcome came before and its key was still taken.
NewestNoticeIsTrue ==
    LET u == request.representative
        seen == {n \in notices[u] : n.expires > today}
    IN  request.status \in Reviewed =>
            \A n \in seen :
                \/ n.kind = request.status \/ <<u, request.status>> \in twice
                \/ \E m \in seen : m.nth > n.nth

\* What a request tells its students, over any sequence of reviews and edits.
RequestIsTruthful ==
    DecisionFitsStatus /\ IssuedDocumentStands /\ RepresentativeTakesPart /\ NewestNoticeIsTrue
=============================================================================
