----------------------------- MODULE Petitions -----------------------------
(***************************************************************************)
(* One petition from its creation to its answer (petitions.service.ts).    *)
(*                                                                         *)
(* Every change is a transaction that locks the row of the petition; the   *)
(* number of signatures is a column beside the rows of those who signed,   *)
(* and decides the status.  A reader signs the petition, not the text he   *)
(* has on the screen: no version goes with a signature.                    *)
(***************************************************************************)
EXTENDS Naturals, FiniteSets

CONSTANTS
    Signers,
    Threshold,          \* PETITION_THRESHOLD
    MaxTexts, MaxTaps   \* bounds: texts of a petition, taps of each signer

ASSUME PetitionAssumption == Threshold \in Nat \ {0}

VARIABLES
    petition,   \* the row: status, participantCount, text
    signed,     \* petition_participants
    answers,    \* rows of petition_answers
    ended,      \* endsAt has passed
    screen,     \* the petition as each signer has it on the screen
    taps,
    textSigned  \* history: the text each signature was given for

petitionVars == <<petition, signed, answers, ended, screen, taps, textSigned>>

NoPetition == [status |-> "absent", count |-> 0, text |-> 0]

PetitionInit ==
    /\ petition = NoPetition /\ signed = {} /\ answers = 0 /\ ended = FALSE
    /\ screen = [v \in Signers |-> NoPetition]
    /\ taps = [v \in Signers |-> 0]
    /\ textSigned = [v \in Signers |-> 0]

-----------------------------------------------------------------------------
CreatePetition ==
    /\ petition = NoPetition
    /\ petition' = [status |-> "open", count |-> 0, text |-> 1]
    /\ UNCHANGED <<signed, answers, ended, screen, taps, textSigned>>

\* detail: hidden petitions are not shown.
ReadPetition(v) ==
    /\ petition.status \notin {"absent", "hidden"} /\ screen[v] # petition
    /\ screen' = [screen EXCEPT ![v] = petition]
    /\ UNCHANGED <<petition, signed, answers, ended, taps, textSigned>>

\* Slip: the status is that of the count before this signature.
MutantParticipate(v) ==
    /\ screen[v] # NoPetition /\ taps[v] < MaxTaps
    /\ petition.status = "open" /\ ~ended
    /\ taps' = [taps EXCEPT ![v] = @ + 1]
    /\ signed' = signed \cup {v}
    /\ petition' = IF v \in signed THEN petition
                   ELSE [petition EXCEPT
                            !.count = @ + 1,
                            !.status = IF petition.count >= Threshold THEN "awaiting_answer" ELSE "open"]
    /\ textSigned' = IF v \in signed THEN textSigned ELSE [textSigned EXCEPT ![v] = petition.text]
    /\ UNCHANGED <<answers, ended, screen>>

\* participate; a second tap finds the first signature.
Participate(v) ==
    /\ screen[v] # NoPetition /\ taps[v] < MaxTaps
    /\ petition.status = "open" /\ ~ended
    /\ taps' = [taps EXCEPT ![v] = @ + 1]
    /\ signed' = signed \cup {v}
    /\ petition' = IF v \in signed THEN petition
                   ELSE [petition EXCEPT
                            !.count = @ + 1,
                            !.status = IF petition.count + 1 >= Threshold THEN "awaiting_answer" ELSE "open"]
    /\ textSigned' = IF v \in signed THEN textSigned ELSE [textSigned EXCEPT ![v] = petition.text]
    /\ UNCHANGED <<answers, ended, screen>>

Untouched == petition.status = "open" /\ petition.count = 0

\* update and delete of the author; a manager deletes whatever is not hidden yet.
UpdatePetition ==
    /\ Untouched /\ petition.text < MaxTexts
    /\ petition' = [petition EXCEPT !.text = @ + 1]
    /\ UNCHANGED <<signed, answers, ended, screen, taps, textSigned>>

DeletePetition(manages) ==
    /\ petition.status \notin {"absent", "hidden"}
    /\ manages \/ Untouched
    /\ petition' = [petition EXCEPT !.status = "hidden"]
    /\ UNCHANGED <<signed, answers, ended, screen, taps, textSigned>>

AnswerPetition ==
    /\ petition.status = "awaiting_answer"
    /\ answers' = answers + 1
    /\ petition' = [petition EXCEPT !.status = "answered"]
    /\ UNCHANGED <<signed, ended, screen, taps, textSigned>>

EndPetition ==
    /\ ~ended /\ ended' = TRUE
    /\ UNCHANGED <<petition, signed, answers, screen, taps, textSigned>>

PetitionNext ==
    \/ CreatePetition \/ UpdatePetition \/ AnswerPetition \/ EndPetition
    \/ \E v \in Signers : ReadPetition(v) \/ Participate(v)
    \/ \E manages \in BOOLEAN : DeletePetition(manages)

PetitionSpec == PetitionInit /\ [][PetitionNext]_petitionVars

-----------------------------------------------------------------------------
PetitionTypeOK ==
    /\ petition.status \in {"absent", "open", "awaiting_answer", "answered", "hidden"}
    /\ petition.count \in Nat /\ petition.text \in Nat
    /\ signed \subseteq Signers /\ answers \in Nat

\* The status is that of the signatures: a petition collects them below the
\* threshold and waits for an answer, given once, from there on; taps that
\* repeat a signature do not count.
StatusFollowsSignatures ==
    /\ petition.count = Cardinality(signed)
    /\ petition.status = "open" => petition.count < Threshold
    /\ petition.status \in {"awaiting_answer", "answered"} => petition.count = Threshold
    /\ petition.status # "hidden" => answers = IF petition.status = "answered" THEN 1 ELSE 0
    /\ answers <= 1

\* All signatures are for the text that stands; who read the petition after the
\* first of them signed what he read (before it, the author may have changed
\* the text since).
SignedTextStands ==
    \A v \in signed :
        /\ textSigned[v] = petition.text
        /\ screen[v].count > 0 => screen[v].text = petition.text

\* What a petition promises those who sign it.
PetitionIsHonest == StatusFollowsSignatures /\ SignedTextStands
=============================================================================
