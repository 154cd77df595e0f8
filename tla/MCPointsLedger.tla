--------------------------- MODULE MCPointsLedger ---------------------------
(***************************************************************************)
(* Small instances of PointsLedger: one or two students, a merit, a large  *)
(* penalty and a small one, with the threshold scaled down; and the page   *)
(* that awards points, by itself (AwardForm).                              *)
(***************************************************************************)
EXTENDS PointsLedger, AwardForm, TLC

CONSTANTS amy, bob, plus, minus, more, r1, r2, g1, g2, b1, b2, h1, h2, h3,
          y1, y2, d1, d2, x1, e1, p1, p2, spring, fall, batch

MCThreshold == -2

MCStudentOf == [i \in Items |-> IF i = more /\ bob \in Students THEN bob ELSE amy]
MCPointOf == [i \in Items |-> CASE i = plus -> 3 [] i = minus -> -5 [] OTHER -> -1]
MCReasonOf == [i \in Items |-> IF i = plus THEN r1 ELSE r2]
MCFirstType == [r \in Reasons |-> IF r = r1 THEN "PLUS" ELSE "MINUS"]

\* g1 grants the merit, g2 the large penalty; a batch is the penalties.
MCItemsOf ==
    [c \in Grants \cup Batches |->
        CASE c = g1 -> {plus} [] c = g2 -> {minus} [] OTHER -> Items \ {plus}]

\* h1 and h2 are calls for one semester, h3 is for the next if there is one.
MCKeyOf ==
    [o \in Operations |->
        CASE o \in {b1, b2} -> batch [] o = h3 /\ fall \in Keys -> fall [] OTHER -> spring]

TwoProcesses == [o \in Operations |-> IF o = h3 THEN p2 ELSE p1]

-----------------------------------------------------------------------------
(* The calls of a behaviour are those of one scenario.  Two departures and *)
(* a dismissal meet the half of two semesters; merit and penalty are       *)
(* halved twice around one departure; both are halved once while two       *)
(* departures and a dismissal run; a batch and two halves of one semester  *)
(* overlap, crash and are repeated, and a reason is edited; two syncs and  *)
(* an approval overlap while a semester is halved.  Without a scenario the *)
(* page is used that awards points.                                        *)

VARIABLE asked

Departing == {g2, h1, h3, d1, d2, x1}
Halving == {g1, g2, h1, h3, d1}
Balanced == {g1, g2, h1, d1, d2, x1}
Repeating == {b1, h1, h2, e1}
Syncing == {b1, h1, y1, y2, d1}
Scenarios == {Departing, Halving, Balanced, Repeating, Syncing}

Started(c) == pc[c] = "idle" /\ pc'[c] # "idle"

MCInit == Init /\ AwardInit /\ asked \in Scenarios \cup {{}}

MCNext ==
    \/ /\ Next /\ crashes' = crashes /\ UNCHANGED <<asked, awardVars>>
       /\ \A c \in Calls : Started(c) => c \in asked
    \/ /\ asked = Repeating /\ UNCHANGED <<asked, awardVars>>
       /\ \E p \in Processes : Crash(p)
    \/ asked = {} /\ AwardNext /\ UNCHANGED <<asked, vars>>

MCSpec == MCInit /\ [][MCNext]_<<vars, asked, awardVars>>

=============================================================================
