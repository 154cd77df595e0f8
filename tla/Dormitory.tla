----------------------------- MODULE Dormitory -----------------------------
(***************************************************************************)
(* The beds of one term (dorm.service.ts, dorm-draw.policy.ts).            *)
(*                                                                         *)
(* An assignment is a row of its own.  Indexes give a student one bed and  *)
(* a bed one student (only the first is relied on here); the rest of what  *)
(* makes a room right - capacity, house and grade, classes, students who   *)
(* must not share - no constraint of the database states.  Every           *)
(* change validates the rooms it touches inside a transaction that locks   *)
(* those rooms first.  InnoDB's snapshot is taken by the first plain read, *)
(* so blocks are those of a moment after the rooms are locked, while the   *)
(* assignments are read FOR UPDATE, in their latest state.  A move and a   *)
(* swap have read what they change before the transaction.                 *)
(***************************************************************************)
EXTENDS Naturals, FiniteSets

CONSTANTS
    Students, Rooms,
    Capacity,       \* the beds of a room
    Suits,          \* the rooms for a student's gender and grade
    ClassOf,        \* the class of a student
    Creations, Moves, Swaps, Draws, Cancellations,  \* calls, each made once
    About,          \* the students a call is about: one, two or the targets
    To,             \* the bed a creation or a move asks for
    Positions,      \* the bed positions callers send
    Enterable,      \* the pairs callers enter as blocks
    NoBed

DormCalls == Creations \cup Moves \cup Swaps \cup Draws \cup Cancellations
Beds == [room : Rooms, position : Positions]
Blocks == {p \in SUBSET Students : Cardinality(p) = 2}

ASSUME DormAssumption ==
    /\ Capacity \in [Rooms -> Nat]
    /\ Suits \in [Students -> SUBSET Rooms]
    /\ (Creations \cup Draws) \cap (Moves \cup Swaps) = {}
    /\ About \in [DormCalls -> SUBSET Students]
    /\ To \in [Creations \cup Moves -> Beds]
    /\ Positions \subseteq Nat
    /\ Enterable \subseteq Blocks
    /\ NoBed \notin Beds /\ NoBed \notin DormCalls

VARIABLES
    bed,        \* the bed of each student's assignment, or NoBed
    row,        \* the call that inserted the assignment: its identity
    blocks,     \* pairs that must not share a room
    dorm,       \* where each call is: the placements it plans, what it has read
    forgiven    \* history: blocks entered too late for a placement of their pair

dormVars == <<bed, row, blocks, dorm, forgiven>>

Share(f, s, t) == s # t /\ f[s] # NoBed /\ f[t] # NoBed /\ f[s].room = f[t].room

\* validateDormPlacements of the placements f, NoBed where there is none.
RoomsFit(f) ==
    /\ \A s \in Students : f[s] # NoBed =>
        f[s].room \in Suits[s] /\ f[s].position \in 1 .. Capacity[f[s].room]
    /\ \A s, t \in Students : Share(f, s, t) =>
        f[s].position # f[t].position /\ ClassOf[s] # ClassOf[t]

Apart(f, pairs) == \A s, t \in Students : Share(f, s, t) => {s, t} \notin pairs

Idle == [step |-> "idle", plan |-> <<>>, targets |-> {}, rows |-> <<>>, blocks |-> {}]

\* The term has begun: some students have a bed.
DormInit ==
    /\ bed \in {f \in [Students -> Beds \cup {NoBed}] : RoomsFit(f)}
    /\ row = [s \in Students |-> NoBed]
    /\ blocks = {} /\ forgiven = {}
    /\ dorm = [c \in DormCalls |-> Idle]

Affected(c) == {dorm[c].plan[s].room : s \in DOMAIN dorm[c].plan}
Occupants(room) == {s \in Students : bed[s] # NoBed /\ bed[s].room = room}

-----------------------------------------------------------------------------
\* What a call is about, as its caller saw it.
Plan(c, p, targets) ==
    dorm' = [dorm EXCEPT ![c].step = "planned", ![c].plan = p, ![c].targets = targets,
                         ![c].rows = [s \in targets |-> row[s]]]

RequestBed(c) ==
    /\ c \in Creations /\ dorm[c].step = "idle"
    /\ dorm' = [dorm EXCEPT ![c].step = "planned", ![c].plan = [s \in About[c] |-> To[c]]]
    /\ UNCHANGED <<bed, row, blocks, forgiven>>

\* The assignment to move is read before the transaction, as are the two to swap.
ReadMoved(c) ==
    /\ c \in Moves /\ dorm[c].step = "idle"
    /\ \A s \in About[c] : bed[s] # NoBed
    /\ Plan(c, [s \in About[c] |-> To[c]], About[c])
    /\ UNCHANGED <<bed, row, blocks, forgiven>>

ReadSwapped(c) ==
    /\ c \in Swaps /\ dorm[c].step = "idle"
    /\ \A s \in About[c] : bed[s] # NoBed
    /\ \E s, t \in About[c] :
        /\ s # t
        /\ Plan(c, [x \in {s, t} |-> IF x = s THEN bed[t] ELSE bed[s]], {s, t})
    /\ UNCHANGED <<bed, row, blocks, forgiven>>

\* previewDraw: placements that are right next to the others' at this moment;
\* the lottery among them is left open.
PreviewDraw(c, p) ==
    /\ c \in Draws /\ dorm[c].step = "idle"
    /\ LET f == [s \in Students |-> IF s \in DOMAIN p THEN p[s]
                                    ELSE IF s \in About[c] THEN NoBed ELSE bed[s]]
       IN  RoomsFit(f) /\ Apart(f, blocks)
    /\ Plan(c, p, About[c])
    /\ UNCHANGED <<bed, row, blocks, forgiven>>

\* Lock the rooms of the plan, then take the snapshot.
LockRooms(c) ==
    /\ dorm[c].step = "planned"
    /\ \A d \in DormCalls : dorm[d].step = "locked" => Affected(c) \cap Affected(d) = {}
    /\ dorm' = [dorm EXCEPT ![c].step = "locked", ![c].blocks = blocks]
    /\ UNCHANGED <<bed, row, blocks, forgiven>>

\* The rows a change replaces: they do not count as occupants.
Replaced(c) ==
    {s \in dorm[c].targets : bed[s] # NoBed /\ (c \in Draws \/ row[s] = dorm[c].rows[s])}

\* Slip: only the placements of the call are validated, not the occupants they join.
MutantValidated(c) ==
    [s \in Students |-> IF s \in DOMAIN dorm[c].plan THEN dorm[c].plan[s] ELSE NoBed]

\* The placements that are validated: those of the call and whoever else is in
\* the rooms they are in.
Validated(c) ==
    [s \in Students |->
        IF s \in DOMAIN dorm[c].plan THEN dorm[c].plan[s]
        ELSE IF bed[s] # NoBed /\ bed[s].room \in Affected(c) /\ s \notin Replaced(c) THEN bed[s]
        ELSE NoBed]

Valid(c) ==
    /\ \A s \in DOMAIN dorm[c].plan : bed[s] # NoBed => s \in Replaced(c)
    /\ RoomsFit(Validated(c))
    /\ Apart(Validated(c), dorm[c].blocks)

\* A creation inserts and a draw deletes and inserts; a move and a swap update
\* the rows they read, which may be gone.
Result(c) ==
    [s \in Students |->
        IF c \in Moves \cup Swaps
        THEN IF s \in Replaced(c) THEN dorm[c].plan[s] ELSE bed[s]
        ELSE IF s \in DOMAIN dorm[c].plan THEN dorm[c].plan[s]
        ELSE IF s \in dorm[c].targets THEN NoBed ELSE bed[s]]

\* Read the assignments, validate, write.
Write(c) ==
    /\ dorm[c].step = "locked"
    /\ IF Valid(c)
       THEN /\ bed' = Result(c)
            /\ row' = [s \in Students |->
                        IF bed'[s] = NoBed THEN NoBed
                        ELSE IF c \notin Moves \cup Swaps /\ s \in DOMAIN dorm[c].plan THEN c
                        ELSE row[s]]
       ELSE UNCHANGED <<bed, row>>
    /\ dorm' = [dorm EXCEPT ![c] = [Idle EXCEPT !.step = "done"]]
    /\ UNCHANGED <<blocks, forgiven>>

CancelAssignment(c) ==
    /\ c \in Cancellations /\ dorm[c].step = "idle"
    /\ bed' = [s \in Students |-> IF s \in About[c] THEN NoBed ELSE bed[s]]
    /\ row' = [s \in Students |-> IF s \in About[c] THEN NoBed ELSE row[s]]
    /\ dorm' = [dorm EXCEPT ![c].step = "done"]
    /\ UNCHANGED <<blocks, forgiven>>

-----------------------------------------------------------------------------
\* createRoommateBlock takes no lock and does not look at the assignments:
\* too late for a pair that shares a room, or may be put in one by a transaction
\* whose snapshot is taken.
CreateRoommateBlock(p) ==
    /\ p \notin blocks /\ \A s, t \in p : Suits[s] = Suits[t]
    /\ blocks' = blocks \cup {p}
    /\ forgiven' = IF \/ \E r \in Rooms : p \subseteq Occupants(r)
                      \/ \E c \in DormCalls : dorm[c].step = "locked"
                                              /\ p \cap DOMAIN dorm[c].plan # {}
                   THEN forgiven \cup {p} ELSE forgiven
    /\ UNCHANGED <<bed, row, dorm>>

DeleteRoommateBlock(p) ==
    /\ p \in blocks /\ blocks' = blocks \ {p} /\ forgiven' = forgiven \ {p}
    /\ UNCHANGED <<bed, row, dorm>>

DormNext ==
    \/ \E c \in DormCalls :
        \/ RequestBed(c) \/ ReadMoved(c) \/ ReadSwapped(c)
        \/ LockRooms(c) \/ Write(c) \/ CancelAssignment(c)
        \/ \E drawn \in SUBSET About[c] : \E p \in [drawn -> Beds] : PreviewDraw(c, p)
    \/ \E p \in Enterable : CreateRoommateBlock(p) \/ DeleteRoommateBlock(p)

DormSpec == DormInit /\ [][DormNext]_dormVars

-----------------------------------------------------------------------------
Plans == UNION {[D -> Beds] : D \in SUBSET Students}

\* The assignments, the blocks and the plans of the calls are of their kind.
DormTypeOK ==
    /\ bed \in [Students -> Beds \cup {NoBed}]
    /\ row \in [Students -> DormCalls \cup {NoBed}]
    /\ blocks \subseteq Blocks /\ forgiven \subseteq blocks
    /\ \A c \in DormCalls :
        /\ dorm[c].step \in {"idle", "planned", "locked", "done"}
        /\ dorm[c].plan \in Plans
        /\ dorm[c].targets \subseteq Students
        /\ dorm[c].blocks \subseteq Blocks

\* Whatever calls overlap, no room has two students in a bed, a student in a bed
\* it has not, of another house or grade, or two of one class: although a call
\* looks only at the rooms it places somebody in, and a swap writes what it read
\* before the transaction (validateAssignmentChange, and the rule of
\* admin-design-system.md).
RoomsAreRight == RoomsFit(bed)

\* Two students who must not share a room do not, unless the block was entered
\* when they already did, or during a transaction that placed one of them.
BlockedStudentsAreApart == Apart(bed, blocks \ forgiven)

\* What a bed plan promises, whichever changes of it overlap.
BedPlanIsSound == RoomsAreRight /\ BlockedStudentsAreApart
=============================================================================
