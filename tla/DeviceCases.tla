---------------------------- MODULE DeviceCases ----------------------------
(***************************************************************************)
(* The device cases and the schedules that open and close them             *)
(* (device-cases.service.ts, device-case-schedule.worker.ts).              *)
(*                                                                         *)
(* A schedule is a row that a worker reads when it is due, carries out in  *)
(* a transaction and deletes in a statement of its own.  Nothing claims    *)
(* the row meanwhile: an error or a restart between the two leaves it to   *)
(* be carried out again, and a manager or another instance of the API      *)
(* acts in between.  Rows are numbered in the order of their creation.     *)
(***************************************************************************)
EXTENDS Naturals, FiniteSets, FiniteSetsExt

CONSTANTS
    Cases, Workers,
    MaxSchedules, MaxTime,
    MaxDisturbances,    \* bounds of a run; commands and interruptions together
    BatchLimit      \* how many due rows a worker reads at once, 50

ASSUME DeviceAssumption ==
    BatchLimit \in Nat \ {0} /\ MaxSchedules \in Nat /\ MaxTime \in Nat

Schedules == 1 .. MaxSchedules
Manual == 0     \* stands for a manager among those who operate a case

VARIABLES
    open,       \* the cases that are open
    schedule,   \* the rows: case, time and state to bring about
    present,    \* which of them are there
    created,    \* how many there have been
    clock,
    batch,      \* the rows each worker still has in hand
    carried,    \* the workers that have carried out the first of them
    acted,      \* history: how often a schedule was carried out
    last,       \* history: who operated a case last
    repeated,   \* history: schedules an interruption or a second worker repeats
    inHand,     \* history: schedules that were deleted under a worker
    disturbances    \* commands and interruptions so far

deviceVars == <<open, schedule, present, created, clock, batch, carried,
                acted, last, repeated, inHand, disturbances>>

DeviceInit ==
    /\ open = {} /\ present = {} /\ created = 0 /\ clock = 0
    /\ schedule = [s \in Schedules |-> [case |-> CHOOSE c \in Cases : TRUE, time |-> 0, opens |-> FALSE]]
    /\ batch = [w \in Workers |-> {}] /\ carried = {}
    /\ acted = [s \in Schedules |-> 0]
    /\ last = [c \in Cases |-> Manual]
    /\ repeated = {} /\ inHand = {}
    /\ disturbances = 0

Set(cs, opens) == open' = IF opens THEN open \cup cs ELSE open \ cs

-----------------------------------------------------------------------------
CreateSchedule(c, t, opens) ==
    /\ created < MaxSchedules
    /\ created' = created + 1
    /\ schedule' = [schedule EXCEPT ![created'] = [case |-> c, time |-> t, opens |-> opens]]
    /\ present' = present \cup {created'}
    /\ UNCHANGED <<open, clock, batch, carried, acted, last, repeated, inHand, disturbances>>

DeleteSchedule(s) ==
    /\ s \in present
    /\ present' = present \ {s}
    /\ inHand' = IF \E w \in Workers : s \in batch[w] THEN inHand \cup {s} ELSE inHand
    /\ UNCHANGED <<open, schedule, created, clock, batch, carried, acted, last, repeated,
                   disturbances>>

\* commandOne and commandAll of a manager.
Command(cs, opens) ==
    /\ disturbances < MaxDisturbances /\ disturbances' = disturbances + 1
    /\ Set(cs, opens)
    /\ last' = [c \in Cases |-> IF c \in cs THEN Manual ELSE last[c]]
    /\ UNCHANGED <<schedule, present, created, clock, batch, carried, acted, repeated,
                   inHand>>

-----------------------------------------------------------------------------
Due == {s \in present : schedule[s].time <= clock}

\* The first rows by number, not by time.
FirstRows(S) == {s \in S : Cardinality({t \in S : t < s}) < BatchLimit}

\* One run of a worker at a time; another instance has a worker of its own.
ReadDue(w) ==
    /\ batch[w] = {} /\ Due # {}
    /\ batch' = [batch EXCEPT ![w] = FirstRows(Due)]
    /\ repeated' = repeated \cup (FirstRows(Due) \cap UNION {batch[v] : v \in Workers})
    /\ UNCHANGED <<open, schedule, present, created, clock, carried, acted, last, inHand,
                   disturbances>>

CarryOut(w) ==
    /\ batch[w] # {} /\ w \notin carried
    /\ LET s == Min(batch[w]) IN
        /\ Set({schedule[s].case}, schedule[s].opens)
        /\ acted' = [acted EXCEPT ![s] = @ + 1]
        /\ last' = [last EXCEPT ![schedule[s].case] = s]
    /\ carried' = carried \cup {w}
    /\ UNCHANGED <<schedule, present, created, clock, batch, repeated, inHand, disturbances>>

\* Slip: the row stays after it was carried out.
MutantDeleteCarriedOut(w) ==
    /\ w \in carried /\ carried' = carried \ {w}
    /\ batch' = [batch EXCEPT ![w] = @ \ {Min(@)}]
    /\ UNCHANGED <<open, schedule, present, created, clock, acted, last, repeated, inHand,
                   disturbances>>

DeleteCarriedOut(w) ==
    /\ w \in carried /\ carried' = carried \ {w}
    /\ present' = present \ {Min(batch[w])}
    /\ batch' = [batch EXCEPT ![w] = @ \ {Min(@)}]
    /\ UNCHANGED <<open, schedule, created, clock, acted, last, repeated, inHand, disturbances>>

\* An exception, or the end of the process, ends the run; the rows it had in
\* hand are read again.
Interrupt(w) ==
    /\ batch[w] # {} /\ disturbances < MaxDisturbances
    /\ disturbances' = disturbances + 1
    /\ repeated' = IF w \in carried THEN repeated \cup {Min(batch[w])} ELSE repeated
    /\ batch' = [batch EXCEPT ![w] = {}] /\ carried' = carried \ {w}
    /\ UNCHANGED <<open, schedule, present, created, clock, acted, last, inHand>>

Tick ==
    /\ clock < MaxTime /\ clock' = clock + 1
    /\ UNCHANGED <<open, schedule, present, created, batch, carried, acted, last, repeated,
                   inHand, disturbances>>

DeviceNext ==
    \/ \E c \in Cases, t \in 0 .. MaxTime, opens \in BOOLEAN : CreateSchedule(c, t, opens)
    \/ \E s \in Schedules : DeleteSchedule(s)
    \/ \E cs \in SUBSET Cases \ {{}}, opens \in BOOLEAN : Command(cs, opens)
    \/ \E w \in Workers : ReadDue(w) \/ CarryOut(w) \/ DeleteCarriedOut(w) \/ Interrupt(w)
    \/ Tick

DeviceSpec == DeviceInit /\ [][DeviceNext]_deviceVars

-----------------------------------------------------------------------------
DeviceTypeOK ==
    /\ open \subseteq Cases
    /\ present \subseteq 1 .. created
    /\ batch \in [Workers -> SUBSET (1 .. created)]
    /\ carried \subseteq {w \in Workers : batch[w] # {}}
    /\ acted \in [Schedules -> Nat]
    /\ last \in [Cases -> Schedules \cup {Manual}]

\* A schedule is carried out once ("one-shot"), unless the run that did it was
\* interrupted before the row was deleted, or two workers had it in hand.
ActsOnce == \A s \in Schedules : acted[s] > 1 => s \in repeated

\* A schedule that was carried out is gone; it is not kept for the next run by
\* anything but such an interruption.
ActedIsGone ==
    \A s \in present : acted[s] > 0 =>
        s \in repeated \/ \E w \in carried : s = Min(batch[w])

\* A case is not left as the earlier of two schedules says, unless the earlier
\* was entered after the later (rows are carried out by number, not by time), was
\* repeated, or was deleted when a worker had it in hand.
LaterScheduleWins ==
    \A c \in Cases, s, t \in Schedules :
        /\ last[c] = s /\ schedule[t].case = c /\ acted[t] > 0
        /\ schedule[s].time < schedule[t].time
        => s > t \/ s \in repeated \cup inHand

\* What runDueSchedules promises of its rows, whoever interferes.
SchedulesAreOneShot == ActsOnce /\ ActedIsGone /\ LaterScheduleWins
=============================================================================
