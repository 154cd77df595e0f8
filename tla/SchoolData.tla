----------------------------- MODULE SchoolData -----------------------------
(***************************************************************************)
(* The school's menus and its calendar (school-data.service.ts).           *)
(*                                                                         *)
(* Menus come from an outside service, by ranges of dates, through three   *)
(* layers: the memory of the process, bounded and with a second life for   *)
(* outages; Redis, which all processes share; and a load, which the calls  *)
(* of a process that want the same range share.  A call reads the layers   *)
(* one after the other with the time and the memory it found at its start. *)
(*                                                                         *)
(* The calendar is a table that administrators edit, in part or by         *)
(* importing a range; an edit is merged with what was read before it.      *)
(***************************************************************************)
EXTENDS Naturals, Sequences, FiniteSetsExt

CONSTANTS
    Processes,       \* API processes
    Ranges,          \* of dates: the keys of the caches
    Readers,         \* calls of getMeals
    AtProcess,       \* AtProcess[c]: the process that answers c
    Wants,           \* Wants[c]: the range c needs
    TTL, StaleFor,   \* an hour and a day, in units of time
    Backoff,         \* a minute
    MaxEntries,      \* 128 in memory, and as many failures
    MaxLoads,        \* 16 loads of a process at a time
    MaxClock, MaxOutages,
    Drafts,          \* events that are entered or imported
    Updates,         \* calls of updateManagedEvent
    ChangesOf,       \* ChangesOf[u]: the fields u gives, with their values
    Deletions,       \* calls of deleteManagedEvent
    ImportFiles,           \* sequences of events that are imported
    MaxEvents

\* An event as it is entered; dates are numbers.
Events == [startsAt : Nat, endsAt : Nat, category : STRING, isHoliday : BOOLEAN]

ASSUME SchoolDataAssumption ==
    /\ {TTL, StaleFor, Backoff} \subseteq Nat \ {0} /\ TTL <= StaleFor
    /\ {MaxEntries, MaxLoads} \subseteq Nat \ {0} /\ MaxClock \in Nat
    /\ AtProcess \in [Readers -> Processes] /\ Wants \in [Readers -> Ranges]
    /\ IsFiniteSet(Readers) /\ MaxOutages \in Nat /\ MaxEvents \in Nat
    /\ Drafts \subseteq Events /\ ImportFiles \subseteq Seq(Events)
    /\ \A u \in Updates : DOMAIN ChangesOf[u] \subseteq {"startsAt", "endsAt", "category", "isHoliday"}

VARIABLES
    hour,      \* the time, in units
    memory,    \* memory[p]: the entries, one of a key
    failures,  \* failures[p]: ranges that failed, with the end of their backoff, likewise
    loading,   \* loading[p]: the loads under way, likewise
    shelf,     \* the keys in Redis
    reader,    \* where each call is, what it took along, and its answer
    outages,
    calendar,  \* school_events, by id
    lastId,    \* the last id given
    changing   \* changing[u]: where an update or deletion is, the id and the event it read

mealVars == <<hour, memory, failures, loading, shelf, reader, outages>>
eventVars == <<calendar, lastId, changing>>
schoolVars == <<mealVars, eventVars>>

NoMenu == [of |-> MaxClock + 1, until |-> 0]   \* no value
NoMealCall ==
    [at |-> "idle", began |-> 0, held |-> NoMenu, answer |-> NoMenu, how |-> "none", ended |-> 0]

-----------------------------------------------------------------------------
\* The maps keep the order in which their keys were last set: the turn of an entry.
Keyed(s, k) == \E e \in s : e.key = k
Of(s, k) == CHOOSE e \in s : e.key = k
Without(s, k) == {e \in s : e.key # k}
Living(s) == {e \in s : e.gone > hour}
NextTurn(s) == 1 + Max({0} \cup {e.turn : e \in s})
Renewed(s, e) == Without(s, e.key) \cup {[e EXCEPT !.turn = NextTurn(s)]}
Oldest(s) == CHOOSE e \in s : \A f \in s : e.turn <= f.turn

\* What is of no more use goes, then the oldest entry if there is one too many.
Put(s, e) ==
    LET t == Renewed(Living(s), e)
    IN  IF Cardinality(t) > MaxEntries THEN t \ {Oldest(t)} ELSE t

\* What is still of use is moved to the end when it is read, the rest deleted.
Used(s, k) ==
    IF ~Keyed(s, k) THEN s
    ELSE IF Of(s, k).gone <= hour THEN Without(s, k) ELSE Renewed(s, Of(s, k))

\* remember: an entry is good for TTL from now on, and for outages until StaleFor.
Remember(p, k, of) ==
    memory' = [memory EXCEPT ![p] =
        Put(@, [key |-> k, of |-> of, fresh |-> hour + TTL, gone |-> hour + StaleFor, turn |-> 0])]

Held(p, k) ==
    IF Keyed(memory[p], k) /\ Of(memory[p], k).gone > hour
    THEN [of |-> Of(memory[p], k).of, until |-> Of(memory[p], k).gone] ELSE NoMenu

\* An answer, with the time until which the process remembers it for outages.
Answered(r, menu, how) ==
    [r EXCEPT !.at = "answered", !.answer = menu, !.how = how, !.held = NoMenu, !.ended = hour]

\* Slip: what a call falls back on passes for an answer even if there is none.
MutantFallBack(r) == Answered(r, r.held, "stale")

\* What a call falls back on: the memory it found, if it was of use then, or nothing.
FallBack(r) ==
    IF r.held # NoMenu THEN Answered(r, r.held, "stale") ELSE Answered(r, NoMenu, "unavailable")

-----------------------------------------------------------------------------
\* cachedLoad, up to its first await.
ReadMemory(c) ==
    LET p == AtProcess[c]
        k == Wants[c]
    IN  /\ reader[c].at = "idle"
        /\ memory' = [memory EXCEPT ![p] = Used(@, k)]
        /\ reader' = [reader EXCEPT ![c] =
               IF Keyed(memory[p], k) /\ Of(memory[p], k).fresh > hour
               THEN Answered([@ EXCEPT !.began = hour], Held(p, k), "fresh")
               ELSE [@ EXCEPT !.at = "redis", !.began = hour, !.held = Held(p, k)]]
        /\ UNCHANGED <<hour, failures, loading, shelf, outages, eventVars>>

FindOnShelf(c) ==
    LET k == Wants[c]
    IN  /\ reader[c].at = "redis" /\ shelf[k].until > hour
        /\ Remember(AtProcess[c], k, shelf[k].of)
        /\ reader' = [reader EXCEPT ![c] =
               Answered(@, [of |-> shelf[k].of, until |-> hour + StaleFor], "fresh")]
        /\ UNCHANGED <<hour, failures, loading, shelf, outages, eventVars>>

\* Nothing in Redis, or no Redis: a recent failure, a load to share, too many loads,
\* or a load of its own.  Failures are compared with the time the call began.
Shares(c) == Keyed(loading[AtProcess[c]], Wants[c])
BackingOff(c) ==
    Keyed(failures[AtProcess[c]], Wants[c])
    /\ Of(failures[AtProcess[c]], Wants[c]).gone > reader[c].began

MissShelf(c) ==
    LET p == AtProcess[c]
        k == Wants[c]
    IN  /\ reader[c].at = "redis"
        /\ \/ shelf[k].until <= hour /\ UNCHANGED outages
           \/ outages < MaxOutages /\ outages' = outages + 1
        /\ failures' = [failures EXCEPT ![p] = Used(@, k)]
        /\ \/ /\ BackingOff(c) \/ (~Shares(c) /\ Cardinality(loading[p]) >= MaxLoads)
              /\ reader' = [reader EXCEPT ![c] = FallBack(@)] /\ UNCHANGED loading
           \/ /\ ~BackingOff(c) /\ Shares(c)
              /\ reader' = [reader EXCEPT ![c].at = "waiting"] /\ UNCHANGED loading
           \/ /\ ~BackingOff(c) /\ ~Shares(c) /\ Cardinality(loading[p]) < MaxLoads
              /\ reader' = [reader EXCEPT ![c].at = "waiting"]
              /\ loading' = [loading EXCEPT ![p] =
                     @ \cup {[key |-> k, since |-> hour, of |-> NoMenu.of]}]
        /\ UNCHANGED <<hour, memory, shelf, eventVars>>

\* requestAllNeisRows: the first page, then the others, which must add up to its total.
FirstPage(p, l) ==
    /\ l.of = NoMenu.of
    /\ loading' = [loading EXCEPT ![p] = (@ \ {l}) \cup {[l EXCEPT !.of = hour]}]
    /\ UNCHANGED <<hour, memory, failures, shelf, reader, outages, eventVars>>

\* The load settles for everybody who waits for it, before anything else runs.
Waiting(p, k) == {c \in Readers : AtProcess[c] = p /\ Wants[c] = k /\ reader[c].at = "waiting"}

LoadSucceeds(p, l) ==
    /\ l.of # NoMenu.of
    /\ loading' = [loading EXCEPT ![p] = Without(@, l.key)]
    /\ failures' = [failures EXCEPT ![p] = Without(@, l.key)]
    /\ Remember(p, l.key, l.of)
    /\ reader' = [c \in Readers |->
           IF c \in Waiting(p, l.key)
           THEN [Answered(reader[c], [of |-> l.of, until |-> hour + StaleFor], "fresh")
                    EXCEPT !.at = "writing"]
           ELSE reader[c]]
    /\ UNCHANGED <<hour, shelf, outages, eventVars>>

LoadFails(p, l) ==
    /\ outages < MaxOutages /\ outages' = outages + 1
    /\ loading' = [loading EXCEPT ![p] = Without(@, l.key)]
    /\ failures' = [failures EXCEPT ![p] =
           Put(@, [key |-> l.key, gone |-> hour + Backoff, turn |-> 0])]
    /\ reader' = [c \in Readers |->
           IF c \in Waiting(p, l.key) THEN FallBack(reader[c]) ELSE reader[c]]
    /\ UNCHANGED <<hour, memory, shelf, eventVars>>

\* Every call that waited writes Redis for itself; if that fails it is skipped.
WriteShelf(c) ==
    /\ reader[c].at = "writing"
    /\ \/ shelf' = [shelf EXCEPT ![Wants[c]] = [reader[c].answer EXCEPT !.until = hour + TTL]]
          /\ UNCHANGED outages
       \/ outages < MaxOutages /\ outages' = outages + 1 /\ UNCHANGED shelf
    /\ reader' = [reader EXCEPT ![c].at = "answered"]
    /\ UNCHANGED <<hour, memory, failures, loading, eventVars>>

\* A load is given up within a unit (NEIS_REQUEST_TIMEOUT_MS), and Redis answers
\* within one, too: each call may see the clock strike once.
PassTime ==
    /\ hour < MaxClock /\ hour' = hour + 1
    /\ \A c \in Readers : /\ reader[c].at = "writing" => reader[c].ended = hour
                          /\ reader[c].at = "redis" => reader[c].began = hour
    /\ \A p \in Processes : \A l \in loading[p] : l.since = hour
    /\ UNCHANGED <<memory, failures, loading, shelf, reader, outages, eventVars>>

RestartProcess(p) ==
    /\ outages < MaxOutages /\ outages' = outages + 1
    /\ memory' = [memory EXCEPT ![p] = {}] /\ failures' = [failures EXCEPT ![p] = {}]
    /\ loading' = [loading EXCEPT ![p] = {}]
    /\ reader' = [c \in Readers |->
           IF AtProcess[c] # p \/ reader[c].at \in {"idle", "over"} THEN reader[c]
           ELSE IF reader[c].at = "answered" THEN [reader[c] EXCEPT !.answer.until = 0]
           ELSE [NoMealCall EXCEPT !.at = "over"]]
    /\ UNCHANGED <<hour, shelf, eventVars>>

MealNext ==
    \/ \E c \in Readers : ReadMemory(c) \/ FindOnShelf(c) \/ MissShelf(c) \/ WriteShelf(c)
    \/ \E p \in Processes : \E l \in loading[p] :
           FirstPage(p, l) \/ LoadSucceeds(p, l) \/ LoadFails(p, l)
    \/ \E p \in Processes : RestartProcess(p)
    \/ PassTime

-----------------------------------------------------------------------------
\* normalizeManagedEventCategory, and managedEventSchema with toEventValues.
Category(category, isHoliday) ==
    IF isHoliday \/ category = "holiday" THEN "holiday"
    ELSE IF category = "observance" THEN "observance" ELSE "school"

ValidEvent(e) == e.startsAt <= e.endsAt

EventValues(e) ==
    LET category == Category(e.category, e.isHoliday)
    IN  [e EXCEPT !.category = category, !.isHoliday = (category = "holiday")]

CreateManagedEvent(e) ==
    /\ lastId < MaxEvents /\ ValidEvent(e)
    /\ lastId' = lastId + 1
    /\ calendar' = [id \in DOMAIN calendar \cup {lastId'} |->
           IF id = lastId' THEN EventValues(e) ELSE calendar[id]]
    /\ UNCHANGED <<mealVars, changing>>

\* updateManagedEvent and deleteManagedEvent look for the event first.
FindManagedEvent(u, id) ==
    /\ changing[u].at = "idle" /\ id \in DOMAIN calendar
    /\ changing' = [changing EXCEPT ![u] = [at |-> "found", id |-> id, read |-> calendar[id]]]
    /\ UNCHANGED <<mealVars, calendar, lastId>>

\* The fields of one over those of another.
Over(changes, e) ==
    [f \in DOMAIN changes \cup DOMAIN e |-> IF f \in DOMAIN changes THEN changes[f] ELSE e[f]]

\* Slip: only the fields given are written.
MutantMerged(u, now) == Over(ChangesOf[u], now)

\* The fields given over those read: the whole row is checked and written, if there
\* still is one.
Merged(u, now) == Over(ChangesOf[u], changing[u].read)

UpdateManagedEvent(u) ==
    LET id == changing[u].id
    IN  /\ changing[u].at = "found" /\ changing' = [changing EXCEPT ![u].at = "over"]
        /\ IF id \in DOMAIN calendar /\ ValidEvent(Over(ChangesOf[u], changing[u].read))
           THEN calendar' = [calendar EXCEPT ![id] = EventValues(Merged(u, @))]
           ELSE UNCHANGED calendar
        /\ UNCHANGED <<mealVars, lastId>>

DeleteManagedEvent(u) ==
    /\ changing[u].at = "found" /\ changing' = [changing EXCEPT ![u].at = "over"]
    /\ calendar' = [id \in DOMAIN calendar \ {changing[u].id} |-> calendar[id]]
    /\ UNCHANGED <<mealVars, lastId>>

\* One transaction: what overlaps the range of the file goes, if it is to be replaced.
Overlapping(file) ==
    LET from == {file[i].startsAt : i \in DOMAIN file}
        to == {file[i].endsAt : i \in DOMAIN file}
    IN  {id \in DOMAIN calendar :
            /\ \E d \in to : calendar[id].startsAt <= d
            /\ \E d \in from : calendar[id].endsAt >= d}

ImportManagedEvents(file, replaceRange) ==
    LET kept == DOMAIN calendar \ (IF replaceRange THEN Overlapping(file) ELSE {})
        new == lastId + 1 .. lastId + Len(file)
    IN  /\ lastId + Len(file) <= MaxEvents
        /\ \A i \in DOMAIN file : ValidEvent(file[i])
        /\ lastId' = lastId + Len(file)
        /\ calendar' = [id \in kept \cup new |->
               IF id \in kept THEN calendar[id] ELSE EventValues(file[id - lastId])]
        /\ UNCHANGED <<mealVars, changing>>

CalendarNext ==
    \/ \E e \in Drafts : CreateManagedEvent(e)
    \/ \E u \in Updates \cup Deletions, id \in 1 .. MaxEvents : FindManagedEvent(u, id)
    \/ \E u \in Updates : UpdateManagedEvent(u)
    \/ \E u \in Deletions : DeleteManagedEvent(u)
    \/ \E file \in ImportFiles, replaceRange \in BOOLEAN : ImportManagedEvents(file, replaceRange)

\* The calls of getMeals to come are those of `calls`.
SchoolInitWith(calls) ==
    /\ hour = 0 /\ outages = 0
    /\ memory = [p \in Processes |-> {}] /\ failures = [p \in Processes |-> {}]
    /\ loading = [p \in Processes |-> {}]
    /\ shelf = [k \in Ranges |-> NoMenu]
    /\ reader = [c \in Readers |->
           IF c \in calls THEN NoMealCall ELSE [NoMealCall EXCEPT !.at = "over"]]
    /\ calendar = <<>> /\ lastId = 0
    /\ changing = [u \in Updates \cup Deletions |-> [at |-> "idle", id |-> 0, read |-> <<>>]]

SchoolInit == \E calls \in SUBSET Readers : SchoolInitWith(calls)

SchoolNext == MealNext \/ CalendarNext

SchoolSpec == SchoolInit /\ [][SchoolNext]_schoolVars

-----------------------------------------------------------------------------
\* Dates of answers, and the life of every entry, are within the hour; the maps
\* hold each key once and no more keys than they may.
Bounded(s, n) == Cardinality(s) <= n /\ \A e, f \in s : e.key = f.key => e = f
SchoolDataTypeOK ==
    /\ hour \in 0 .. MaxClock /\ outages \in 0 .. MaxOutages
    /\ \A p \in Processes :
        /\ Bounded(memory[p], MaxEntries) /\ Bounded(failures[p], MaxEntries)
        /\ Bounded(loading[p], MaxLoads)
        /\ \A e \in memory[p] : e.key \in Ranges /\ e.of <= hour /\ e.fresh <= e.gone
    /\ \A c \in Readers : reader[c].at \in {"idle", "redis", "waiting", "writing", "answered", "over"}
    /\ DOMAIN calendar \subseteq 1 .. lastId /\ lastId \in 0 .. MaxEvents

\* However the calls of the processes interleave, with failures of Redis and of the
\* outside service and with restarts: what is served as current came from the
\* service at most two lifetimes before the call began, and not one, for Redis
\* hands on what a process then takes for new; and what helps out in an outage is
\* at most a lifetime and a day old.
MealsAreRecent ==
    \A c \in Readers :
        LET r == reader[c]
        IN  r.at = "answered" =>
                /\ r.how = "fresh" => r.answer # NoMenu /\ r.began <= r.answer.of + 2 * TTL
                /\ r.how = "stale" => r.answer # NoMenu /\ r.began <= r.answer.of + TTL + StaleFor

\* No outage reaches a call whose process had an answer to the same question before
\* the call began, remembers it for a day, was not restarted since and has not
\* answered more other questions than it can remember.
OutagesAreBridged ==
    \A c, d \in Readers :
        LET p == AtProcess[c]
            asked == {Wants[e] : e \in {f \in Readers : AtProcess[f] = p /\ reader[f].how = "fresh"}}
        IN  ( /\ reader[c].at = "answered" /\ reader[d].at = "answered"
              /\ AtProcess[d] = p /\ Wants[d] = Wants[c]
              /\ reader[d].ended < reader[c].began /\ reader[c].began < reader[d].answer.until
              /\ Cardinality(asked \cup {Wants[c]}) <= MaxEntries )
                => reader[c].how # "unavailable"

\* Whatever changes of parts of an event, deletions and imports overlap: an event
\* does not end before it starts, and is called a holiday just when it is one.
EventsAreWellFormed ==
    \A id \in DOMAIN calendar :
        /\ calendar[id].startsAt <= calendar[id].endsAt
        /\ calendar[id].isHoliday = (calendar[id].category = "holiday")

\* Menus are as recent as promised and survive outages, and the calendar makes sense.
SchoolDataIsSound == SchoolDataTypeOK /\ MealsAreRecent /\ OutagesAreBridged /\ EventsAreWellFormed
=============================================================================
