----------------------------- MODULE Recurrence -----------------------------
(***************************************************************************)
(* The cadence of a recurring job (recurrence.py): next_cadence_at and its *)
(* helpers, as operators.  Instants are UTC ticks and local times are wall *)
(* clock ticks; date 0 is the first day of the first month.                *)
(*                                                                         *)
(* A zone has one transition: the offset is z.before until the instant     *)
(* z.at and z.after from then on.  The calendar is one with small months;  *)
(* its lengths repeat.                                                     *)
(***************************************************************************)
EXTENDS Integers, Sequences, FiniteSetsExt

CONSTANTS
    DayLength,      \* ticks of a day
    DaysPerWeek,    \* 7 in the code
    MonthLengths,   \* the lengths of the months, in turn, in days
    Lookahead,      \* bound: indices tried after the first; two are enough
    None            \* Python's None

ASSUME RecurrenceAssumption ==
    /\ DayLength \in Nat \ {0} /\ DaysPerWeek \in Nat \ {0}
    /\ Lookahead \in Nat \ {0, 1}
    /\ MonthLengths # <<>> /\ MonthLengths \in Seq(Nat \ {0})
    /\ None \notin Int
-----------------------------------------------------------------------------
(* The calendar.                                                           *)

Date(wall) == wall \div DayLength
Time(wall) == wall % DayLength

MonthLength(m) == MonthLengths[(m % Len(MonthLengths)) + 1]

\* The date of the first day of month m.
MonthStart[m \in Nat] == IF m = 0 THEN 0 ELSE MonthStart[m - 1] + MonthLength(m - 1)

Month(date) == CHOOSE m \in 0..date :
                  MonthStart[m] <= date /\ date < MonthStart[m + 1]
Day(date) == date - MonthStart[Month(date)]
-----------------------------------------------------------------------------
(* Zones.                                                                  *)

\* A transition moves the wall clock by a day at most, either way.  The wall clock
\* counts from a month so early that no offset is negative.
Zones == {z \in [before: Nat, after: Nat, at: Int] :
             z.after - z.before \in -DayLength..DayLength}

\* astimezone(zone) of an instant.
Local(z, u) == u + (IF u < z.at THEN z.before ELSE z.after)

\* astimezone(utc) of a wall clock time.  One that occurs twice has the first
\* instant for fold 0 and the second for fold 1; one that a gap leaves out has
\* the offset before the transition for fold 0 and the one after it for fold 1.
UtcOf(z, wall, fold) ==
    LET instants == {u \in {wall - z.before, wall - z.after} : Local(z, u) = wall}
    IN  IF instants = {} THEN wall - (IF fold = 0 THEN z.before ELSE z.after)
        ELSE IF fold = 0 THEN Min(instants) ELSE Max(instants)

\* Mutant of ResolveLocal: of the two readings of a gap, the earlier one.
ResolveLocalBackward(z, wall) ==
    LET first == UtcOf(z, wall, 0)
        second == UtcOf(z, wall, 1)
    IN  IF Local(z, first) = wall THEN first
        ELSE Min({first, second})

\* _resolve_local, as an instant.
ResolveLocal(z, wall) ==
    LET first == UtcOf(z, wall, 0)
        second == UtcOf(z, wall, 1)
    IN  IF Local(z, first) = wall THEN first
        ELSE IF Local(z, second) = wall THEN second
        ELSE Min({u \in {first, second} : Local(z, u) > wall})
-----------------------------------------------------------------------------
(* Cadences.  anchor is the local time of the first run.                   *)

Cadences == {"daily", "weekly", "monthly"}

\* What the constructor of Recurrence accepts.
Recurrences == [cadence: Cadences, zone: Zones, ends: Nat \cup {None}]

\* Mutant of InitialIndex: the first index is that of the following slot.
InitialIndexNext(cadence, anchor, after) ==
    LET days == Date(after) - Date(anchor)
        months == Month(Date(after)) - Month(Date(anchor))
    IN  Max({1, CASE cadence = "daily"   -> days + 1
                  [] cadence = "weekly"  -> (days \div DaysPerWeek) + 1
                  [] cadence = "monthly" -> months + 1})

\* _initial_index
InitialIndex(cadence, anchor, after) ==
    LET days == Date(after) - Date(anchor)
        months == Month(Date(after)) - Month(Date(anchor))
    IN  Max({1, CASE cadence = "daily"   -> days
                  [] cadence = "weekly"  -> days \div DaysPerWeek
                  [] cadence = "monthly" -> months})

\* _candidate_local: a month without the anchor's day has the slot on its last.
CandidateLocal(cadence, anchor, index) ==
    LET month == Month(Date(anchor)) + index
        day == Min({Day(Date(anchor)), MonthLength(month) - 1})
    IN  CASE cadence = "daily"   -> anchor + index * DayLength
          [] cadence = "weekly"  -> anchor + index * DaysPerWeek * DayLength
          [] cadence = "monthly" -> (MonthStart[month] + day) * DayLength + Time(anchor)

\* next_cadence_at; the loop is the least index whose instant is late enough.
NextCadenceAt(recurrence, starts, after) ==
    LET z == recurrence.zone
        anchor == Local(z, starts)
        initial == InitialIndex(recurrence.cadence, anchor, Local(z, after))
        candidate(i) == ResolveLocal(z, CandidateLocal(recurrence.cadence, anchor, i))
        index == Min({i \in initial..initial + Lookahead : candidate(i) > after})
        ended == recurrence.ends # None /\ candidate(index) >= recurrence.ends
    IN  IF ended THEN None ELSE candidate(index)
-----------------------------------------------------------------------------
(* Reference: the slots of a cadence, by what the wall clock shows.        *)

\* wall is a slot of the cadence after the anchor.
IsSlot(cadence, anchor, wall) ==
    LET date == Date(wall)
        first == Date(anchor)
    IN  /\ date > first
        /\ Time(wall) = Time(anchor)
        /\ CASE cadence = "daily"   -> TRUE
             [] cadence = "weekly"  -> (date - first) % DaysPerWeek = 0
             [] cadence = "monthly" ->
                    /\ Month(date) > Month(first)
                    /\ \/ Day(date) = Day(first)
                       \/ /\ Day(date) < Day(first)
                          /\ Day(date) = MonthLength(Month(date)) - 1

\* u is the instant of the slot: the earliest with that wall clock time, or the
\* time moved forward by the gap that leaves it out.
IsInstantOf(z, u, wall) ==
    IF \E v \in {wall - z.before, wall - z.after} : Local(z, v) = wall
    THEN Local(z, u) = wall /\ \A v \in {wall - z.before, wall - z.after} :
                                  Local(z, v) = wall => u <= v
    ELSE Local(z, u) = wall + (z.after - z.before) /\ u >= z.at
=============================================================================
