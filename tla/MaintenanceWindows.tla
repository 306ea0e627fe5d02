------------------------- MODULE MaintenanceWindows -------------------------
(***************************************************************************)
(* The weekly maintenance windows of the playbook policy and the questions *)
(* asked of them by the two components that use them: may this run now,    *)
(* does this slot fit, when is the next opening, which slots to recommend. *)
(*                                                                         *)
(* Time is a number of ticks since some Monday midnight in the time zone   *)
(* of the policy; the conversion to UTC, and local times that a change of  *)
(* daylight saving skips, are left out.                                    *)
(***************************************************************************)
EXTENDS Integers, FiniteSets, FiniteSetsExt

CONSTANTS DayLength, WeekLength   \* ticks per day, days per week

NoTime == -1
\* a time of day, or one that is no HH:MM time at all
TimesOfDay == 0..DayLength - 1
Windows == [day : 0..WeekLength + 1, start : TimesOfDay, end : TimesOfDay]

DayOf(t) == t \div DayLength
Weekday(t) == (DayOf(t) % WeekLength) + 1
TimeOfDay(t) == t % DayLength

\* What the API accepts as a policy's windows; anything else is refused.
Acceptable(ws) ==
    /\ ws # {}
    /\ \A w \in ws : w.day \in 1..WeekLength /\ w.start < w.end

\* What the calendar keeps of the stored windows: it drops days out of range
\* and leaves the order of the two times unchecked.
Kept(ws) == {w \in ws : w.day \in 1..WeekLength}

\* The policy that is inserted when none is stored: each day, from its first
\* tick up to its last one.
DefaultWindows == {[day |-> d, start |-> 0, end |-> DayLength - 1] : d \in 1..WeekLength}

IsInWindow(ws, t) ==
    \E w \in ws : /\ w.day = Weekday(t)
                  /\ w.start <= TimeOfDay(t) /\ TimeOfDay(t) < w.end

\* Beginnings of windows after t on `days` days, today included.
Openings(ws, t, days) ==
    {x \in {d * DayLength + w.start : d \in DayOf(t)..DayOf(t) + days - 1, w \in ws} :
        x > t /\ \E w \in ws : w.day = Weekday(x) /\ w.start = TimeOfDay(x)}

Earliest(times) == IF times = {} THEN NoTime ELSE Min(times)

\* The hint given with a refused execution: two weeks are searched.
NextAllowed(ws, t) == Earliest(Openings(ws, t, 2 * WeekLength))

\* The calendar's own search, from the end of the slot it was asked about.
NextMaintenanceSlot(ws, t) == Earliest(Openings(Kept(ws), t, 2 * WeekLength))

\* Seeded fault: only the beginning of the slot is compared.
SlotStartsInWindow(ws, s, e) ==
    \E w \in ws : w.day = Weekday(s) /\ w.start <= TimeOfDay(s) /\ TimeOfDay(s) <= w.end

\* The calendar compares times of day with the window of the day on which the
\* slot begins, whatever the day on which it ends.
SlotIsInWindow(ws, s, e) ==
    \E w \in ws : /\ w.day = Weekday(s)
                  /\ w.start <= TimeOfDay(s) /\ TimeOfDay(e) <= w.end

\* Candidates to recommend: every hour from the beginning of a window, for as
\* long as the slot still ends in it; three weeks are searched.
CandidateStarts(ws, from, duration) ==
    {d * DayLength + x : d \in DayOf(from)..DayOf(from) + 3 * WeekLength - 1,
                         x \in TimesOfDay}
    \cap {t \in from + 1..from + 3 * WeekLength * DayLength :
            \E w \in ws : /\ w.day = Weekday(t)
                          /\ w.start <= TimeOfDay(t) /\ TimeOfDay(t) + duration <= w.end}

\* The bounds of a window on a date, for the calendar's list of events.
WindowBounds(ws, date) ==
    {<<date * DayLength + w.start, date * DayLength + w.end>> :
        w \in {v \in ws : v.day = Weekday(date * DayLength) /\ v.start < v.end}}
-----------------------------------------------------------------------------
(* What the answers have to do with each other, for windows ws, a moment t   *)
(* and a duration.                                                           *)

OpenThroughout(ws, s, e) == \A t \in s..e - 1 : IsInWindow(ws, t)

\* A refused execution is told a moment at which it would not be refused, and
\* no earlier beginning of a window is skipped.
HintIsUsable(ws, t) ==
    LET next == NextAllowed(ws, t)
    IN /\ next > t /\ IsInWindow(ws, next)
       /\ next = NextMaintenanceSlot(ws, t)
       /\ \A x \in t + 1..next - 1 : IsInWindow(ws, x) => IsInWindow(ws, x - 1)

\* A recommended slot is one that the check of a reservation accepts, and the
\* window is open all through it.
RecommendedSlotsFit(ws, t, duration) ==
    \A s \in CandidateStarts(ws, t, duration) :
        SlotIsInWindow(ws, s, s + duration) /\ OpenThroughout(ws, s, s + duration)

\* A slot within one day that the check accepts is open throughout.
SameDaySlotsAreOpen(ws, t, duration) ==
    DayOf(t) = DayOf(t + duration) /\ SlotIsInWindow(ws, t, t + duration) =>
        OpenThroughout(ws, t, t + duration)
=============================================================================
