--------------------------- MODULE AccessSchedule ---------------------------
(***************************************************************************)
(* schedule_allows: whether a schedule of UniFi Access admits now: its     *)
(* holidays first, then its weekly hours in local time (unifi.rs).         *)
(*                                                                         *)
(* Time is counted in ticks of UTC; every year has the same length and the *)
(* local clock a fixed offset.  A range or holiday whose times cannot be   *)
(* parsed is Malformed, a field that is absent is Absent.                  *)
(***************************************************************************)
EXTENDS Integers, Sequences, FiniteSetsExt, Functions

CONSTANTS
    Second, Day, DaysPerWeek, Year,   \* lengths, in ticks and days
    Offset,      \* of local time from UTC, in ticks
    Horizon,     \* bound on the times looked at
    Malformed, Absent,
    Ranges,      \* time ranges: Malformed, or start and end time of day
    Holidays,    \* holidays: Malformed, or start, end and repeat
    Schedules    \* the schedules that may be met, each at every time

Week == Day * DaysPerWeek

ASSUME CalendarAssumption ==
    /\ {Second, Day, DaysPerWeek, Year} \subseteq Nat \ {0}
    /\ Day % Second = 0 /\ Year % Second = 0
    /\ Offset \in Int /\ Horizon \in Nat
    /\ \A r \in Ranges \ {Malformed} :
          {r.start, r.end} \subseteq {s \in 0 .. Day - 1 : s % Second = 0}
    /\ \A h \in Holidays \ {Malformed} :
          {h.start, h.end} \subseteq Nat /\ h.repeat \in BOOLEAN
    /\ \A s \in Schedules :
          s \in [weekly: {Absent} \cup [0 .. DaysPerWeek - 1 -> Seq(Ranges)],
                holiday_schedule: {Absent} \cup Seq(Ranges),
                holidays: Seq(Holidays)]

-----------------------------------------------------------------------------
TimeOfDay(t) == (t + Offset) % Day

Weekday(t) == ((t + Offset) \div Day) % DaysPerWeek

\* The loops over ranges and holidays, each "on", "off" or "error": the first
\* one that decides, or the answer when none does.
FirstAnswer(states, on, off) ==
    LET decisive == {k \in DOMAIN states : states[k] # "off"} IN
    IF decisive = {} THEN off
    ELSE IF states[Min(decisive)] = "error" THEN "error" ELSE on

RangeState(r, clock) ==
    IF r = Malformed THEN "error"
    ELSE IF \/ r.start <= r.end /\ clock >= r.start /\ clock <= r.end
            \/ r.start > r.end /\ (clock >= r.start \/ clock <= r.end)
    THEN "on" ELSE "off"

\* time_ranges_allow.
TimeRangesAllow(ranges, clock) ==
    FirstAnswer([k \in DOMAIN ranges |-> RangeState(ranges[k], clock)], "allowed", "denied")

\* (month, day, hour, minute, second) of a date, as a number.
YearKey(t) == (t % Year) \div Second

\* Faulty variant: a holiday across New Year is not wrapped.
CoversUnwrapped(h, t) ==
    IF h.repeat
    THEN YearKey(t) >= YearKey(h.start) /\ YearKey(t) < YearKey(h.end)
    ELSE t >= h.start /\ t < h.end

Covers(h, t) ==
    LET key == YearKey(t) first == YearKey(h.start) last == YearKey(h.end) IN
    \/ ~h.repeat /\ t >= h.start /\ t < h.end
    \/ h.repeat /\ first <= last /\ key >= first /\ key < last
    \/ h.repeat /\ first > last /\ (key >= first \/ key < last)

\* holiday_active.
HolidayState(h, t) ==
    IF h = Malformed THEN "error" ELSE IF h.end <= h.start THEN "error"
    ELSE IF Covers(h, t) THEN "on" ELSE "off"

\* schedule_allows.  A day that weekly does not name has no ranges.
ScheduleAllows(s, t) ==
    LET holiday == FirstAnswer([k \in DOMAIN s.holidays |-> HolidayState(s.holidays[k], t)],
                               "on", "off")
    IN
    IF holiday = "error" THEN "error"
    ELSE IF holiday = "on"
         THEN IF s.holiday_schedule = Absent THEN "denied"
              ELSE TimeRangesAllow(s.holiday_schedule, TimeOfDay(t))
    ELSE IF s.weekly = Absent THEN "allowed"
    ELSE TimeRangesAllow(s.weekly[Weekday(t)], TimeOfDay(t))

-----------------------------------------------------------------------------
(* Properties.                                                             *)

WholeSecond(t) == t - (t % Second)

\* What the entries mean as intervals of time.  A holiday that repeats does so
\* in the years before its first, too.
MeantHoliday(h, t) ==
    IF h.repeat
    THEN \E year \in -(h.start \div Year) - 1 .. Horizon \div Year :
            /\ WholeSecond(t) >= WholeSecond(h.start) + year * Year
            /\ WholeSecond(t) < WholeSecond(h.end) + year * Year
    ELSE t >= h.start /\ t < h.end

MeantDay(r, day, t) ==
    \E week \in Offset \div Week .. (Horizon + Offset) \div Week :
        LET midnight == week * Week + day * Day - Offset IN
        t >= midnight + r.start /\ t <= midnight + r.end

WellFormed(s) ==
    /\ \A k \in DOMAIN s.holidays :
          s.holidays[k] # Malformed /\ s.holidays[k].start < s.holidays[k].end
    /\ s.holiday_schedule # Absent => Malformed \notin Range(s.holiday_schedule)
    /\ s.weekly # Absent => \A d \in DOMAIN s.weekly : Malformed \notin Range(s.weekly[d])

OnHoliday(s, t) == \E k \in DOMAIN s.holidays : MeantHoliday(s.holidays[k], t)

\* A holiday is in force in exactly the intervals it names, every year for a
\* repeating one, over New Year too; and while one is, the weekly hours
\* admit nobody ("holidays", docs/gateway-services.md).  A holiday must be
\* shorter than a year, counted in the seconds it begins and ends in.
HolidaysTakePrecedence(s, t) ==
    /\ WellFormed(s)
    /\ \A k \in DOMAIN s.holidays :
          WholeSecond(s.holidays[k].end) - WholeSecond(s.holidays[k].start) < Year
    => IF OnHoliday(s, t)
       THEN ScheduleAllows(s, t) = "allowed" <=>
               /\ s.holiday_schedule # Absent
               /\ TimeRangesAllow(s.holiday_schedule, TimeOfDay(t)) = "allowed"
       ELSE ScheduleAllows(s, t) = ScheduleAllows([s EXCEPT !.holidays = <<>>], t)

WithinDays(s) ==
    /\ s.weekly # Absent
    /\ \A d \in DOMAIN s.weekly : \A r \in Range(s.weekly[d]) : r.start <= r.end

\* Outside holidays, ranges that do not cross midnight admit exactly the
\* times they name of the days they are listed under, on the local calendar.
WeeklyHoursAreLocal(s, t) ==
    WellFormed(s) /\ WithinDays(s) /\ ~OnHoliday(s, t) =>
        (ScheduleAllows(s, t) = "allowed" <=>
            \E d \in DOMAIN s.weekly : \E r \in Range(s.weekly[d]) : MeantDay(r, d, t))

\* An entry that cannot be read never lets anybody in: what is admitted
\* would be admitted whatever the entry was meant to say
\* (malformed_holiday_times_fail_closed, malformed_weekly_time_fails_closed).
Repairs(entries, good) ==
    LET bad == {k \in DOMAIN entries : entries[k] = Malformed} IN
    {[k \in DOMAIN entries |-> IF k \in bad THEN f[k] ELSE entries[k]] :
        f \in [bad -> good]}

MalformedFailsClosed(s, t) ==
    ScheduleAllows(s, t) = "allowed" =>
        /\ \A hs \in Repairs(s.holidays, Holidays \ {Malformed}) :
              (\A k \in DOMAIN hs : hs[k].start < hs[k].end) =>
                 ScheduleAllows([s EXCEPT !.holidays = hs], t) = "allowed"
        /\ s.weekly # Absent =>
              \A rs \in Repairs(s.weekly[Weekday(t)], Ranges \ {Malformed}) :
                 ScheduleAllows([s EXCEPT !.weekly[Weekday(t)] = rs], t) = "allowed"

\* A schedule admits at the times its entries name, by holiday and by local
\* calendar, and what cannot be read admits nobody.
KeptAt(s, t) ==
    HolidaysTakePrecedence(s, t) /\ WeeklyHoursAreLocal(s, t) /\ MalformedFailsClosed(s, t)

EverySchedule == \A s \in Schedules, t \in 0 .. Horizon : KeptAt(s, t)
=============================================================================
