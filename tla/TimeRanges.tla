------------------------------ MODULE TimeRanges ------------------------------
(***************************************************************************)
(* The UTC bounds of the current period of a leaderboard range             *)
(* (app/services/time_ranges.py), over a calendar and time zones small     *)
(* enough to enumerate.                                                    *)
(*                                                                         *)
(* Instants are integers, in ticks.  A local datetime is the reading of a  *)
(* wall clock, in ticks since the midnight of a Monday that is also the    *)
(* first of a year, with Python's `fold': 1 for the second pass of an hour *)
(* that the clock goes through twice.  A zone changes its offset once.     *)
(***************************************************************************)
EXTENDS Integers, Sequences

CONSTANTS
  Hour, Day, Week,  \* their lengths
  Year,             \* likewise, the same for all years
  MonthBegins       \* MonthBegins[m]: ticks of the year before month m

(* Month m is the last that has begun, so many ticks into the year. *)
BeginsLast(m, tick) ==
  /\ MonthBegins[m] <= tick
  /\ \A n \in DOMAIN MonthBegins : MonthBegins[n] <= tick => n <= m

Multiple(n, of) == n \in Nat /\ n > 0 /\ n % of = 0
ASSUME CalendarAssumption ==
  /\ Hour \in Nat \ {0} /\ Multiple(Day, Hour) /\ Multiple(Week, Day) /\ Multiple(Year, Day)
  /\ MonthBegins \in Seq(0 .. Year - 1) /\ Len(MonthBegins) > 0 /\ MonthBegins[1] = 0
  /\ \A m, n \in DOMAIN MonthBegins : m < n => MonthBegins[m] < MonthBegins[n]
  /\ \A tick \in 0 .. Year - 1 : \E m \in DOMAIN MonthBegins : BeginsLast(m, tick)

Periods == {"hourly", "daily", "weekly", "monthly", "yearly"}
VALID_RANGES == Periods \cup {"all-time"}

Zone == [at : Int, before : Int, after : Int]

(* The wall clocks of the hour that is repeated, or skipped. *)
Repeated(zone) == zone.at + zone.after .. zone.at + zone.before - 1
Skipped(zone) == zone.at + zone.before .. zone.at + zone.after - 1

(* zoneinfo: datetime.astimezone(tz) ... *)
ToLocal(zone, utc) ==
  [wall |-> utc + (IF utc < zone.at THEN zone.before ELSE zone.after),
   fold |-> IF utc >= zone.at /\ utc + zone.after < zone.at + zone.before THEN 1 ELSE 0]

(* ... and astimezone(UTC).  A wall clock that was repeated is read by its   *)
(* fold; one that was skipped with the offset before, but for fold 1.        *)
ToUtc(zone, local) ==
  LET later == IF zone.before >= zone.after THEN zone.before ELSE zone.after
      sooner == IF zone.before >= zone.after THEN zone.after ELSE zone.before
      switch == zone.at + (IF local.fold = 0 THEN later ELSE sooner)
  IN local.wall - (IF local.wall < switch THEN zone.before ELSE zone.after)

(* datetime + timedelta, which clears fold, as replace() does not. *)
Plus(local, ticks) == [wall |-> local.wall + ticks, fold |-> 0]

Floor(wall, unit) == wall - (wall % unit)

YearMonth(wall) ==
  [year  |-> wall \div Year,
   month |-> CHOOSE m \in DOMAIN MonthBegins : BeginsLast(m, wall % Year)]
FirstOf(ym) == ym.year * Year + MonthBegins[ym.month]

(* Fault: December is followed by a January of the same year. *)
add_months_SameYear(ym, months) ==
  [year  |-> ym.year,
   month |-> ((ym.month + months - 1) % Len(MonthBegins)) + 1]

add_months(ym, months) ==
  LET new_month == ym.month + months IN
  [year  |-> ym.year + ((new_month - 1) \div Len(MonthBegins)),
   month |-> ((new_month - 1) % Len(MonthBegins)) + 1]

weekday(local) == (local.wall % Week) \div Day

start_local(range, local) ==
  CASE range = "hourly"  -> [local EXCEPT !.wall = Floor(@, Hour)]
    [] range = "daily"   -> [local EXCEPT !.wall = Floor(@, Day)]
    [] range = "weekly"  -> [Plus(local, -(Day * weekday(local))) EXCEPT !.wall = Floor(@, Day)]
    [] range = "monthly" -> [local EXCEPT !.wall = FirstOf(YearMonth(@))]
    [] range = "yearly"  -> [local EXCEPT !.wall = Floor(@, Year)]

end_local(range, start) ==
  CASE range = "hourly"  -> Plus(start, Hour)
    [] range = "daily"   -> Plus(start, Day)
    [] range = "weekly"  -> Plus(start, Week)
    [] range = "monthly" -> [start EXCEPT !.wall = FirstOf(add_months(YearMonth(@), 1))]
    [] range = "yearly"  -> [start EXCEPT !.wall = @ + Year]

(* The bounds of a period; both computations of a request read the clock.    *)
range_to_bounds(range, zone, now_utc) ==
  LET start == start_local(range, ToLocal(zone, now_utc)) IN
  [start |-> ToUtc(zone, start), end |-> ToUtc(zone, end_local(range, start))]

InBounds(bounds, utc) == bounds.start <= utc /\ utc < bounds.end

-------------------------------------------------------------------------------
(* What is expected of the bounds. *)

(* Where the wall clock stands when the period of an instant begins. *)
PeriodStart(range, zone, utc) == start_local(range, ToLocal(zone, utc)).wall

(* No period begins inside the time that is skipped or repeated, as it is    *)
(* with all changes tzdata has from 2024 on but those of Antarctica/Troll    *)
(* (two hours) and Pacific/Chatham (at a quarter to the hour).               *)
Regular(zone) ==
  \A wall \in Repeated(zone) \cup Skipped(zone), range \in Periods :
    start_local(range, [wall |-> wall, fold |-> 0]).wall = wall
      => wall - 1 \notin Repeated(zone) \cup Skipped(zone)

(* The periods of a range follow each other: any two instants in one have    *)
(* the same bounds, except where a period begins with the repeated hour.     *)
PeriodsTile(range, zone, instant, utc) ==
  LET bounds == range_to_bounds(range, zone, instant) IN
  (InBounds(bounds, utc) /\ PeriodStart(range, zone, instant) \notin Repeated(zone))
    => range_to_bounds(range, zone, utc) = bounds
===============================================================================
