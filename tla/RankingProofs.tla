----------------------------- MODULE RankingProofs -----------------------------
(***************************************************************************)
(* Proofs about the operators that Boards is built from, for every         *)
(* calendar, every regular zone and every set of rows.                     *)
(*                                                                         *)
(* TimeRanges: a period has the present in it, a request's bounds are      *)
(* those of its period, and periods tile.  Two halves: what start_local    *)
(* and end_local do to the wall clock (Period), and what a change of       *)
(* offset does to their order (Before, After).                             *)
(*                                                                         *)
(* Ranking: an order that decides between any two elements of a finite set *)
(* gives each a place, one more than the number of those ahead of it.      *)
(* Places are different and are all of 1 .. n, so that ORDER BY has a      *)
(* sequence to return, and in it the element at position k has place k.    *)
(* The order of a board is such an order: submitted_at breaks the ties of  *)
(* the sort column and the id those of submitted_at.                       *)
(*                                                                         *)
(* An order is a set of pairs here, since no operator can be passed to a   *)
(* lemma.                                                                  *)
(***************************************************************************)
EXTENDS Ranking, FiniteSetTheorems, SequenceTheorems, TLAPS

(* A wall clock's period: from s to before e, with all clocks in between.    *)
IsPeriod(range, s, e, w) ==
  /\ s \in Int /\ e \in Int
  /\ s <= w /\ w < e
  /\ \A f \in {0, 1} :
       /\ start_local(range, [wall |-> s, fold |-> f]).wall = s
       /\ start_local(range, [wall |-> e, fold |-> f]).wall = e
       /\ \A v \in Int : (s <= v /\ v < e) =>
            start_local(range, [wall |-> v, fold |-> f]).wall = s

LEMMA DivMod ==
  ASSUME NEW w \in Int, NEW u \in Nat, u > 0
  PROVE  /\ w % u \in 0 .. u - 1
         /\ w \div u \in Int
         /\ w = u * (w \div u) + (w % u)
OBVIOUS

LEMMA DivModIs ==
  ASSUME NEW q \in Int, NEW u \in Nat, u > 0, NEW r \in 0 .. u - 1
  PROVE  (u * q + r) % u = r /\ (u * q + r) \div u = q
OBVIOUS

(* replace(minute=0, ...) and the like, over units of any length. *)
LEMMA Floors ==
  ASSUME NEW w \in Int, NEW u \in Nat, u > 0
  PROVE  LET s == Floor(w, u) IN
         /\ s \in Int /\ s <= w /\ w < s + u
         /\ Floor(s, u) = s /\ Floor(s + u, u) = s + u
         /\ \A v \in Int : (s <= v /\ v < s + u) => Floor(v, u) = s
<1> DEFINE q == w \div u
           s == u * q
<1>1. q \in Int /\ Floor(w, u) = s /\ s <= w /\ w < s + u
  BY DivMod DEF Floor
<1>2. \A p \in Int, r \in 0 .. u - 1 : Floor(u * p + r, u) = u * p
  BY DivModIs DEF Floor
<1>3. Floor(s, u) = s
  <2>1. 0 \in 0 .. u - 1 /\ u * q + 0 = s
    BY <1>1
  <2>2. QED BY <2>1, <1>1, <1>2
<1>4. Floor(s + u, u) = s + u
  <2>1. 0 \in 0 .. u - 1 /\ q + 1 \in Int /\ u * (q + 1) = s + u /\ u * (q + 1) + 0 = s + u
    BY <1>1
  <2>2. Floor(u * (q + 1) + 0, u) = u * (q + 1)
    BY <1>2, <2>1
  <2>3. QED BY <2>1, <2>2
<1>5. ASSUME NEW v \in Int, s <= v, v < s + u PROVE Floor(v, u) = s
  <2>1. v - s \in 0 .. u - 1 /\ v = u * q + (v - s)
    BY <1>1, <1>5
  <2>2. QED BY <1>1, <1>2, <2>1
<1>6. QED BY <1>1, <1>3, <1>4, <1>5

LEMMA Lengths ==
  /\ Hour \in Nat /\ Hour > 0 /\ Day \in Nat /\ Day > 0
  /\ Week \in Nat /\ Week > 0 /\ Year \in Nat /\ Year > 0
BY CalendarAssumption DEF Multiple

(* The Monday of ISO weeks: as many days back as the weekday says. *)
LEMMA Mondays ==
  ASSUME NEW w \in Int, NEW f
  PROVE  start_local("weekly", [wall |-> w, fold |-> f]) = [wall |-> Floor(w, Week), fold |-> 0]
<1> DEFINE q == w \div Week
           x == w % Week
           d == x \div Day
           k == Week \div Day
<1>1. q \in Int /\ x \in 0 .. Week - 1 /\ w = Week * q + x
  BY Lengths, DivMod
<1>2. d \in Int /\ x % Day \in 0 .. Day - 1 /\ x = Day * d + (x % Day)
  BY Lengths, DivMod, <1>1
<1>3. k \in Int /\ Week = Day * k
  BY Lengths, DivMod, CalendarAssumption DEF Multiple
<1>4. w + -(Day * d) = Day * (k * q) + (x % Day)
  <2>1. Week * q = Day * (k * q)
    BY <1>1, <1>3, Lengths
  <2>2. QED BY <1>1, <1>2, <2>1, Lengths
<1>5. Floor(w + -(Day * d), Day) = Week * q
  <2>1. PICK n \in Int : n = k * q
    BY <1>1, <1>3
  <2>2. Week * q = Day * n /\ w + -(Day * d) = Day * n + (x % Day)
    BY <1>1, <1>3, <1>4, <2>1, Lengths
  <2>3. (Day * n + (x % Day)) % Day = x % Day
    BY <1>2, Lengths, DivModIs
  <2>4. QED BY <1>2, <2>2, <2>3, Lengths DEF Floor
<1>6. Floor(w, Week) = Week * q
  BY <1>1, Lengths DEF Floor
<1>7. QED BY <1>5, <1>6 DEF start_local, Plus, weekday

LEMMA MonthFacts ==
  /\ Len(MonthBegins) \in Nat /\ Len(MonthBegins) > 0
  /\ DOMAIN MonthBegins = 1 .. Len(MonthBegins) /\ MonthBegins[1] = 0
  /\ \A m \in DOMAIN MonthBegins : MonthBegins[m] \in 0 .. Year - 1
  /\ \A m, n \in DOMAIN MonthBegins : m < n => MonthBegins[m] < MonthBegins[n]
<1> DEFINE Ticks == 0 .. Year - 1
<1>1. MonthBegins \in Seq(Ticks) /\ Len(MonthBegins) > 0 /\ MonthBegins[1] = 0
  BY CalendarAssumption
<1> HIDE DEF Ticks
<1>2. Len(MonthBegins) \in Nat /\ DOMAIN MonthBegins = 1 .. Len(MonthBegins)
  BY <1>1
<1>3. \A m \in DOMAIN MonthBegins : MonthBegins[m] \in Ticks
  BY <1>1, <1>2
<1>4. QED BY <1>1, <1>2, <1>3, CalendarAssumption DEF Ticks

LEMMA MonthIs ==
  ASSUME NEW q \in Int, NEW r \in 0 .. Year - 1, NEW m \in DOMAIN MonthBegins, BeginsLast(m, r)
  PROVE  YearMonth(Year * q + r) = [year |-> q, month |-> m]
<1>1. (Year * q + r) % Year = r /\ (Year * q + r) \div Year = q
  BY Lengths, DivModIs
<1>2. \A n \in DOMAIN MonthBegins : BeginsLast(n, r) => n = m
  BY MonthFacts DEF BeginsLast
<1>3. (CHOOSE n \in DOMAIN MonthBegins : BeginsLast(n, r)) = m
  BY <1>2
<1>4. QED BY <1>1, <1>3 DEF YearMonth

(* A month begins last at its own first tick, and until the next month's.    *)
LEMMA LastBegun ==
  ASSUME NEW m \in DOMAIN MonthBegins, NEW r \in 0 .. Year - 1, MonthBegins[m] <= r,
         m < Len(MonthBegins) => r < MonthBegins[m + 1]
  PROVE  BeginsLast(m, r)
<1> SUFFICES ASSUME NEW n \in DOMAIN MonthBegins, MonthBegins[n] <= r, n > m PROVE FALSE
  BY MonthFacts DEF BeginsLast
<1>1. m + 1 \in DOMAIN MonthBegins /\ r < MonthBegins[m + 1]
  BY MonthFacts
<1>2. MonthBegins[m + 1] <= MonthBegins[n]
  BY <1>1, MonthFacts
<1>3. QED BY <1>1, <1>2, MonthFacts

LEMMA Months ==
  ASSUME NEW w \in Int, NEW f \in {0, 1}
  PROVE  LET start == start_local("monthly", [wall |-> w, fold |-> f]) IN
         /\ IsPeriod("monthly", start.wall, end_local("monthly", start).wall, w)
         /\ start = [wall |-> start.wall, fold |-> f]
         /\ end_local("monthly", start)
              = [wall |-> end_local("monthly", start).wall, fold |-> f]
<1> DEFINE q == w \div Year
           r == w % Year
           First(v) == FirstOf(YearMonth(v))
           Next(v) == FirstOf(add_months(YearMonth(v), 1))
<1>1. q \in Int /\ r \in 0 .. Year - 1 /\ w = Year * q + r
  BY Lengths, DivMod
<1>2. PICK m \in DOMAIN MonthBegins : BeginsLast(m, r)
  BY <1>1, CalendarAssumption
<1> DEFINE s == Year * q + MonthBegins[m]
           e == IF m < Len(MonthBegins) THEN Year * q + MonthBegins[m + 1] ELSE Year * (q + 1)
<1>3. /\ MonthBegins[m] \in 0 .. Year - 1 /\ MonthBegins[m] <= r
      /\ m < Len(MonthBegins) => /\ m + 1 \in DOMAIN MonthBegins
                                 /\ MonthBegins[m + 1] \in 0 .. Year - 1
                                 /\ r < MonthBegins[m + 1]
                                 /\ MonthBegins[m] < MonthBegins[m + 1]
  BY <1>1, <1>2, MonthFacts DEF BeginsLast
<1>4. s \in Int /\ e \in Int /\ s <= w /\ w < e
  BY <1>1, <1>3, Lengths
<1>5. \A v \in Int : (s <= v /\ v < e) => YearMonth(v) = [year |-> q, month |-> m]
  <2> SUFFICES ASSUME NEW v \in Int, s <= v, v < e PROVE YearMonth(v) = [year |-> q, month |-> m]
    OBVIOUS
  <2>1. PICK x \in Int : v = Year * q + x
    <3>1. v = Year * q + (v - Year * q) /\ v - Year * q \in Int
      BY <1>1, Lengths
    <3>2. QED BY <3>1
  <2>2. x \in 0 .. Year - 1 /\ MonthBegins[m] <= x /\ (m < Len(MonthBegins) => x < MonthBegins[m + 1])
    BY <1>1, <1>3, <2>1, Lengths
  <2>3. QED BY <1>1, <2>1, <2>2, LastBegun, MonthIs
<1>6. \A v \in Int : (s <= v /\ v < e) => First(v) = s
  <2>1. q * Year = Year * q
    BY <1>1, Lengths
  <2>2. QED BY <1>5, <2>1 DEF FirstOf
<1>7. add_months([year |-> q, month |-> m], 1)
        = IF m < Len(MonthBegins) THEN [year |-> q, month |-> m + 1]
                                  ELSE [year |-> q + 1, month |-> 1]
  <2> DEFINE n == Len(MonthBegins)
  <2>1. n \in Nat /\ n > 0 /\ m \in 1 .. n
    BY MonthFacts
  <2>2. CASE m < n
    <3>1. m \div n = 0 /\ m % n = m
      BY <2>1, <2>2
    <3>2. QED BY <1>1, <2>1, <2>2, <3>1 DEF add_months
  <2>3. CASE m = n
    <3>1. m \div n = 1 /\ m % n = 0
      BY <2>1, <2>3
    <3>2. QED BY <1>1, <2>1, <2>3, <3>1 DEF add_months
  <2>4. QED BY <2>1, <2>2, <2>3
<1>8. Next(s) = e
  <2>1. YearMonth(s) = [year |-> q, month |-> m]
    BY <1>4, <1>5
  <2>2. q * Year = Year * q /\ (q + 1) * Year + 0 = Year * (q + 1)
    BY <1>1, Lengths
  <2>3. QED BY <1>3, <1>7, <2>1, <2>2, MonthFacts DEF FirstOf
<1>9. First(e) = e
  <2>1. CASE m < Len(MonthBegins)
    <3>1. BeginsLast(m + 1, MonthBegins[m + 1])
      <4>1. m + 1 < Len(MonthBegins) =>
              m + 2 \in DOMAIN MonthBegins /\ MonthBegins[m + 1] < MonthBegins[m + 2]
        BY <1>3, <2>1, MonthFacts
      <4>2. (m + 1) + 1 = m + 2
        BY MonthFacts
      <4>3. QED BY <1>3, <2>1, <4>1, <4>2, LastBegun
    <3>2. YearMonth(e) = [year |-> q, month |-> m + 1]
      BY <1>1, <1>3, <2>1, <3>1, MonthIs
    <3>3. QED BY <1>1, <1>3, <2>1, <3>2, Lengths DEF FirstOf
  <2>2. CASE ~(m < Len(MonthBegins))
    <3>1. 0 \in 0 .. Year - 1 /\ 1 \in DOMAIN MonthBegins /\ BeginsLast(1, 0)
      BY MonthFacts, Lengths DEF BeginsLast
    <3>2. PICK p \in Int : p = q + 1
      BY <1>1
    <3>3. YearMonth(Year * p + 0) = [year |-> p, month |-> 1] /\ e = Year * p /\ Year * p + 0 = e
      BY <1>1, <2>2, <3>1, <3>2, MonthIs, Lengths
    <3>4. QED BY <3>2, <3>3, MonthFacts, Lengths DEF FirstOf
  <2>3. QED BY <2>1, <2>2
<1>10. First(w) = s /\ First(s) = s
  BY <1>4, <1>6
<1> HIDE DEF s, e
<1>11. start_local("monthly", [wall |-> w, fold |-> f]) = [wall |-> s, fold |-> f]
  BY <1>10 DEF start_local
<1>12. end_local("monthly", [wall |-> s, fold |-> f]) = [wall |-> e, fold |-> f]
  BY <1>8 DEF end_local
<1>13. IsPeriod("monthly", s, e, w)
  BY <1>4, <1>6, <1>9, <1>10 DEF IsPeriod, start_local
<1>14. QED BY <1>11, <1>12, <1>13

(* The wall clock at both ends, for every range; an end's fold is that of    *)
(* the present or 0, whichever the present is.                               *)
StartFold(range, f) == IF range = "weekly" THEN 0 ELSE f
EndFold(range, f) == IF range \in {"monthly", "yearly"} THEN f ELSE 0

LEMMA FloorPeriod ==
  ASSUME NEW range, NEW w \in Int, NEW u \in Nat, u > 0,
         \A v \in Int, f \in {0, 1} :
           start_local(range, [wall |-> v, fold |-> f]).wall = Floor(v, u)
  PROVE  /\ Floor(w, u) \in Int /\ Floor(w, u) + u \in Int
         /\ IsPeriod(range, Floor(w, u), Floor(w, u) + u, w)
<1> DEFINE s == Floor(w, u)
<1>1. /\ s \in Int /\ s + u \in Int /\ s <= w /\ w < s + u
      /\ Floor(s, u) = s /\ Floor(s + u, u) = s + u
      /\ \A v \in Int : (s <= v /\ v < s + u) => Floor(v, u) = s
  BY Floors
<1> HIDE DEF s
<1>2. IsPeriod(range, s, s + u, w)
  BY <1>1 DEF IsPeriod
<1>3. QED BY <1>1, <1>2 DEF s

LEMMA Period ==
  ASSUME NEW range \in Periods, NEW w \in Int, NEW f \in {0, 1}
  PROVE  \E s, e \in Int :
           LET start == [wall |-> s, fold |-> StartFold(range, f)] IN
           /\ start_local(range, [wall |-> w, fold |-> f]) = start
           /\ end_local(range, start) = [wall |-> e, fold |-> EndFold(range, f)]
           /\ IsPeriod(range, s, e, w)
<1>1. CASE range = "hourly"
  <2> DEFINE s == Floor(w, Hour)
  <2>1. start_local(range, [wall |-> w, fold |-> f]) = [wall |-> s, fold |-> f]
    BY <1>1 DEF start_local
  <2>2. end_local(range, [wall |-> s, fold |-> f]) = [wall |-> s + Hour, fold |-> 0]
    BY <1>1 DEF end_local, Plus
  <2>3. s \in Int /\ s + Hour \in Int /\ IsPeriod(range, s, s + Hour, w)
    <3>1. \A v \in Int, x \in {0, 1} :
            start_local(range, [wall |-> v, fold |-> x]).wall = Floor(v, Hour)
      BY <1>1 DEF start_local
    <3>2. QED BY <3>1, FloorPeriod, Lengths
  <2>4. QED BY <1>1, <2>1, <2>2, <2>3 DEF StartFold, EndFold
<1>2. CASE range = "daily"
  <2> DEFINE s == Floor(w, Day)
  <2>1. start_local(range, [wall |-> w, fold |-> f]) = [wall |-> s, fold |-> f]
    BY <1>2 DEF start_local
  <2>2. end_local(range, [wall |-> s, fold |-> f]) = [wall |-> s + Day, fold |-> 0]
    BY <1>2 DEF end_local, Plus
  <2>3. s \in Int /\ s + Day \in Int /\ IsPeriod(range, s, s + Day, w)
    <3>1. \A v \in Int, x \in {0, 1} :
            start_local(range, [wall |-> v, fold |-> x]).wall = Floor(v, Day)
      BY <1>2 DEF start_local
    <3>2. QED BY <3>1, FloorPeriod, Lengths
  <2>4. QED BY <1>2, <2>1, <2>2, <2>3 DEF StartFold, EndFold
<1>3. CASE range = "weekly"
  <2> DEFINE s == Floor(w, Week)
  <2>1. start_local(range, [wall |-> w, fold |-> f]) = [wall |-> s, fold |-> 0]
    BY <1>3, Mondays
  <2>2. end_local(range, [wall |-> s, fold |-> 0]) = [wall |-> s + Week, fold |-> 0]
    BY <1>3 DEF end_local, Plus
  <2>3. s \in Int /\ s + Week \in Int /\ IsPeriod(range, s, s + Week, w)
    <3>1. \A v \in Int, x \in {0, 1} :
            start_local(range, [wall |-> v, fold |-> x]).wall = Floor(v, Week)
      <4>1. ASSUME NEW v \in Int, NEW x \in {0, 1}
            PROVE  start_local(range, [wall |-> v, fold |-> x]).wall = Floor(v, Week)
        <5>1. start_local("weekly", [wall |-> v, fold |-> x]) = [wall |-> Floor(v, Week), fold |-> 0]
          BY Mondays
        <5>2. QED BY <1>3, <5>1
      <4>2. QED BY <4>1
    <3>2. QED BY <3>1, FloorPeriod, Lengths
  <2>4. QED BY <1>3, <2>1, <2>2, <2>3 DEF StartFold, EndFold
<1>4. CASE range = "monthly"
  <2> DEFINE start == start_local(range, [wall |-> w, fold |-> f])
             s == start.wall
             e == end_local(range, start).wall
  <2>1. /\ IsPeriod(range, s, e, w) /\ start = [wall |-> s, fold |-> f]
        /\ end_local(range, start) = [wall |-> e, fold |-> f]
    BY <1>4, Months
  <2>2. s \in Int /\ e \in Int
    BY <2>1 DEF IsPeriod
  <2> HIDE DEF start, s, e
  <2>3. start_local(range, [wall |-> w, fold |-> f]) = [wall |-> s, fold |-> f]
    BY <2>1 DEF start
  <2>4. QED BY <1>4, <2>1, <2>2, <2>3 DEF StartFold, EndFold
<1>5. CASE range = "yearly"
  <2> DEFINE s == Floor(w, Year)
  <2>1. start_local(range, [wall |-> w, fold |-> f]) = [wall |-> s, fold |-> f]
    BY <1>5 DEF start_local
  <2>2. end_local(range, [wall |-> s, fold |-> f]) = [wall |-> s + Year, fold |-> f]
    BY <1>5 DEF end_local
  <2>3. s \in Int /\ s + Year \in Int /\ IsPeriod(range, s, s + Year, w)
    <3>1. \A v \in Int, x \in {0, 1} :
            start_local(range, [wall |-> v, fold |-> x]).wall = Floor(v, Year)
      BY <1>5 DEF start_local
    <3>2. QED BY <3>1, FloorPeriod, Lengths
  <2>4. QED BY <1>5, <2>1, <2>2, <2>3 DEF StartFold, EndFold
<1>6. QED BY <1>1, <1>2, <1>3, <1>4, <1>5 DEF Periods

(* In a regular zone a period begins outside the hour that is skipped or     *)
(* repeated, or with it.                                                     *)
Bordering(zone, wall) ==
  wall \in Repeated(zone) \cup Skipped(zone) =>
    wall - 1 \notin Repeated(zone) \cup Skipped(zone)

LEMMA PeriodsBorder ==
  ASSUME NEW range \in Periods, NEW zone \in Zone, Regular(zone), NEW s, NEW e, NEW w,
         IsPeriod(range, s, e, w)
  PROVE  Bordering(zone, s) /\ Bordering(zone, e)
BY DEF IsPeriod, Regular, Bordering

LEMMA LocalFacts ==
  ASSUME NEW zone \in Zone, NEW utc \in Int
  PROVE  /\ ToLocal(zone, utc) = [wall |-> ToLocal(zone, utc).wall,
                                 fold |-> ToLocal(zone, utc).fold]
         /\ ToLocal(zone, utc).wall \in Int /\ ToLocal(zone, utc).fold \in {0, 1}
         /\ ToLocal(zone, utc).fold = 1 =>
              zone.before > zone.after /\ ToLocal(zone, utc).wall \in Repeated(zone)
BY DEF Zone, ToLocal, Repeated

(* A wall clock after the present's is a later instant ... *)
LEMMA Before ==
  ASSUME NEW zone \in Zone, NEW utc \in Int, NEW wall \in Int, NEW fold \in {0, 1},
         Bordering(zone, wall),
         fold = 1 => zone.before > zone.after /\ wall \notin Repeated(zone),
         ToLocal(zone, utc).wall < wall
  PROVE  utc < ToUtc(zone, [wall |-> wall, fold |-> fold])
BY DEF Zone, ToLocal, ToUtc, Repeated, Skipped, Bordering

(* ... and one that the clock has reached is not. *)
LEMMA After ==
  ASSUME NEW zone \in Zone, NEW utc \in Int, NEW wall \in Int, NEW fold \in {0, 1},
         Bordering(zone, wall),
         fold = 1 => /\ zone.before > zone.after
                     /\ wall \in Repeated(zone) => ToLocal(zone, utc).fold = 1,
         wall <= ToLocal(zone, utc).wall
  PROVE  ToUtc(zone, [wall |-> wall, fold |-> fold]) <= utc
BY DEF Zone, ToLocal, ToUtc, Repeated, Skipped, Bordering

(* Only in the repeated hour does fold matter. *)
LEMMA FoldMatters ==
  ASSUME NEW zone \in Zone, NEW wall \in Int, wall \notin Repeated(zone),
         zone.before > zone.after
  PROVE  ToUtc(zone, [wall |-> wall, fold |-> 0]) = ToUtc(zone, [wall |-> wall, fold |-> 1])
BY DEF Zone, ToUtc, Repeated

-------------------------------------------------------------------------------
(* Whatever the calendar and the zone, the current period of every range     *)
(* has the present in it.                                                    *)
THEOREM PresentInPeriod ==
  ASSUME NEW zone \in Zone, Regular(zone), NEW range \in Periods, NEW utc \in Int
  PROVE  InBounds(range_to_bounds(range, zone, utc), utc)
<1> DEFINE w == ToLocal(zone, utc).wall
           f == ToLocal(zone, utc).fold
<1>1. /\ w \in Int /\ f \in {0, 1} /\ ToLocal(zone, utc) = [wall |-> w, fold |-> f]
      /\ f = 1 => zone.before > zone.after /\ w \in Repeated(zone)
  BY LocalFacts
<1>2. PICK s, e \in Int :
        /\ start_local(range, ToLocal(zone, utc)) = [wall |-> s, fold |-> StartFold(range, f)]
        /\ end_local(range, [wall |-> s, fold |-> StartFold(range, f)])
             = [wall |-> e, fold |-> EndFold(range, f)]
        /\ IsPeriod(range, s, e, w)
  BY <1>1, Period
<1>3. Bordering(zone, s) /\ Bordering(zone, e) /\ s <= w /\ w < e
  BY <1>2, PeriodsBorder DEF IsPeriod
<1>4. StartFold(range, f) \in {0, f} /\ EndFold(range, f) \in {0, f}
  BY DEF StartFold, EndFold
<1>5. f = 1 => e \notin Repeated(zone)
  BY <1>1, <1>3 DEF Bordering, Repeated, Skipped, Zone
<1>6. utc < ToUtc(zone, [wall |-> e, fold |-> EndFold(range, f)])
  BY <1>1, <1>2, <1>3, <1>4, <1>5, Before
<1>7. ToUtc(zone, [wall |-> s, fold |-> StartFold(range, f)]) <= utc
  BY <1>1, <1>2, <1>3, <1>4, After
<1>8. QED BY <1>2, <1>6, <1>7 DEF range_to_bounds, InBounds

(* What start_local and end_local make of a local time. *)
Start(range, local, s) == [wall |-> s, fold |-> StartFold(range, local.fold)]
End(range, local, e) == [wall |-> e, fold |-> EndFold(range, local.fold)]
HasPeriod(range, local, s, e) ==
  /\ start_local(range, local) = Start(range, local, s)
  /\ end_local(range, Start(range, local, s)) = End(range, local, e)
  /\ IsPeriod(range, s, e, local.wall)

LEMMA PeriodOf ==
  ASSUME NEW zone \in Zone, NEW range \in Periods, NEW utc \in Int
  PROVE  \E s, e \in Int : HasPeriod(range, ToLocal(zone, utc), s, e)
<1> DEFINE w == ToLocal(zone, utc).wall
           f == ToLocal(zone, utc).fold
<1>1. w \in Int /\ f \in {0, 1} /\ ToLocal(zone, utc) = [wall |-> w, fold |-> f]
  BY LocalFacts
<1>2. QED BY <1>1, Period DEF HasPeriod, Start, End

(* Unless the period begins with the repeated hour, its bounds hold exactly  *)
(* the instants at which the wall clock is in it.                            *)
LEMMA WallsInBounds ==
  ASSUME NEW zone \in Zone, Regular(zone), NEW range \in Periods,
         NEW instant \in Int, NEW utc \in Int, NEW s \in Int, NEW e \in Int,
         HasPeriod(range, ToLocal(zone, instant), s, e), s \notin Repeated(zone)
  PROVE  InBounds(range_to_bounds(range, zone, instant), utc)
           <=> s <= ToLocal(zone, utc).wall /\ ToLocal(zone, utc).wall < e
<1> DEFINE w == ToLocal(zone, instant).wall
           f == ToLocal(zone, instant).fold
           x == ToLocal(zone, utc).wall
           g == ToLocal(zone, utc).fold
           first == ToUtc(zone, [wall |-> s, fold |-> StartFold(range, f)])
           last == ToUtc(zone, [wall |-> e, fold |-> EndFold(range, f)])
<1>1. w \in Int /\ f \in {0, 1} /\ (f = 1 => zone.before > zone.after /\ w \in Repeated(zone))
  BY LocalFacts
<1>2. x \in Int /\ g \in {0, 1} /\ (g = 1 => zone.before > zone.after /\ x \in Repeated(zone))
  BY LocalFacts
<1>3. Bordering(zone, s) /\ Bordering(zone, e) /\ s <= w /\ w < e
  BY PeriodsBorder DEF IsPeriod, HasPeriod
<1>4. /\ StartFold(range, f) \in {0, 1} /\ (StartFold(range, f) = 1 => zone.before > zone.after)
      /\ EndFold(range, f) \in {0, 1} /\ (EndFold(range, f) = 1 => f = 1)
  BY <1>1 DEF StartFold, EndFold
<1>5. f = 1 => e \notin Repeated(zone)
  BY <1>1, <1>3 DEF Bordering, Repeated, Skipped, Zone
<1>6. InBounds(range_to_bounds(range, zone, instant), utc) <=> first <= utc /\ utc < last
  BY DEF range_to_bounds, InBounds, HasPeriod, Start, End
<1>7. first \in Int /\ last \in Int
  BY DEF ToUtc, Zone
<1> HIDE DEF w, f
<1>8. x < s => utc < first
  BY <1>3, <1>4, Before DEF x
<1>9. s <= x => first <= utc
  BY <1>3, <1>4, After DEF x
<1>10. x < e => utc < last
  BY <1>1, <1>3, <1>4, <1>5, Before DEF x
<1>11. e <= x => last <= utc
  BY <1>1, <1>3, <1>4, <1>5, After DEF x
<1> HIDE DEF x, first, last
<1>12. (first <= utc <=> s <= x) /\ (utc < last <=> x < e)
  BY <1>2, <1>7, <1>8, <1>9, <1>10, <1>11
<1>13. QED BY <1>6, <1>12 DEF x

(* Two wall clocks in one period have the same one. *)
LEMMA SamePeriodStart ==
  ASSUME NEW zone \in Zone, NEW utc \in Int, NEW range, NEW here,
         NEW s \in Int, NEW e \in Int, NEW t \in Int, NEW d \in Int,
         HasPeriod(range, here, s, e), HasPeriod(range, ToLocal(zone, utc), t, d),
         s <= ToLocal(zone, utc).wall, ToLocal(zone, utc).wall < e
  PROVE  t = s
<1> DEFINE x == ToLocal(zone, utc).wall
           g == ToLocal(zone, utc).fold
<1>1. x \in Int /\ g \in {0, 1} /\ ToLocal(zone, utc) = [wall |-> x, fold |-> g]
  BY LocalFacts
<1>2. start_local(range, ToLocal(zone, utc)).wall = t
  BY DEF HasPeriod, Start
<1>3. start_local(range, [wall |-> x, fold |-> g]).wall = s
  BY <1>1 DEF HasPeriod, IsPeriod
<1>4. QED BY <1>1, <1>2, <1>3

LEMMA SamePeriodEnd ==
  ASSUME NEW range \in Periods, NEW here, NEW there, NEW s, NEW e, NEW d,
         HasPeriod(range, here, s, e), HasPeriod(range, there, s, d)
  PROVE  d = e
<1>1. end_local(range, Start(range, here, s)).wall = end_local(range, Start(range, there, s)).wall
  BY DEF end_local, Plus, Periods, Start
<1>2. QED BY <1>1 DEF HasPeriod, End

(* Unless its period begins with the repeated hour, the bounds that a        *)
(* request computes (range_to_bounds) hold exactly the instants of the same  *)
(* period, however the clock was changed in between.                         *)
THEOREM BoundsArePeriods ==
  ASSUME NEW zone \in Zone, Regular(zone), NEW range \in Periods,
         NEW instant \in Int, NEW utc \in Int, PeriodStart(range, zone, instant) \notin Repeated(zone)
  PROVE  InBounds(range_to_bounds(range, zone, instant), utc)
           <=> PeriodStart(range, zone, utc) = PeriodStart(range, zone, instant)
<1> DEFINE x == ToLocal(zone, utc).wall
<1>1. PICK s, e \in Int : HasPeriod(range, ToLocal(zone, instant), s, e)
  BY PeriodOf
<1>2. PICK t, d \in Int : HasPeriod(range, ToLocal(zone, utc), t, d)
  BY PeriodOf
<1>3. PeriodStart(range, zone, instant) = s /\ PeriodStart(range, zone, utc) = t
  BY <1>1, <1>2 DEF PeriodStart, HasPeriod, Start
<1>4. InBounds(range_to_bounds(range, zone, instant), utc) <=> s <= x /\ x < e
  BY <1>1, <1>3, WallsInBounds
<1>5. s <= x /\ x < e => t = s
  BY <1>1, <1>2, SamePeriodStart
<1>6. ASSUME t = s PROVE s <= x /\ x < e
  <2>1. d = e
    BY <1>1, <1>2, <1>6, SamePeriodEnd
  <2>2. QED BY <1>2, <1>6, <2>1 DEF HasPeriod, IsPeriod
<1>7. QED BY <1>3, <1>4, <1>5, <1>6

(* The instants of a period, which does not begin with the repeated hour,    *)
(* have that period for theirs.                                              *)
THEOREM PeriodsDoTile ==
  ASSUME NEW zone \in Zone, Regular(zone), NEW range \in Periods,
         NEW instant \in Int, NEW utc \in Int
  PROVE  PeriodsTile(range, zone, instant, utc)
<1> DEFINE here == ToLocal(zone, instant)
           there == ToLocal(zone, utc)
           w == here.wall
           f == here.fold
           x == there.wall
           g == there.fold
<1>1. w \in Int /\ f \in {0, 1} /\ (f = 1 => zone.before > zone.after /\ w \in Repeated(zone))
  BY LocalFacts
<1>2. x \in Int /\ g \in {0, 1} /\ (g = 1 => zone.before > zone.after /\ x \in Repeated(zone))
  BY LocalFacts
<1>3. PICK s, e \in Int : HasPeriod(range, here, s, e)
  BY PeriodOf
<1>4. PICK t, d \in Int : HasPeriod(range, there, t, d)
  BY PeriodOf
<1>5. SUFFICES ASSUME InBounds(range_to_bounds(range, zone, instant), utc), s \notin Repeated(zone)
               PROVE  /\ ToUtc(zone, Start(range, there, t)) = ToUtc(zone, Start(range, here, s))
                      /\ ToUtc(zone, End(range, there, d)) = ToUtc(zone, End(range, here, e))
  BY <1>3, <1>4 DEF PeriodsTile, range_to_bounds, PeriodStart, HasPeriod, Start
<1>6. s <= x /\ x < e
  BY <1>3, <1>5, WallsInBounds
<1>7. t = s
  BY <1>3, <1>4, <1>6, SamePeriodStart
<1>8. d = e
  BY <1>3, <1>4, <1>7, SamePeriodEnd
<1>9. Bordering(zone, e) /\ w < e
  BY <1>3, PeriodsBorder DEF IsPeriod, HasPeriod
<1>10. e \in Repeated(zone) => f = 0 /\ g = 0
  BY <1>1, <1>2, <1>6, <1>9 DEF Bordering, Repeated, Skipped, Zone
<1>11. /\ StartFold(range, f) \in {0, f} /\ EndFold(range, f) \in {0, f}
       /\ StartFold(range, g) \in {0, g} /\ EndFold(range, g) \in {0, g}
  BY DEF StartFold, EndFold
<1> HIDE DEF w, f, x, g
<1>12. ToUtc(zone, [wall |-> t, fold |-> StartFold(range, g)])
         = ToUtc(zone, [wall |-> s, fold |-> StartFold(range, f)])
  BY <1>1, <1>2, <1>5, <1>7, <1>11, FoldMatters
<1>13. ToUtc(zone, [wall |-> d, fold |-> EndFold(range, g)])
         = ToUtc(zone, [wall |-> e, fold |-> EndFold(range, f)])
  BY <1>1, <1>2, <1>8, <1>10, <1>11, FoldMatters
<1>14. QED BY <1>12, <1>13 DEF Start, End, f, g

-------------------------------------------------------------------------------
(* Places in an order. *)

Decides(R, S) ==
  /\ \A x \in S : <<x, x>> \notin R
  /\ \A x, y \in S : x # y => <<x, y>> \in R \/ <<y, x>> \in R
  /\ \A x, y, z \in S : <<x, y>> \in R /\ <<y, z>> \in R => <<x, z>> \in R

Ahead(R, S, x) == {y \in S : <<y, x>> \in R}
PlaceIn(R, S, x) == 1 + Cardinality(Ahead(R, S, x))

Sorted(R, S) ==
  {s \in SetToSeqs(S) : \A i, j \in DOMAIN s : i < j => <<s[i], s[j]>> \in R}

-------------------------------------------------------------------------------
(* Whoever is ahead has the lower place. *)
LEMMA PlacesIncrease ==
  ASSUME NEW S, NEW R, IsFiniteSet(S), Decides(R, S),
         NEW x \in S, NEW y \in S, <<x, y>> \in R
  PROVE  PlaceIn(R, S, x) < PlaceIn(R, S, y)
<1> DEFINE X == Ahead(R, S, x)
           Y == Ahead(R, S, y)
<1>1. X \cup {x} \in SUBSET Y /\ x \notin X
  BY DEF Decides, Ahead
<1>2. X \in SUBSET S /\ Y \in SUBSET S
  BY DEF Ahead
<1>3. IsFiniteSet(X) /\ IsFiniteSet(Y)
  BY <1>2, FS_Subset
<1>4. Cardinality(X \cup {x}) = Cardinality(X) + 1
  BY <1>1, <1>3, FS_AddElement
<1>5. Cardinality(X \cup {x}) <= Cardinality(Y)
  BY <1>1, <1>3, FS_Subset
<1>6. Cardinality(X) \in Nat /\ Cardinality(Y) \in Nat
  BY <1>3, FS_CardinalityType
<1> HIDE DEF X, Y
<1>7. Cardinality(X) < Cardinality(Y)
  BY <1>4, <1>5, <1>6
<1>8. QED BY <1>6, <1>7 DEF PlaceIn, X, Y

(* A place is a number from 1 to n. *)
LEMMA PlacesInRange ==
  ASSUME NEW S, NEW R, IsFiniteSet(S), Decides(R, S), NEW x \in S
  PROVE  PlaceIn(R, S, x) \in 1 .. Cardinality(S) /\ Cardinality(S) \in Nat
<1> DEFINE X == Ahead(R, S, x)
<1>1. X \in SUBSET S /\ X \cup {x} \in SUBSET S /\ x \notin X
  BY DEF Decides, Ahead
<1>2. IsFiniteSet(X)
  BY <1>1, FS_Subset
<1>3. Cardinality(X \cup {x}) = Cardinality(X) + 1
  BY <1>1, <1>2, FS_AddElement
<1>4. Cardinality(X \cup {x}) <= Cardinality(S)
  BY <1>1, FS_Subset
<1>5. Cardinality(X) \in Nat /\ Cardinality(S) \in Nat
  BY <1>2, FS_CardinalityType
<1> HIDE DEF X
<1>6. QED BY <1>3, <1>4, <1>5 DEF PlaceIn, X

LEMMA PlacesDiffer ==
  ASSUME NEW S, NEW R, IsFiniteSet(S), Decides(R, S), NEW x \in S, NEW y \in S,
         PlaceIn(R, S, x) = PlaceIn(R, S, y)
  PROVE  x = y
<1>1. PlaceIn(R, S, x) \in Int
  BY PlacesInRange
<1>2. ASSUME x # y PROVE FALSE
  <2>1. PlaceIn(R, S, x) < PlaceIn(R, S, y) \/ PlaceIn(R, S, y) < PlaceIn(R, S, x)
    BY <1>2, PlacesIncrease DEF Decides
  <2>2. QED BY <1>1, <2>1
<1>3. QED BY <1>2

(* Every place is taken. *)
LEMMA PlacesTaken ==
  ASSUME NEW S, NEW R, IsFiniteSet(S), Decides(R, S), NEW k \in 1 .. Cardinality(S)
  PROVE  \E x \in S : PlaceIn(R, S, x) = k
<1> DEFINE n == Cardinality(S)
           f == [x \in S |-> PlaceIn(R, S, x)]
<1>0. n \in Nat
  BY FS_CardinalityType
<1>1. f \in [S -> 1 .. n]
  BY PlacesInRange
<1>2. f \in Injection(S, 1 .. n)
  BY <1>1, PlacesDiffer DEF Injection, IsInjective
<1>3. IsFiniteSet(1 .. n) /\ Cardinality(1 .. n) = n
  BY <1>0, FS_Interval
<1>4. f \in Surjection(S, 1 .. n)
  BY <1>2, <1>3, FS_Injection
<1>5. QED BY <1>4 DEF Surjection

(* ORDER BY has a sequence to return. *)
LEMMA SortedExists ==
  ASSUME NEW S, NEW R, IsFiniteSet(S), Decides(R, S)
  PROVE  \E s \in SetToSeqs(S) : \A i, j \in DOMAIN s : i < j => <<s[i], s[j]>> \in R
<1> DEFINE n == Cardinality(S)
           s == [k \in 1 .. n |-> CHOOSE x \in S : PlaceIn(R, S, x) = k]
<1>1. \A k \in 1 .. n : s[k] \in S /\ PlaceIn(R, S, s[k]) = k
  BY PlacesTaken
<1>2. s \in [1 .. n -> S] /\ DOMAIN s = 1 .. n
  BY <1>1
<1> HIDE DEF s
<1>3. \A i, j \in 1 .. n : i # j => s[i] # s[j]
  BY <1>1
<1>4. s \in SetToSeqs(S)
  BY <1>2, <1>3 DEF SetToSeqs
<1>5. ASSUME NEW i \in 1 .. n, NEW j \in 1 .. n, i < j PROVE <<s[i], s[j]>> \in R
  <2>1. s[i] \in S /\ s[j] \in S /\ s[i] # s[j]
    BY <1>1, <1>3, <1>5
  <2>2. CASE <<s[j], s[i]>> \in R
    <3>1. PlaceIn(R, S, s[j]) < PlaceIn(R, S, s[i])
      BY <2>1, <2>2, PlacesIncrease
    <3>2. QED BY <1>1, <1>5, <3>1
  <2>3. QED BY <2>1, <2>2 DEF Decides
<1>6. QED BY <1>2, <1>4, <1>5

(* A sorted sequence has all of the set, each element at its place. *)
LEMMA SortedPlaces ==
  ASSUME NEW S, NEW R, IsFiniteSet(S), Decides(R, S), NEW s \in Sorted(R, S)
  PROVE  /\ Cardinality(S) \in Nat /\ DOMAIN s = 1 .. Cardinality(S)
         /\ \A k \in DOMAIN s : s[k] \in S /\ PlaceIn(R, S, s[k]) = k
         /\ \A x \in S : \E k \in DOMAIN s : s[k] = x
<1> DEFINE n == Cardinality(S)
<1>0. n \in Nat
  BY FS_CardinalityType
<1>1. /\ s \in [1 .. n -> S] /\ DOMAIN s = 1 .. n
      /\ \A i, j \in 1 .. n : i # j => s[i] # s[j]
      /\ \A i, j \in 1 .. n : i < j => <<s[i], s[j]>> \in R
  BY DEF Sorted, SetToSeqs
<1>2. s \in Injection(1 .. n, S)
  BY <1>1 DEF Injection, IsInjective
<1>3. IsFiniteSet(1 .. n) /\ Cardinality(1 .. n) = n
  BY <1>0, FS_Interval
<1>4. \A x \in S : \E k \in 1 .. n : s[k] = x
  <2>1. Cardinality(1 .. n) = Cardinality(S) <=> s \in Surjection(1 .. n, S)
    BY <1>2, FS_Injection
  <2>2. s \in Surjection(1 .. n, S)
    BY <1>3, <2>1
  <2>3. QED BY <2>2 DEF Surjection
<1>5. ASSUME NEW k \in 1 .. n PROVE PlaceIn(R, S, s[k]) = k
  <2> DEFINE A == Ahead(R, S, s[k])
             f == [i \in 1 .. (k - 1) |-> s[i]]
  <2>1. \A i \in 1 .. (k - 1) : i \in 1 .. n /\ s[i] \in A
    BY <1>0, <1>1 DEF Ahead
  <2>2. f \in [1 .. (k - 1) -> A]
    BY <2>1
  <2>3. f \in Injection(1 .. (k - 1), A)
    BY <1>1, <2>1, <2>2 DEF Injection, IsInjective
  <2>4. ASSUME NEW x \in A PROVE \E i \in 1 .. (k - 1) : f[i] = x
    <3>1. x \in S /\ <<x, s[k]>> \in R
      BY DEF Ahead
    <3>2. PICK i \in 1 .. n : s[i] = x
      BY <1>4, <3>1
    <3>3. ~(k < i) /\ i # k
      BY <1>1, <3>1, <3>2 DEF Decides
    <3>4. i \in 1 .. (k - 1)
      BY <1>0, <3>3
    <3>5. QED BY <3>2, <3>4
  <2>5. f \in Bijection(1 .. (k - 1), A)
    BY <2>2, <2>3, <2>4 DEF Bijection, Surjection
  <2>6. k - 1 \in Nat
    OBVIOUS
  <2>7. Cardinality(A) = k - 1
    BY <2>5, <2>6, FS_CountingElements DEF ExistsBijection
  <2>8. QED BY <2>7 DEF PlaceIn
<1>6. QED BY <1>0, <1>1, <1>4, <1>5

(* First is who precedes all others; second is who has one ahead of it. *)
LEMMA FirstPlace ==
  ASSUME NEW S, NEW R, IsFiniteSet(S), Decides(R, S), NEW x \in S
  PROVE  PlaceIn(R, S, x) = 1 <=> \A y \in S \ {x} : <<x, y>> \in R
<1>1. Ahead(R, S, x) \in SUBSET S
  BY DEF Ahead
<1>2. IsFiniteSet(Ahead(R, S, x)) /\ Cardinality(Ahead(R, S, x)) \in Nat
  BY <1>1, FS_Subset, FS_CardinalityType
<1>3. PlaceIn(R, S, x) = 1 <=> Ahead(R, S, x) = {}
  BY <1>2, FS_EmptySet DEF PlaceIn
<1>4. Ahead(R, S, x) = {} <=> \A y \in S \ {x} : <<x, y>> \in R
  BY DEF Ahead, Decides
<1>5. QED BY <1>3, <1>4

LEMMA SecondPlace ==
  ASSUME NEW S, NEW R, IsFiniteSet(S), Decides(R, S), NEW x \in S
  PROVE  PlaceIn(R, S, x) = 2 <=> \E w \in S : Ahead(R, S, x) = {w}
<1>1. Ahead(R, S, x) \in SUBSET S
  BY DEF Ahead
<1>2. IsFiniteSet(Ahead(R, S, x)) /\ Cardinality(Ahead(R, S, x)) \in Nat
  BY <1>1, FS_Subset, FS_CardinalityType
<1>3. PlaceIn(R, S, x) = 2 <=> Cardinality(Ahead(R, S, x)) = 1
  BY <1>2 DEF PlaceIn
<1>4. Cardinality(Ahead(R, S, x)) = 1 <=> \E w : Ahead(R, S, x) = {w}
  BY <1>2, FS_Singleton
<1>5. QED BY <1>1, <1>3, <1>4
-------------------------------------------------------------------------------
(* The order of a board. *)
IsTable(rows) ==
  /\ Ids(rows) \in SUBSET Nat /\ IsFiniteSet(Ids(rows))
  /\ \A i \in Ids(rows) :
       /\ rows[i].score \in Int /\ rows[i].submitted_at \in Int /\ rows[i].player \in Nat
       /\ rows[i].played_at \in SUBSET Int /\ AtMostOne(rows[i].played_at)

BoardOrder(rows, direction, sort) ==
  {p \in Ids(rows) \X Ids(rows) : Precedes(rows, direction, sort, p[1], p[2])}

LEMMA NullsFirstIsWeak ==
  ASSUME NEW x \in SUBSET Int, NEW y \in SUBSET Int, NEW z \in SUBSET Int,
         AtMostOne(x), AtMostOne(y), AtMostOne(z)
  PROVE  /\ ~NullsFirst(x, x)
         /\ NullsFirst(x, y) => ~NullsFirst(y, x)
         /\ NullsFirst(x, y) /\ NullsFirst(y, z) => NullsFirst(x, z)
         /\ ~NullsFirst(x, y) /\ ~NullsFirst(y, z) => ~NullsFirst(x, z)
<1>1. /\ x = {} \/ \E a \in Int : x = {a}
      /\ y = {} \/ \E a \in Int : y = {a}
      /\ z = {} \/ \E a \in Int : z = {a}
  BY DEF AtMostOne
<1>2. \A a, b \in Int : /\ NullsFirst({a}, {b}) <=> a > b
                        /\ NullsFirst({}, {b}) /\ ~NullsFirst({a}, {})
  BY DEF NullsFirst
<1>3. ~NullsFirst({}, {})
  BY DEF NullsFirst
<1>4. CASE x = {}
  BY <1>1, <1>2, <1>3, <1>4
<1>5. ASSUME NEW a \in Int, x = {a}, y = {}
      PROVE  ~NullsFirst(x, y) /\ ~NullsFirst(x, x) /\ NullsFirst(y, x)
  <2>1. ~NullsFirst({a}, {a}) /\ NullsFirst({}, {a}) /\ ~NullsFirst({a}, {})
    BY DEF NullsFirst
  <2>2. QED BY <1>5, <2>1
<1>6. ASSUME NEW a \in Int, x = {a}, y = {}
      PROVE ~NullsFirst(y, z) => ~NullsFirst(x, z)
  BY <1>1, <1>2, <1>6
<1>7. ASSUME NEW a \in Int, x = {a}, NEW b \in Int, y = {b}, z = {}
      PROVE  ~NullsFirst(y, z) /\ ~NullsFirst(x, z)
  BY <1>2, <1>7
<1>8. ASSUME NEW a \in Int, x = {a}, NEW b \in Int, y = {b}
      PROVE  /\ NullsFirst(x, y) <=> a > b
             /\ NullsFirst(y, x) <=> b > a
             /\ NullsFirst(x, x) <=> a > a
  BY <1>2, <1>8
<1>9. ASSUME NEW a \in Int, x = {a}, NEW b \in Int, y = {b}, NEW c \in Int, z = {c}
      PROVE  /\ NullsFirst(y, z) <=> b > c
             /\ NullsFirst(x, z) <=> a > c
  BY <1>2, <1>9
<1>10. ASSUME NEW a \in Int, x = {a}
       PROVE  /\ ~NullsFirst(x, x)
              /\ NullsFirst(x, y) => ~NullsFirst(y, x)
              /\ NullsFirst(x, y) /\ NullsFirst(y, z) => NullsFirst(x, z)
              /\ ~NullsFirst(x, y) /\ ~NullsFirst(y, z) => ~NullsFirst(x, z)
  <2>1. CASE y = {}
    BY <1>5, <1>6, <1>10, <2>1
  <2>2. ASSUME NEW b \in Int, y = {b}, z = {}
        PROVE  /\ ~NullsFirst(x, x)
               /\ NullsFirst(x, y) => ~NullsFirst(y, x)
               /\ ~NullsFirst(y, z) /\ ~NullsFirst(x, z)
    BY <1>7, <1>8, <1>10, <2>2
  <2>3. ASSUME NEW b \in Int, y = {b}, NEW c \in Int, z = {c}
        PROVE  /\ ~NullsFirst(x, x)
               /\ NullsFirst(x, y) => ~NullsFirst(y, x)
               /\ NullsFirst(x, y) /\ NullsFirst(y, z) => NullsFirst(x, z)
               /\ ~NullsFirst(x, y) /\ ~NullsFirst(y, z) => ~NullsFirst(x, z)
    BY <1>8, <1>9, <1>10, <2>3
  <2>4. QED BY <1>1, <2>1, <2>2, <2>3
<1>11. QED BY <1>1, <1>4, <1>10

(* Better compares the sort column alone: it is a weak order. *)
LEMMA BetterIsWeak ==
  ASSUME NEW rows, IsTable(rows), NEW direction \in Directions, NEW sort \in Sorts,
         NEW i \in Ids(rows), NEW j \in Ids(rows), NEW k \in Ids(rows)
  PROVE  LET B(m, n) == Better(direction, sort, rows[m], rows[n]) IN
         /\ ~B(i, i)
         /\ B(i, j) => ~B(j, i)
         /\ B(i, j) /\ B(j, k) => B(i, k)
         /\ ~B(i, j) /\ ~B(j, k) => ~B(i, k)
<1>1. CASE sort = "score" /\ direction = "desc"
  <2>1. \A m, n \in Ids(rows) :
          Better(direction, sort, rows[m], rows[n]) <=> rows[m].score > rows[n].score
    BY <1>1 DEF Better
  <2>2. rows[i].score \in Int /\ rows[j].score \in Int /\ rows[k].score \in Int
    BY DEF IsTable
  <2>3. QED BY <2>1, <2>2
<1>2. CASE sort = "score" /\ direction = "asc"
  <2>1. \A m, n \in Ids(rows) :
          Better(direction, sort, rows[m], rows[n]) <=> rows[m].score < rows[n].score
    BY <1>2 DEF Better
  <2>2. rows[i].score \in Int /\ rows[j].score \in Int /\ rows[k].score \in Int
    BY DEF IsTable
  <2>3. QED BY <2>1, <2>2
<1>3. CASE sort = "submitted_at"
  <2>1. \A m, n \in Ids(rows) :
          Better(direction, sort, rows[m], rows[n])
            <=> rows[m].submitted_at > rows[n].submitted_at
    BY <1>3 DEF Better
  <2>2. /\ rows[i].submitted_at \in Int /\ rows[j].submitted_at \in Int
        /\ rows[k].submitted_at \in Int
    BY DEF IsTable
  <2>3. QED BY <2>1, <2>2
<1>4. CASE sort = "played_at"
  <2>1. \A m, n \in Ids(rows) :
          Better(direction, sort, rows[m], rows[n])
            <=> NullsFirst(rows[m].played_at, rows[n].played_at)
    BY <1>4 DEF Better
  <2>2. \A m \in Ids(rows) : rows[m].played_at \in SUBSET Int /\ AtMostOne(rows[m].played_at)
    BY DEF IsTable
  <2>3. QED BY <2>1, <2>2, NullsFirstIsWeak
<1>5. QED BY <1>1, <1>2, <1>3, <1>4 DEF Sorts, Directions

(* Whatever it sorts by, a board's order decides between any two rows. *)
LEMMA BoardOrderDecides ==
  ASSUME NEW rows, IsTable(rows), NEW direction \in Directions, NEW sort \in Sorts,
         NEW board \in SUBSET Ids(rows)
  PROVE  Decides(BoardOrder(rows, direction, sort), board) /\ IsFiniteSet(board)
<1> DEFINE R == BoardOrder(rows, direction, sort)
           B(m, n) == Better(direction, sort, rows[m], rows[n])
           at(m) == rows[m].submitted_at
<1>1. \A m, n \in Ids(rows) :
        <<m, n>> \in R <=> B(m, n) \/ (~B(n, m) /\ (at(m) < at(n) \/ (at(m) = at(n) /\ m < n)))
  BY DEF BoardOrder, Precedes
<1>2. \A m \in Ids(rows) : at(m) \in Int /\ m \in Int
  BY DEF IsTable
<1>3. \A i, j, k \in Ids(rows) :
         /\ ~B(i, i)
         /\ B(i, j) => ~B(j, i)
         /\ B(i, j) /\ B(j, k) => B(i, k)
         /\ ~B(i, j) /\ ~B(j, k) => ~B(i, k)
  BY BetterIsWeak
<1> HIDE DEF R, B, at
<1>4. \A x \in Ids(rows) : <<x, x>> \notin R
  BY <1>1, <1>2, <1>3
<1>5. \A x, y \in Ids(rows) : x # y => <<x, y>> \in R \/ <<y, x>> \in R
  BY <1>1, <1>2, <1>3
<1>6. ASSUME NEW x \in Ids(rows), NEW y \in Ids(rows), NEW z \in Ids(rows),
             <<x, y>> \in R, <<y, z>> \in R
      PROVE  <<x, z>> \in R
  <2>1. CASE B(x, z)
    BY <1>1, <2>1
  <2>2. CASE ~B(x, z)
    <3>1. ~B(z, y) /\ ~B(y, x)
      BY <1>1, <1>3, <1>6
    <3>2. ~B(z, x)
      BY <1>3, <3>1
    <3>3. ~B(x, y) /\ ~B(y, z)
      BY <1>3, <2>2, <3>1
    <3>4. /\ at(x) < at(y) \/ (at(x) = at(y) /\ x < y)
          /\ at(y) < at(z) \/ (at(y) = at(z) /\ y < z)
      BY <1>1, <1>6, <3>3
    <3>5. at(x) < at(z) \/ (at(x) = at(z) /\ x < z)
      BY <1>2, <3>4
    <3>6. QED BY <1>1, <3>2, <3>5
  <2>3. QED BY <2>1, <2>2
<1>7. IsFiniteSet(board)
  BY FS_Subset DEF IsTable
<1>8. QED BY <1>4, <1>5, <1>6, <1>7 DEF Decides, R

LEMMA DisjointUnion ==
  ASSUME NEW S, NEW T, IsFiniteSet(S), IsFiniteSet(T), S \cap T = {}
  PROVE  IsFiniteSet(S \cup T) /\ Cardinality(S \cup T) = Cardinality(S) + Cardinality(T)
<1>1. /\ IsFiniteSet(S \cup T)
      /\ Cardinality(S \cup T) = Cardinality(S) + Cardinality(T) - Cardinality(S \cap T)
  BY FS_Union
<1>2. Cardinality(S \cap T) = 0 /\ Cardinality(S) \in Nat /\ Cardinality(T) \in Nat
  BY FS_EmptySet, FS_CardinalityType
<1>3. QED BY <1>1, <1>2

(* The documented place of a row is its place in that order. *)
LEMMA PlaceIsPlace ==
  ASSUME NEW rows, IsTable(rows), NEW direction \in Directions, NEW sort \in Sorts,
         NEW board \in SUBSET Ids(rows), NEW i \in board
  PROVE  Place(rows, direction, sort, board, i)
           = PlaceIn(BoardOrder(rows, direction, sort), board, i)
<1> DEFINE R == BoardOrder(rows, direction, sort)
           B(m, n) == Better(direction, sort, rows[m], rows[n])
           at(m) == rows[m].submitted_at
           ahead == {j \in board : B(j, i)}
           level == {j \in board \ ahead : ~B(i, j)}
           earlier == {j \in level : at(j) < at(i)}
           same == {j \in level : at(j) = at(i) /\ j < i}
<1>1. \A m, n \in Ids(rows) :
        <<m, n>> \in R <=> B(m, n) \/ (~B(n, m) /\ (at(m) < at(n) \/ (at(m) = at(n) /\ m < n)))
  BY DEF BoardOrder, Precedes
<1>2. \A m \in Ids(rows) : at(m) \in Int
  BY DEF IsTable
<1>3. Ahead(R, board, i) = (ahead \cup earlier) \cup same
  <2> HIDE DEF R, B, at
  <2>1. QED BY <1>1 DEF Ahead
<1>4. ahead \cap earlier = {} /\ (ahead \cup earlier) \cap same = {}
  <2> HIDE DEF B, at
  <2>1. QED BY <1>2
<1>5. ahead \in SUBSET board /\ earlier \in SUBSET board /\ same \in SUBSET board
  OBVIOUS
<1>6. IsFiniteSet(board)
  BY FS_Subset DEF IsTable
<1> HIDE DEF ahead, earlier, same
<1>7. IsFiniteSet(ahead) /\ IsFiniteSet(earlier) /\ IsFiniteSet(same)
  BY <1>5, <1>6, FS_Subset
<1>8. /\ Cardinality(ahead) \in Nat /\ Cardinality(earlier) \in Nat
      /\ Cardinality(same) \in Nat /\ Cardinality({}) = 0
  BY <1>7, FS_CardinalityType, FS_EmptySet
<1>9. /\ IsFiniteSet(ahead \cup earlier)
      /\ Cardinality(ahead \cup earlier) = Cardinality(ahead) + Cardinality(earlier)
  BY <1>4, <1>7, <1>8, DisjointUnion
<1>10. Cardinality((ahead \cup earlier) \cup same)
         = Cardinality(ahead) + Cardinality(earlier) + Cardinality(same)
  <2>1. Cardinality((ahead \cup earlier) \cup same)
          = Cardinality(ahead \cup earlier) + Cardinality(same)
    BY <1>4, <1>7, <1>9, DisjointUnion
  <2>2. QED BY <1>9, <2>1
<1>11. Place(rows, direction, sort, board, i)
         = 1 + Cardinality(ahead) + Cardinality(earlier) + Cardinality(same)
  BY DEF Place, ahead, earlier, same
<1>12. QED BY <1>3, <1>8, <1>10, <1>11 DEF PlaceIn
-------------------------------------------------------------------------------
(* Pages. *)
Positive == Nat \ {0}
Offset(page, size) == (page - 1) * size

LEMMA PageOf ==
  ASSUME NEW place \in Positive, NEW page \in Positive, NEW size \in Positive
  PROVE  (place - 1) \div size = page - 1
           <=> Offset(page, size) < place /\ place <= Offset(page, size) + size
<1> USE DEF Positive
<1> DEFINE w == place - 1
           q == w \div size
           offset == Offset(page, size)
<1>1. offset \in Int /\ offset = size * (page - 1)
  BY DEF Offset
<1>2. w \in Int /\ q \in Int /\ w % size \in 0 .. size - 1 /\ w = size * q + (w % size)
  BY DivMod
<1>3. ASSUME q = page - 1 PROVE offset < place /\ place <= offset + size
  BY <1>1, <1>2, <1>3
<1>4. ASSUME offset < place, place <= offset + size PROVE q = page - 1
  <2>1. PICK r \in 0 .. size - 1 : w = size * (page - 1) + r
    <3>1. w - offset \in 0 .. size - 1 /\ w = size * (page - 1) + (w - offset)
      BY <1>1, <1>4
    <3>2. QED BY <3>1
  <2>2. page - 1 \in Int /\ size \in Nat /\ size > 0
    OBVIOUS
  <2>3. (size * (page - 1) + r) \div size = page - 1
    BY <2>2, DivModIs
  <2>4. QED BY <2>1, <2>3
<1>5. QED BY <1>3, <1>4

(* LIMIT and OFFSET: the rows whose positions the page covers. *)
LEMMA PagedShows ==
  ASSUME NEW S, NEW s \in Seq(S), NEW n, n = Len(s), NEW page \in Positive, NEW size \in Positive,
         NEW offset, offset = Offset(page, size), NEW shown, shown = Paged(s, page, size)
  PROVE  /\ offset \in Nat /\ \A k \in DOMAIN shown : k \in Nat
         /\ \A k \in DOMAIN shown : /\ offset + k \in 1 .. n /\ shown[k] = s[offset + k]
                                    /\ offset < offset + k /\ offset + k <= offset + size
         /\ \A m \in 1 .. n : offset < m /\ m <= offset + size =>
              m - offset \in DOMAIN shown /\ shown[m - offset] = s[m]
<1> USE DEF Positive
<1> DEFINE last == offset + size
           to == IF last < n THEN last ELSE n
<1>1. offset \in Nat
  <2>1. page - 1 \in Nat /\ \A a, b \in Nat : a * b \in Nat
    OBVIOUS
  <2>2. QED BY <2>1 DEF Offset
<1>2. s \in Seq(S) /\ Len(s) = n /\ n \in Nat
  OBVIOUS
<1>3. shown = SubSeq(s, offset + 1, to)
  BY <1>2 DEF Paged, Offset
<1>4. last \in Int /\ to \in Int /\ to <= n /\ to <= last /\ (to = n \/ to = last)
  BY <1>1
<1> HIDE DEF to, last
<1>5. \A i \in offset + 1 .. to : s[i] \in S
  BY <1>1, <1>2, <1>4
<1>6. /\ shown \in Seq(S)
      /\ Len(shown) = IF offset + 1 <= to THEN to - (offset + 1) + 1 ELSE 0
      /\ \A i \in 1 .. to - (offset + 1) + 1 : shown[i] = s[(offset + 1) + i - 1]
  <2>1. LET sub == SubSeq(s, offset + 1, to) IN
        /\ sub \in Seq(S)
        /\ Len(sub) = IF offset + 1 <= to THEN to - (offset + 1) + 1 ELSE 0
        /\ \A i \in 1 .. to - (offset + 1) + 1 : sub[i] = s[(offset + 1) + i - 1]
    BY <1>1, <1>4, <1>5, SubSeqProperties
  <2>2. QED BY <1>3, <2>1
<1>7. DOMAIN shown = 1 .. Len(shown)
  BY <1>6
<1>8. \A k : k \in DOMAIN shown <=> k \in Nat /\ 1 <= k /\ offset + k <= to
  BY <1>1, <1>4, <1>6, <1>7
<1>9. \A k \in DOMAIN shown : shown[k] = s[offset + k]
  <2> SUFFICES ASSUME NEW k \in DOMAIN shown PROVE shown[k] = s[offset + k]
    OBVIOUS
  <2>1. k \in 1 .. to - (offset + 1) + 1 /\ (offset + 1) + k - 1 = offset + k
    BY <1>1, <1>4, <1>8
  <2>2. QED BY <1>6, <2>1
<1>10. ASSUME NEW k \in DOMAIN shown
       PROVE  k \in Nat /\ offset + k \in 1 .. n /\ offset < offset + k /\ offset + k <= last
  BY <1>1, <1>4, <1>8
<1>11. ASSUME NEW m \in 1 .. n, offset < m, m <= last
       PROVE  m - offset \in DOMAIN shown /\ shown[m - offset] = s[m]
  <2>1. m - offset \in DOMAIN shown /\ offset + (m - offset) = m
    BY <1>1, <1>4, <1>8, <1>11
  <2>2. QED BY <1>9, <2>1
<1>12. QED BY <1>1, <1>9, <1>10, <1>11 DEF last
(* A page of a sorted sequence shows whose places it covers. *)
LEMMA OrderedPage ==
  ASSUME NEW S, NEW R, IsFiniteSet(S), Decides(R, S), NEW s \in Sorted(R, S),
         NEW page \in Positive, NEW size \in Positive,
         NEW offset, offset = Offset(page, size), NEW shown, shown = Paged(s, page, size)
  PROVE  /\ offset \in Nat
         /\ \A k \in DOMAIN shown :
              k \in Nat /\ shown[k] \in S /\ PlaceIn(R, S, shown[k]) = offset + k
         /\ \A x \in S : (PlaceIn(R, S, x) - 1) \div size = page - 1
                          <=> \E k \in DOMAIN shown : shown[k] = x
<1> DEFINE n == Cardinality(S)
           place(x) == PlaceIn(R, S, x)
<1>1. /\ n \in Nat /\ s \in Seq(S) /\ n = Len(s)
      /\ \A k \in 1 .. n : s[k] \in S /\ place(s[k]) = k
      /\ \A x \in S : \E k \in 1 .. n : s[k] = x
  <2>1. s \in [1 .. n -> S] /\ n \in Nat
    BY FS_CardinalityType DEF Sorted, SetToSeqs
  <2>2. s \in Seq(S) /\ n = Len(s)
    BY <2>1
  <2>3. QED BY <2>1, <2>2, SortedPlaces
<1>2. /\ offset \in Nat /\ \A k \in DOMAIN shown : k \in Nat
      /\ \A k \in DOMAIN shown : /\ offset + k \in 1 .. n /\ shown[k] = s[offset + k]
                                 /\ offset < offset + k /\ offset + k <= offset + size
      /\ \A m \in 1 .. n : offset < m /\ m <= offset + size =>
           m - offset \in DOMAIN shown /\ shown[m - offset] = s[m]
  BY <1>1, PagedShows
<1>3. \A x \in S : place(x) \in Positive
  BY PlacesInRange DEF Positive
<1> HIDE DEF n, place
<1>4. \A k \in DOMAIN shown : shown[k] \in S /\ place(shown[k]) = offset + k
  BY <1>1, <1>2
<1>5. ASSUME NEW x \in S
      PROVE  (place(x) - 1) \div size = page - 1 <=> \E k \in DOMAIN shown : shown[k] = x
  <2> DEFINE m == place(x)
  <2>1. m \in Positive
    BY <1>3
  <2>2. (m - 1) \div size = page - 1 <=> offset < m /\ m <= offset + size
    BY <2>1, PageOf DEF m
  <2>3. m \in 1 .. n /\ s[m] = x
    <3>1. PICK k \in 1 .. n : s[k] = x
      BY <1>1
    <3>2. m = k
      BY <1>1, <3>1
    <3>3. QED BY <3>1, <3>2
  <2> HIDE DEF m
  <2>4. ASSUME offset < m, m <= offset + size PROVE \E k \in DOMAIN shown : shown[k] = x
    BY <1>2, <2>3, <2>4
  <2>5. ASSUME NEW k \in DOMAIN shown, shown[k] = x PROVE offset < m /\ m <= offset + size
    <3>1. m = offset + k
      BY <1>4, <2>5 DEF m
    <3>2. QED BY <1>2, <3>1
  <2>6. QED BY <2>2, <2>4, <2>5 DEF m
<1>6. QED BY <1>2, <1>4, <1>5 DEF place

LEMMA PagingFacts ==
  ASSUME NEW q, Paging(q)
  PROVE  q.page \in Positive /\ q.page_size \in Positive
BY PageAssumption DEF Paging, Positive

(* page_rows is the page of the rows it selects. *)
THEOREM PageRowsAreRight ==
  ASSUME NEW rows, IsTable(rows), NEW direction \in Directions, NEW q, q.sort \in Sorts,
         Paging(q), NEW bounds
  PROVE  LET board == PageFilter(rows, q, bounds) IN
         PageIsRight(rows, direction, q, board, Cardinality(board),
                     page_rows(rows, direction, q, bounds))
<1> DEFINE board == PageFilter(rows, q, bounds)
           R == BoardOrder(rows, direction, q.sort)
           precedes(i, j) == Precedes(rows, direction, q.sort, i, j)
           ordered == CHOOSE s \in SetToSeqs(board) :
                        \A i, j \in DOMAIN s : i < j => precedes(s[i], s[j])
           ids == Paged(ordered, q.page, q.page_size)
           page == page_rows(rows, direction, q, bounds)
           offset == Offset(q.page, q.page_size)
           place(i) == Place(rows, direction, q.sort, board, i)
<1>1. board \in SUBSET Ids(rows)
  BY DEF PageFilter
<1>2. IsFiniteSet(board) /\ Decides(R, board)
  BY <1>1, BoardOrderDecides
<1>3. page = [i \in DOMAIN ids |-> [rank |-> offset + i, id |-> ids[i]]]
  BY DEF page_rows, OrderBy, Offset
<1>4. \A i, j \in board : <<i, j>> \in R <=> precedes(i, j)
  BY <1>1 DEF BoardOrder
<1> HIDE DEF board, R, precedes, page
<1>5. ordered \in Sorted(R, board)
  <2>1. \A s \in SetToSeqs(board) : \A i \in DOMAIN s : s[i] \in board
    BY DEF SetToSeqs
  <2>2. \E s \in SetToSeqs(board) : \A i, j \in DOMAIN s : i < j => <<s[i], s[j]>> \in R
    BY <1>2, SortedExists
  <2>3. PICK s \in SetToSeqs(board) : \A i, j \in DOMAIN s : i < j => <<s[i], s[j]>> \in R
    BY <2>2
  <2>b. \A i, j \in DOMAIN s : i < j => precedes(s[i], s[j])
    BY <1>4, <2>1, <2>3
  <2>4. /\ ordered \in SetToSeqs(board)
        /\ \A i, j \in DOMAIN ordered : i < j => precedes(ordered[i], ordered[j])
    BY <2>3, <2>b
  <2> HIDE DEF ordered
  <2>5. QED BY <1>4, <2>1, <2>4 DEF Sorted
<1> HIDE DEF ordered
<1>6. q.page \in Positive /\ q.page_size \in Positive
  BY PagingFacts
<1>a. ids = Paged(ordered, q.page, q.page_size) /\ offset = Offset(q.page, q.page_size)
  OBVIOUS
<1> HIDE DEF ids, offset
<1>7. /\ offset \in Nat
      /\ \A k \in DOMAIN ids : k \in Nat /\ ids[k] \in board /\ PlaceIn(R, board, ids[k]) = offset + k
      /\ \A i \in board : (PlaceIn(R, board, i) - 1) \div q.page_size = q.page - 1
                            <=> \E k \in DOMAIN ids : ids[k] = i
  BY <1>2, <1>5, <1>6, <1>a, OrderedPage
<1>8. \A i \in board : place(i) = PlaceIn(R, board, i)
  BY <1>1, PlaceIsPlace DEF R
<1> HIDE DEF place
<1>9. \A i \in board : (place(i) - 1) \div q.page_size = q.page - 1
                        <=> \E k \in DOMAIN page : page[k] = [rank |-> place(i), id |-> i]
  <2> SUFFICES ASSUME NEW i \in board
               PROVE  (\E k \in DOMAIN ids : ids[k] = i)
                        <=> \E k \in DOMAIN page : page[k] = [rank |-> place(i), id |-> i]
    BY <1>7, <1>8
  <2>1. \A k \in DOMAIN ids : page[k] = [rank |-> offset + k, id |-> ids[k]]
    BY <1>3
  <2>2. DOMAIN page = DOMAIN ids
    BY <1>3
  <2>3. \A k \in DOMAIN ids : place(ids[k]) = offset + k
    BY <1>7, <1>8
  <2>4. ASSUME NEW k \in DOMAIN ids, page[k] = [rank |-> place(i), id |-> i] PROVE ids[k] = i
    <3>1. [rank |-> place(i), id |-> i] = [rank |-> offset + k, id |-> ids[k]]
      BY <2>1, <2>4
    <3>2. QED BY <3>1
  <2>5. QED BY <2>1, <2>2, <2>3, <2>4
<1>10. \A k \in DOMAIN page : page[k].id \in board
  BY <1>3, <1>7
<1>11. QED BY <1>9, <1>10 DEF PageIsRight, place, board, page
-------------------------------------------------------------------------------
(* Champions. *)
LEMMA WinnersFinite ==
  ASSUME NEW rows, IsTable(rows), NEW direction, NEW q
  PROVE  LET winners == seed_winners(rows, direction, q)
             players == {rows[i].player : i \in winners} IN
         /\ winners \in SUBSET base_filter(rows, q) /\ base_filter(rows, q) \in SUBSET Ids(rows)
         /\ IsFiniteSet(winners) /\ IsFiniteSet(players) /\ players \in SUBSET Nat
         /\ \A p : wins(rows, winners, p) \in Nat
<1> DEFINE winners == seed_winners(rows, direction, q)
           players == {rows[i].player : i \in winners}
           f == [i \in winners |-> rows[i].player]
<1>1. winners \in SUBSET base_filter(rows, q) /\ base_filter(rows, q) \in SUBSET Ids(rows)
  BY DEF seed_winners, base_filter
<1> HIDE DEF winners
<1>2. winners \in SUBSET Ids(rows) /\ IsFiniteSet(winners)
  BY <1>1, FS_Subset DEF IsTable
<1>3. f \in Surjection(winners, players)
  BY DEF Surjection
<1>4. IsFiniteSet(players)
  BY <1>2, <1>3, FS_Surjection
<1>5. players \in SUBSET Nat
  BY <1>2 DEF IsTable
<1>6. ASSUME NEW p PROVE wins(rows, winners, p) \in Nat
  <2>1. {i \in winners : rows[i].player = p} \in SUBSET winners
    OBVIOUS
  <2>2. QED BY <1>2, <2>1, FS_Subset, FS_CardinalityType DEF wins
<1>7. QED BY <1>1, <1>2, <1>4, <1>5, <1>6 DEF winners

(* The most wins first, then by name, decides between any two players. *)
ChampionOrder(rows, winners) ==
  {p \in Nat \X Nat :
     \/ wins(rows, winners, p[1]) > wins(rows, winners, p[2])
     \/ wins(rows, winners, p[1]) = wins(rows, winners, p[2]) /\ p[1] < p[2]}

LEMMA ChampionOrderDecides ==
  ASSUME NEW rows, NEW winners, NEW players \in SUBSET Nat,
         \A p : wins(rows, winners, p) \in Nat
  PROVE  Decides(ChampionOrder(rows, winners), players)
<1> DEFINE R == ChampionOrder(rows, winners)
           won(p) == wins(rows, winners, p)
<1>1. \A p, o \in Nat : <<p, o>> \in R <=> won(p) > won(o) \/ (won(p) = won(o) /\ p < o)
  BY DEF ChampionOrder
<1>2. \A p : won(p) \in Nat
  OBVIOUS
<1> HIDE DEF R, won
<1>3. \A p \in Nat : <<p, p>> \notin R
  BY <1>1, <1>2
<1>4. \A p, o \in Nat : p # o => <<p, o>> \in R \/ <<o, p>> \in R
  BY <1>1, <1>2
<1>5. ASSUME NEW p \in Nat, NEW o \in Nat, NEW r \in Nat, <<p, o>> \in R, <<o, r>> \in R
      PROVE  <<p, r>> \in R
  <2>1. won(p) \in Nat /\ won(o) \in Nat /\ won(r) \in Nat
    BY <1>2
  <2>2. QED BY <1>1, <1>5, <2>1
<1>6. QED BY <1>3, <1>4, <1>5 DEF Decides, R

WinnersOf(rows, direction, q) == {rows[i].player : i \in seed_winners(rows, direction, q)}

(* One page of champions: each player of the page at its place, with its     *)
(* wins, and the total is the number of players who lead a seed.             *)
THEOREM ChampionsAreRight ==
  ASSUME NEW rows, IsTable(rows), NEW direction, NEW q, Paging(q)
  PROVE  LET winners == seed_winners(rows, direction, q)
             players == WinnersOf(rows, direction, q)
             place(p) == PlaceIn(ChampionOrder(rows, winners), players, p)
             page == champions_page(rows, direction, q) IN
         /\ total_champions(rows, direction, q) = Cardinality(players)
         /\ \A k \in DOMAIN page : page[k].player \in players
         /\ \A p \in players :
              (place(p) - 1) \div q.page_size = q.page - 1
                <=> \E k \in DOMAIN page :
                      page[k] = [rank |-> place(p), player |-> p, wins |-> wins(rows, winners, p)]
<1> DEFINE winners == seed_winners(rows, direction, q)
           players == WinnersOf(rows, direction, q)
           R == ChampionOrder(rows, winners)
           won(p) == wins(rows, winners, p)
           place(p) == PlaceIn(R, players, p)
           before(p, o) == won(p) > won(o) \/ (won(p) = won(o) /\ p < o)
           ordered == CHOOSE s \in SetToSeqs(players) :
                        \A i, j \in DOMAIN s : i < j => before(s[i], s[j])
           grouped == [i \in DOMAIN ordered |->
                         [rank |-> i, player |-> ordered[i], wins |-> won(ordered[i])]]
           page == Paged(grouped, q.page, q.page_size)
           offset == Offset(q.page, q.page_size)
<1>1. winners_grouped(rows, direction, q) = grouped
  BY DEF winners_grouped, OrderBy, WinnersOf
<1>2. champions_page(rows, direction, q) = page
  BY <1>1 DEF champions_page
<1>3. total_champions(rows, direction, q) = Len(grouped)
  BY <1>1 DEF total_champions
<1>4. IsFiniteSet(players) /\ players \in SUBSET Nat /\ \A p : won(p) \in Nat
  BY WinnersFinite DEF WinnersOf
<1> HIDE DEF winners, players
<1>5. Decides(R, players)
  BY <1>4, ChampionOrderDecides
<1>6. \A p, o \in players : <<p, o>> \in R <=> before(p, o)
  BY <1>4 DEF ChampionOrder
<1> HIDE DEF R, before, won, page
<1>7. ordered \in Sorted(R, players)
  <2>1. \A s \in SetToSeqs(players) : \A i \in DOMAIN s : s[i] \in players
    BY DEF SetToSeqs
  <2>2. PICK s \in SetToSeqs(players) : \A i, j \in DOMAIN s : i < j => <<s[i], s[j]>> \in R
    BY <1>4, <1>5, SortedExists
  <2>3. \A i, j \in DOMAIN s : i < j => before(s[i], s[j])
    BY <1>6, <2>1, <2>2
  <2>4. /\ ordered \in SetToSeqs(players)
        /\ \A i, j \in DOMAIN ordered : i < j => before(ordered[i], ordered[j])
    BY <2>2, <2>3
  <2> HIDE DEF ordered
  <2>5. QED BY <1>6, <2>1, <2>4 DEF Sorted
<1> HIDE DEF ordered
<1>8. /\ Cardinality(players) \in Nat /\ DOMAIN ordered = 1 .. Cardinality(players)
      /\ \A k \in DOMAIN ordered : ordered[k] \in players /\ place(ordered[k]) = k
      /\ \A p \in players : \E k \in DOMAIN ordered : ordered[k] = p
  BY <1>4, <1>5, <1>7, SortedPlaces
<1> DEFINE entry(k) == [rank |-> k, player |-> ordered[k], wins |-> won(ordered[k])]
           Entry == {entry(k) : k \in DOMAIN ordered}
<1>9. grouped \in Seq(Entry) /\ Len(grouped) = Cardinality(players)
  BY <1>8
<1>10. \A k \in 1 .. Cardinality(players) : grouped[k] = entry(k)
  BY <1>8
<1>11. q.page \in Positive /\ q.page_size \in Positive
  BY PagingFacts
<1>12. page = Paged(grouped, q.page, q.page_size)
  BY DEF page
<1> HIDE DEF offset, grouped, Entry
<1>13. /\ offset \in Nat /\ \A k \in DOMAIN page : k \in Nat
       /\ \A k \in DOMAIN page : /\ offset + k \in 1 .. Cardinality(players)
                                 /\ page[k] = grouped[offset + k]
                                 /\ offset < offset + k /\ offset + k <= offset + q.page_size
       /\ \A m \in 1 .. Cardinality(players) : offset < m /\ m <= offset + q.page_size =>
            m - offset \in DOMAIN page /\ page[m - offset] = grouped[m]
  BY <1>9, <1>11, <1>12, PagedShows DEF offset
<1>14. \A k \in DOMAIN page : page[k].player \in players
  <2> SUFFICES ASSUME NEW k \in DOMAIN page PROVE page[k].player \in players
    OBVIOUS
  <2>1. page[k] = entry(offset + k) /\ offset + k \in DOMAIN ordered
    BY <1>8, <1>10, <1>13
  <2>2. QED BY <1>8, <2>1
<1>15. ASSUME NEW p \in players
       PROVE  (place(p) - 1) \div q.page_size = q.page - 1
                <=> \E k \in DOMAIN page :
                      page[k] = [rank |-> place(p), player |-> p, wins |-> won(p)]
  <2> DEFINE m == place(p)
             shown == [rank |-> m, player |-> p, wins |-> won(p)]
  <2>1. m \in 1 .. Cardinality(players) /\ ordered[m] = p
    BY <1>8
  <2>2. grouped[m] = shown
    BY <1>10, <2>1
  <2>3. m \in Positive
    BY <2>1 DEF Positive
  <2> HIDE DEF m
  <2>4. (m - 1) \div q.page_size = q.page - 1 <=> offset < m /\ m <= offset + q.page_size
    BY <1>11, <2>3, PageOf DEF offset
  <2>5. ASSUME offset < m, m <= offset + q.page_size
        PROVE  \E k \in DOMAIN page : page[k] = shown
    BY <1>13, <2>1, <2>2, <2>5
  <2>6. ASSUME NEW k \in DOMAIN page, page[k] = shown
        PROVE  offset < m /\ m <= offset + q.page_size
    <3>1. entry(offset + k) = shown
      BY <1>10, <1>13, <2>6
    <3>2. m = offset + k
      BY <3>1
    <3>3. QED BY <1>13, <3>2
  <2>7. QED BY <2>4, <2>5, <2>6 DEF m
<1>16. QED BY <1>2, <1>3, <1>9, <1>14, <1>15 DEF winners, players, R, won
SeedRows(rows, q, seed) == {j \in base_filter(rows, q) : rows[j].seed = seed}

(* A winner is who has the first place on its seed's board. *)
LEMMA WinnersLead ==
  ASSUME NEW rows, IsTable(rows), NEW direction \in Directions, NEW q,
         NEW i \in base_filter(rows, q)
  PROVE  i \in seed_winners(rows, direction, q)
           <=> PlaceIn(BoardOrder(rows, direction, "score"), SeedRows(rows, q, rows[i].seed), i) = 1
<1> DEFINE R == BoardOrder(rows, direction, "score")
           board == SeedRows(rows, q, rows[i].seed)
<1>1. base_filter(rows, q) \in SUBSET Ids(rows)
  BY DEF base_filter
<1>2. board \in SUBSET Ids(rows) /\ i \in board
  BY <1>1 DEF SeedRows
<1>3. "score" \in Sorts
  BY DEF Sorts
<1>4. Decides(R, board) /\ IsFiniteSet(board)
  BY <1>2, <1>3, BoardOrderDecides
<1>5. PlaceIn(R, board, i) = 1 <=> \A j \in board \ {i} : <<i, j>> \in R
  BY <1>2, <1>4, FirstPlace
<1>6. \A j \in Ids(rows) : <<i, j>> \in R <=> Precedes(rows, direction, "score", i, j)
  BY <1>1 DEF BoardOrder
<1>7. i \in seed_winners(rows, direction, q)
        <=> \A j \in board \ {i} : Precedes(rows, direction, "score", i, j)
  BY DEF seed_winners, SeedRows
<1>8. QED BY <1>2, <1>5, <1>6, <1>7

(* Every seed that anyone played has exactly one winner. *)
THEOREM OneWinnerPerSeed ==
  ASSUME NEW rows, IsTable(rows), NEW direction \in Directions, NEW q
  PROVE  Cardinality(seed_winners(rows, direction, q)) = total_seeds(rows, q)
<1> DEFINE R == BoardOrder(rows, direction, "score")
           eligible == base_filter(rows, q)
           winners == seed_winners(rows, direction, q)
           seeds == {rows[i].seed : i \in eligible}
           f == [i \in winners |-> rows[i].seed]
<1>1. winners \in SUBSET eligible /\ eligible \in SUBSET Ids(rows) /\ IsFiniteSet(winners)
  BY WinnersFinite
<1>2. "score" \in Sorts
  BY DEF Sorts
<1>3. Decides(R, eligible)
  BY <1>1, <1>2, BoardOrderDecides
<1>4. ASSUME NEW i \in winners, NEW j \in winners, f[i] = f[j] PROVE i = j
  <2>1. SUFFICES ASSUME i # j PROVE FALSE
    OBVIOUS
  <2>2. rows[i].seed = rows[j].seed
    BY <1>4
  <2>3. /\ Precedes(rows, direction, "score", i, j)
        /\ Precedes(rows, direction, "score", j, i)
    BY <2>1, <2>2 DEF seed_winners
  <2>4. i \in eligible /\ j \in eligible /\ <<i, j>> \in R /\ <<j, i>> \in R
    BY <1>1, <2>3 DEF BoardOrder
  <2> HIDE DEF R, winners, eligible
  <2>5. QED BY <1>3, <2>4 DEF Decides
<1>5. ASSUME NEW seed \in seeds PROVE \E i \in winners : f[i] = seed
  <2> DEFINE board == SeedRows(rows, q, seed)
  <2>1. board \in SUBSET Ids(rows) /\ board # {}
    BY <1>1 DEF SeedRows
  <2>2. Decides(R, board) /\ IsFiniteSet(board)
    BY <1>2, <2>1, BoardOrderDecides
  <2>3. 1 \in 1 .. Cardinality(board)
    BY <2>1, <2>2, FS_EmptySet, FS_CardinalityType
  <2>4. PICK i \in board : PlaceIn(R, board, i) = 1
    BY <2>2, <2>3, PlacesTaken
  <2>5. i \in eligible /\ rows[i].seed = seed
    BY DEF SeedRows
  <2>6. i \in winners
    BY <2>4, <2>5, WinnersLead
  <2>7. QED BY <2>5, <2>6
<1>6. f \in [winners -> seeds]
  BY <1>1
<1>7. f \in Injection(winners, seeds) /\ f \in Surjection(winners, seeds)
  <2> HIDE DEF f, winners, seeds
  <2>1. DOMAIN f = winners
    BY <1>6
  <2>2. QED BY <1>4, <1>5, <1>6, <2>1 DEF Injection, Surjection, IsInjective
<1> HIDE DEF f, winners, seeds
<1>8. Cardinality(seeds) = Cardinality(winners) <=> f \in Injection(winners, seeds)
  BY <1>1, <1>7, FS_Surjection
<1>9. QED BY <1>7, <1>8 DEF total_seeds, winners, seeds
(* Without its winner, a seed's board is led by the runner-up, and the other *)
(* boards are as they were.                                                  *)
LEMMA WithoutWinner ==
  ASSUME NEW rows, IsTable(rows), NEW direction \in Directions, NEW q,
         NEW i \in seed_winners(rows, direction, q),
         NEW after, Ids(after) = Ids(rows), after[i].deleted,
         \A j \in Ids(rows) : /\ after[j].score = rows[j].score /\ after[j].seed = rows[j].seed
                              /\ after[j].submitted_at = rows[j].submitted_at
                              /\ j # i => after[j] = rows[j]
  PROVE  seed_winners(after, direction, q) =
           (seed_winners(rows, direction, q) \ {i})
           \cup {j \in SeedRows(rows, q, rows[i].seed) :
                   PlaceIn(BoardOrder(rows, direction, "score"),
                           SeedRows(rows, q, rows[i].seed), j) = 2}
<1> DEFINE R == BoardOrder(rows, direction, "score")
           eligible == base_filter(rows, q)
           board == SeedRows(rows, q, rows[i].seed)
           winners == seed_winners(rows, direction, q)
           left == seed_winners(after, direction, q)
<1>1. winners \in SUBSET eligible /\ eligible \in SUBSET Ids(rows)
  BY WinnersFinite
<1>2. i \in eligible /\ i \in board /\ board \in SUBSET eligible
  BY <1>1 DEF SeedRows
<1>3. "score" \in Sorts
  BY DEF Sorts
<1>4. Decides(R, board) /\ IsFiniteSet(board) /\ Decides(R, eligible)
  BY <1>1, <1>2, <1>3, BoardOrderDecides
<1>5. base_filter(after, q) = eligible \ {i}
  <2>1. ASSUME NEW j \in Ids(rows), j # i
        PROVE  j \in base_filter(after, q) <=> j \in base_filter(rows, q)
    <3>1. after[j] = rows[j]
      BY <2>1
    <3>2. QED BY <3>1 DEF base_filter
  <2>2. i \notin base_filter(after, q) /\ base_filter(after, q) \in SUBSET Ids(rows)
    BY DEF base_filter
  <2>3. QED BY <1>1, <2>1, <2>2
<1>6. ASSUME NEW j \in eligible, NEW k \in eligible
      PROVE  Precedes(after, direction, "score", j, k) <=> <<j, k>> \in R
  <2>1. /\ after[j].score = rows[j].score /\ after[j].submitted_at = rows[j].submitted_at
        /\ after[k].score = rows[k].score /\ after[k].submitted_at = rows[k].submitted_at
    BY <1>1
  <2>2. /\ Better(direction, "score", after[j], after[k])
             <=> Better(direction, "score", rows[j], rows[k])
        /\ Better(direction, "score", after[k], after[j])
             <=> Better(direction, "score", rows[k], rows[j])
    BY <2>1 DEF Better
  <2>3. Precedes(after, direction, "score", j, k) <=> Precedes(rows, direction, "score", j, k)
    BY <2>1, <2>2 DEF Precedes
  <2>4. QED BY <1>1, <2>3 DEF BoardOrder
<1>7. \A j, k \in eligible :
        Precedes(rows, direction, "score", j, k) <=> <<j, k>> \in R
  BY <1>1 DEF BoardOrder
<1>8. \A j : j \in left <=>
        /\ j \in eligible \ {i}
        /\ \A k \in eligible \ {i, j} : rows[k].seed = rows[j].seed => <<j, k>> \in R
  <2>1. \A j : j \in left <=>
          /\ j \in eligible \ {i}
          /\ \A k \in (eligible \ {i}) \ {j} :
               after[k].seed = after[j].seed => Precedes(after, direction, "score", j, k)
    BY <1>5 DEF seed_winners
  <2>2. \A j \in eligible : after[j].seed = rows[j].seed
    BY <1>1
  <2> HIDE DEF left, eligible, R
  <2>3. QED BY <1>6, <2>1, <2>2
<1>9. \A j : j \in winners <=>
        /\ j \in eligible
        /\ \A k \in eligible \ {j} : rows[k].seed = rows[j].seed => <<j, k>> \in R
  BY <1>7 DEF seed_winners
<1>10. \A j : j \in board <=> j \in eligible /\ rows[j].seed = rows[i].seed
  BY DEF SeedRows
<1>11. \A j \in board \ {i} : <<i, j>> \in R /\ j \notin winners
  BY <1>2, <1>4, <1>9, <1>10 DEF Decides
<1> HIDE DEF R, eligible, board, winners, left
<1>12. ASSUME NEW j \in eligible \ board PROVE j \in left <=> j \in winners \ {i}
  BY <1>2, <1>8, <1>9, <1>10, <1>12
<1>13. ASSUME NEW j \in board \ {i} PROVE j \in left <=> PlaceIn(R, board, j) = 2
  <2>1. PlaceIn(R, board, j) = 2 <=> \E w \in board : Ahead(R, board, j) = {w}
    BY <1>4, SecondPlace
  <2>2. i \in Ahead(R, board, j)
    BY <1>2, <1>11 DEF Ahead
  <2>3. PlaceIn(R, board, j) = 2 <=> \A k \in board \ {i} : <<k, j>> \notin R
    BY <1>2, <2>1, <2>2 DEF Ahead
  <2>4. \A k \in board \ {i} : <<k, j>> \notin R <=> (k = j \/ <<j, k>> \in R)
    BY <1>4, <1>13 DEF Decides
  <2>5. j \in left <=> \A k \in board \ {i, j} : <<j, k>> \in R
    BY <1>2, <1>8, <1>10, <1>13
  <2>6. QED BY <2>3, <2>4, <2>5
<1>14. i \notin left /\ PlaceIn(R, board, i) # 2
  <2>1. PlaceIn(R, board, i) = 1
    BY <1>1, <1>2, WinnersLead DEF R, board, winners, eligible
  <2>2. QED BY <1>8, <2>1
<1>15. left = (winners \ {i}) \cup {j \in board : PlaceIn(R, board, j) = 2}
  <2> DEFINE second == {j \in board : PlaceIn(R, board, j) = 2}
  <2>1. \A j \in eligible \ board : j \in left <=> j \in winners \ {i}
    BY <1>12
  <2>2. \A j \in board \ {i} : j \notin winners /\ (j \in left <=> j \in second)
    BY <1>11, <1>13
  <2>3. i \notin left /\ i \notin second /\ second \in SUBSET board
    BY <1>14
  <2>4. left \in SUBSET eligible /\ winners \in SUBSET eligible /\ board \in SUBSET eligible
    BY <1>1, <1>2, <1>8
  <2> HIDE DEF second
  <2>5. left = (winners \ {i}) \cup second
    BY <2>1, <2>2, <2>3, <2>4
  <2>6. QED BY <2>5 DEF second
<1>16. QED BY <1>15 DEF R, board, winners, left
===============================================================================
