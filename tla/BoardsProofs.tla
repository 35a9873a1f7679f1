----------------------------- MODULE BoardsProofs -----------------------------
(***************************************************************************)
(* Proofs about Boards, for any number of rows and submitters.  What one   *)
(* statement returns is in RankingProofs; here it is put together with     *)
(* what happens between the statements.                                    *)
(*                                                                         *)
(* A window which is over settles because a submission is dated by the     *)
(* start of its own transaction, which is past when it commits             *)
(* (TimesArePast), so that one that began late enough cannot fall in it.   *)
(* A page or a tally is right because a reader that nothing has disturbed  *)
(* holds, from its earlier statements, what they would return now          *)
(* (ReaderHolds).                                                          *)
(***************************************************************************)
EXTENDS Boards, RankingProofs

PayloadType == [player : Nat, score : Int, seed : SUBSET STRING, played_at : SUBSET Int]

LEMMA BoundsTyped ==
  ASSUME NEW zone \in Zone, NEW range \in Periods, NEW utc \in Int
  PROVE  range_to_bounds(range, zone, utc) \in [start : Int, end : Int]
<1> DEFINE w == ToLocal(zone, utc).wall
           f == ToLocal(zone, utc).fold
<1>1. w \in Int /\ f \in {0, 1} /\ ToLocal(zone, utc) = [wall |-> w, fold |-> f]
  BY LocalFacts
<1>2. PICK s, e \in Int :
        LET start == [wall |-> s, fold |-> StartFold(range, f)] IN
        /\ start_local(range, [wall |-> w, fold |-> f]) = start
        /\ end_local(range, start) = [wall |-> e, fold |-> EndFold(range, f)]
        /\ IsPeriod(range, s, e, w)
  BY <1>1, Period
<1>3. \A wall \in Int : \A fold : ToUtc(zone, [wall |-> wall, fold |-> fold]) \in Int
  BY DEF ToUtc, Zone
<1>4. QED BY <1>1, <1>2, <1>3 DEF range_to_bounds

LEMMA PagingTyped ==
  ASSUME NEW q, q.page \in Int, q.page_size \in Int
  PROVE  ClampedPage(q) \in Nat \ {0} /\ ClampedSize(q) \in 1 .. MAX_PAGE_SIZE
BY PageAssumption DEF ClampedPage, ClampedSize

LEMMA TallyTyped ==
  ASSUME NEW query \in ChampionsQuery
  PROVE  normalize_champions(query) \in ChampionsQuery /\ Paging(normalize_champions(query))
<1> DEFINE q == normalize_champions(query)
<1>1. /\ ClampedPage(query) \in Nat \ {0} /\ ClampedSize(query) \in 1 .. MAX_PAGE_SIZE
      /\ ClampedPage(query) \in Int /\ ClampedSize(query) \in Int
  BY PagingTyped, PageAssumption DEF ChampionsQuery
<1>2. q \in ChampionsQuery
  BY <1>1 DEF normalize_champions, ChampionsQuery
<1>3. q.page = ClampedPage(query) /\ q.page_size = ClampedSize(query)
  BY DEF normalize_champions
<1>4. QED BY <1>1, <1>2, <1>3 DEF Paging

LEMMA PageTyped ==
  ASSUME NEW query \in LeaderboardQuery
  PROVE  /\ normalize(query) \in LeaderboardQuery /\ normalize(query).sort \in Sorts
         /\ Paging(normalize(query))
<1> DEFINE q == normalize(query)
           sort == IF query.sort \in Sorts THEN query.sort ELSE "score"
<1>1. /\ ClampedPage(query) \in Nat \ {0} /\ ClampedSize(query) \in 1 .. MAX_PAGE_SIZE
      /\ ClampedPage(query) \in Int /\ ClampedSize(query) \in Int
  <2>1. query.page \in Int /\ query.page_size \in Int
    BY DEF LeaderboardQuery
  <2>2. QED BY <2>1, PagingTyped, PageAssumption
<1>2. q.page = ClampedPage(query) /\ q.page_size = ClampedSize(query) /\ q.sort = sort
  BY DEF normalize
<1>3. sort \in Sorts
  BY DEF Sorts
<1> HIDE DEF sort
<1>4. q \in LeaderboardQuery
  BY <1>1, <1>3 DEF normalize, LeaderboardQuery, sort
<1>5. QED BY <1>1, <1>2, <1>3, <1>4 DEF Paging

-------------------------------------------------------------------------------
(* The rows stay a table, and none is dated in the future. *)
RowsInv ==
  /\ rows \in Seq(Row)
  /\ \A i \in Ids(rows) : AtMostOne(rows[i].played_at)
  /\ \A i \in Ids(rows) : rows[i].submitted_at <= now

LEMMA CommitKeepsRows ==
  ASSUME TypeOK, TimesArePast, NEW s \in Submitters, NEW payload \in Payloads, Commit(s, payload)
  PROVE  RowsInv'
<1> DEFINE row == NewRow(payload, submitter[s].began)
<1>1. submitter[s] \in [at : {"open"}, began : Instants] /\ submitter[s].began <= now
  BY DEF Commit, TypeOK, TimesArePast
<1>2. payload \in PayloadType
  BY RowsAssumption DEF PayloadType
<1>3. row \in Row /\ row.submitted_at <= now /\ AtMostOne(row.played_at)
  BY <1>1, <1>2, RowsAssumption, InstantsAssumption DEF NewRow, Row, PayloadType
<1> HIDE DEF row
<1>4. rows' = Append(rows, row) /\ now' = now /\ rows \in Seq(Row)
  BY DEF Commit, TypeOK, row
<1>5. /\ rows' \in Seq(Row) /\ Len(rows') = Len(rows) + 1
      /\ \A i \in 1 .. Len(rows) : rows'[i] = rows[i]
      /\ rows'[Len(rows) + 1] = row
  BY <1>3, <1>4, AppendProperties
<1>6. DOMAIN rows = 1 .. Len(rows) /\ DOMAIN rows' = 1 .. Len(rows') /\ Len(rows) \in Nat
  BY <1>4, <1>5
<1>7. QED BY <1>3, <1>4, <1>5, <1>6 DEF RowsInv, TypeOK, TimesArePast, Ids

LEMMA ModerateKeepsRows ==
  ASSUME TypeOK, TimesArePast, NEW i \in Ids(rows), Moderate(i)
  PROVE  RowsInv'
<1> DEFINE row == [rows[i] EXCEPT !.deleted = ~rows[i].deleted]
<1>1. rows \in Seq(Row) /\ i \in 1 .. Len(rows) /\ now' = now
  BY DEF TypeOK, Ids, Moderate
<1>2. rows[i] \in Row
  BY <1>1
<1>3. /\ row \in Row /\ row.submitted_at = rows[i].submitted_at
      /\ row.played_at = rows[i].played_at
  BY <1>2 DEF Row
<1>4. rows' = [rows EXCEPT ![i] = row]
  BY DEF Moderate
<1> HIDE DEF row
<1>5. /\ rows' \in Seq(Row) /\ Len(rows') = Len(rows)
      /\ \A j \in 1 .. Len(rows) : rows'[j] = IF j = i THEN row ELSE rows[j]
  BY <1>1, <1>3, <1>4, ExceptSeq
<1>6. ASSUME NEW j \in 1 .. Len(rows)
      PROVE  rows'[j].submitted_at <= now /\ AtMostOne(rows'[j].played_at)
  <2>1. rows[j].submitted_at <= now /\ AtMostOne(rows[j].played_at)
    BY <1>1 DEF TypeOK, TimesArePast, Ids
  <2>2. rows'[j] = IF j = i THEN row ELSE rows[j]
    BY <1>5
  <2>3. QED BY <1>3, <2>1, <2>2
<1>7. Ids(rows') = 1 .. Len(rows)
  BY <1>5 DEF Ids
<1>8. QED BY <1>1, <1>5, <1>6, <1>7 DEF RowsInv, Ids

(* The submitters and the reader. *)
OthersInv ==
  /\ game \in Setups /\ now \in Instants
  /\ submitter \in [Submitters -> [at : {"ready"}] \cup [at : {"open"}, began : Instants]]
  /\ \A s \in Submitters : submitter[s].at = "open" => submitter[s].began <= now
ReaderInv ==
  /\ reader.at \in {"ready", "count", "page", "champions", "tally", "done"}
  /\ reader.at \in {"count", "page"} =>
       /\ reader.query \in LeaderboardQuery /\ reader.query.sort \in Sorts
       /\ Paging(reader.query) /\ reader.bounds \in BoundsType
  /\ reader.at \in {"champions", "tally"} =>
       reader.tally \in ChampionsQuery /\ Paging(reader.tally)
  /\ Reading => "quiet" \in DOMAIN reader /\ reader.quiet \in BOOLEAN

LEMMA Parts == IInv <=> RowsInv /\ OthersInv /\ ReaderInv /\ ReaderHolds
BY DEF IInv, TypeOK, TimesArePast, RowsInv, OthersInv, ReaderInv

LEMMA PartsNext == RowsInv' /\ OthersInv' /\ ReaderInv' /\ ReaderHolds' => IInv'
BY DEF IInv, TypeOK, TimesArePast, RowsInv, OthersInv, ReaderInv

LEMMA DisturbKeepsReader ==
  ASSUME ReaderInv, Disturb
  PROVE  ReaderInv' /\ ReaderHolds' /\ reader'.at = reader.at
<1>1. CASE ~Reading
  BY <1>1 DEF ReaderInv, ReaderHolds, Disturb, Reading
<1>2. CASE Reading
  <2>1. reader' = [reader EXCEPT !.quiet = FALSE]
    BY <1>2 DEF Disturb
  <2>2. /\ reader'.at = reader.at /\ reader'.query = reader.query
        /\ reader'.bounds = reader.bounds /\ reader'.tally = reader.tally
    BY <2>1
  <2>3. "quiet" \in DOMAIN reader' /\ reader'.quiet = FALSE
    BY <1>2, <2>1 DEF ReaderInv
  <2>4. QED BY <2>2, <2>3 DEF ReaderInv, ReaderHolds, Reading
<1>3. QED BY <1>1, <1>2

(* Nothing a reader has got depends on the submitters. *)
LEMMA SteadyKeepsReader ==
  ASSUME ReaderInv, ReaderHolds, UNCHANGED <<game, rows, now, reader>>
  PROVE  ReaderInv' /\ ReaderHolds'
BY DEF ReaderInv, ReaderHolds, Reading, Bounds

LEMMA ReadKeepsReader ==
  ASSUME TypeOK, ReaderHolds, Read
  PROVE  ReaderInv' /\ ReaderHolds'
<1>0. UNCHANGED <<game, rows, now>>
  BY DEF Read, ReadPage, Count, Page, ReadTally, CountChampions, Tally
<1>a. \A range : Bounds(range)' = Bounds(range)
  BY <1>0 DEF Bounds
<1>1. ASSUME NEW query \in Pages, ReadPage(query) PROVE ReaderInv' /\ ReaderHolds'
  <2> DEFINE q == normalize(query)
  <2>1. q \in LeaderboardQuery /\ q.sort \in Sorts /\ Paging(q)
    BY QueriesAssumption, PageTyped
  <2> HIDE DEF q
  <2>2. q.range \in VALID_RANGES
    BY <2>1 DEF LeaderboardQuery
  <2>3. game.zone \in Zone /\ now \in Int
    BY SetupsAssumption, InstantsAssumption DEF TypeOK
  <2>4. Bounds(q.range) \in BoundsType
    BY <2>2, <2>3, BoundsTyped DEF Bounds, BoundsType, VALID_RANGES
  <2>5. reader' = [at |-> "count", query |-> q, bounds |-> Bounds(q.range), quiet |-> TRUE]
    BY <1>1 DEF ReadPage, q
  <2>6. QED BY <1>a, <2>1, <2>4, <2>5 DEF ReaderInv, ReaderHolds, Reading
<1>2. ASSUME Count PROVE ReaderInv' /\ ReaderHolds'
  BY <1>0, <1>a, <1>2 DEF Count, TypeOK, ReaderInv, ReaderHolds, Reading
<1>3. ASSUME Page PROVE ReaderInv' /\ ReaderHolds'
  BY <1>3 DEF Page, ReaderInv, ReaderHolds, Reading
<1>4. ASSUME NEW query \in Tallies, ReadTally(query) PROVE ReaderInv' /\ ReaderHolds'
  <2> DEFINE q == normalize_champions(query)
  <2>1. q \in ChampionsQuery /\ Paging(q)
    BY QueriesAssumption, TallyTyped
  <2> HIDE DEF q
  <2>2. reader' = [at |-> "champions", tally |-> q, quiet |-> TRUE, seeds |-> total_seeds(rows, q)]
    BY <1>4 DEF ReadTally, q
  <2>3. QED BY <1>0, <2>1, <2>2 DEF ReaderInv, ReaderHolds, Reading
<1>5. ASSUME CountChampions PROVE ReaderInv' /\ ReaderHolds'
  BY <1>0, <1>5 DEF CountChampions, TypeOK, ReaderInv, ReaderHolds, Reading
<1>6. ASSUME Tally PROVE ReaderInv' /\ ReaderHolds'
  BY <1>6 DEF Tally, ReaderInv, ReaderHolds, Reading
<1>7. QED BY <1>1, <1>2, <1>3, <1>4, <1>5, <1>6 DEF Read

LEMMA Initially == Init => IInv
<1> SUFFICES ASSUME Init PROVE IInv
  OBVIOUS
<1>1. rows \in Seq(Row) /\ Ids(rows) = {}
  BY DEF Init, Ids
<1>2. QED BY <1>1, InstantsAssumption
         DEF Init, IInv, TypeOK, TimesArePast, ReaderHolds, Reading

(* Each action keeps the table, the submitters and the reader as they should *)
(* be; time only makes more of the past.                                     *)
LEMMA Inductive == IInv /\ [Next]_vars => IInv'
<1> SUFFICES ASSUME IInv, [Next]_vars PROVE IInv'
  OBVIOUS
<1>0. TypeOK /\ TimesArePast /\ RowsInv /\ OthersInv /\ ReaderInv /\ ReaderHolds
  BY Parts DEF IInv
<1>1. ASSUME NEW t \in Instants, Tick(t) PROVE IInv'
  <2>1. t > now /\ now' = t /\ t \in Nat /\ now \in Nat
    BY <1>0, <1>1, InstantsAssumption DEF Tick, OthersInv
  <2>2. RowsInv'
    <3>1. ASSUME NEW i \in Ids(rows) PROVE rows[i].submitted_at \in Nat
      <4>1. rows \in Seq(Row) /\ i \in 1 .. Len(rows)
        BY <1>0 DEF RowsInv, Ids
      <4>2. rows[i] \in Row
        BY <4>1
      <4>3. QED BY <4>2 DEF Row
    <3>2. QED BY <1>0, <1>1, <2>1, <3>1 DEF RowsInv, Tick
  <2>3. OthersInv'
    <3>1. \A s \in Submitters : submitter[s].at = "open" => submitter[s].began \in Nat
      BY <1>0, InstantsAssumption DEF OthersInv
    <3>2. QED BY <1>0, <1>1, <2>1, <3>1 DEF OthersInv, Tick
  <2>4. QED BY <1>0, <1>1, <2>2, <2>3, DisturbKeepsReader, PartsNext DEF Tick
<1>2. ASSUME NEW s \in Submitters, Begin(s) PROVE IInv'
  <2>1. OthersInv'
    BY <1>0, <1>2, InstantsAssumption DEF Begin, OthersInv
  <2>2. RowsInv'
    BY <1>0, <1>2 DEF Begin, RowsInv
  <2>3. QED BY <1>0, <1>2, <2>1, <2>2, SteadyKeepsReader, PartsNext DEF Begin
<1>3. ASSUME NEW s \in Submitters, NEW payload \in Payloads, Commit(s, payload) PROVE IInv'
  <2>1. OthersInv'
    BY <1>0, <1>3 DEF Commit, OthersInv
  <2>2. QED BY <1>0, <1>3, <2>1, CommitKeepsRows, DisturbKeepsReader, PartsNext DEF Commit
<1>4. ASSUME NEW s \in Submitters, Abort(s) PROVE IInv'
  <2>1. OthersInv'
    BY <1>0, <1>4 DEF Abort, OthersInv
  <2>2. RowsInv'
    BY <1>0, <1>4 DEF Abort, RowsInv
  <2>3. QED BY <1>0, <1>4, <2>1, <2>2, SteadyKeepsReader, PartsNext DEF Abort
<1>5. ASSUME NEW i \in Ids(rows), Moderate(i) PROVE IInv'
  <2>1. OthersInv'
    BY <1>0, <1>5 DEF Moderate, OthersInv
  <2>2. QED BY <1>0, <1>5, <2>1, ModerateKeepsRows, DisturbKeepsReader, PartsNext DEF Moderate
<1>6. ASSUME Read PROVE IInv'
  <2>1. UNCHANGED <<game, rows, now, submitter>>
    BY <1>6 DEF Read, ReadPage, Count, Page, ReadTally, CountChampions, Tally
  <2>2. RowsInv' /\ OthersInv'
    BY <1>0, <2>1 DEF RowsInv, OthersInv
  <2>3. QED BY <1>0, <1>6, <2>2, ReadKeepsReader, PartsNext
<1>7. ASSUME UNCHANGED vars PROVE IInv'
  <2>1. RowsInv' /\ OthersInv'
    BY <1>0, <1>7 DEF vars, RowsInv, OthersInv
  <2>2. QED BY <1>0, <1>7, <2>1, SteadyKeepsReader, PartsNext DEF vars
<1>8. QED BY <1>1, <1>2, <1>3, <1>4, <1>5, <1>6, <1>7 DEF Next

(* The invariant: types, no time in the database is in the future, and a     *)
(* reader that nothing disturbed holds the numbers of the present table.     *)
THEOREM Invariance == Spec => []IInv
<1>1. QED BY Initially, Inductive, PTL DEF Spec

(* The types alone. *)
THEOREM TypeCorrect == Spec => []TypeOK
<1>1. IInv => TypeOK
  BY DEF IInv
<1>2. QED BY <1>1, Invariance, PTL

-------------------------------------------------------------------------------
(* Every period a request can compute has the present in it, and is the same *)
(* for all instants in it: whatever the calendar and the zones.              *)
THEOREM PeriodsAreRight == Spec => []PeriodsHold
<1>1. IInv => PeriodsHold
  <2> SUFFICES ASSUME game \in Setups, NEW range \in Periods, NEW t \in Probes
               PROVE  /\ InBounds(range_to_bounds(range, game.zone, t), t)
                      /\ \A utc \in Probes : PeriodsTile(range, game.zone, t, utc)
    BY DEF IInv, TypeOK, PeriodsHold, TiledZones
  <2>1. game.zone \in Zone /\ Regular(game.zone)
    BY SetupsAssumption
  <2>2. Probes \subseteq Int
    BY InstantsAssumption
  <2>3. QED BY <2>1, <2>2, PresentInPeriod, PeriodsDoTile
<1>2. QED BY <1>1, Invariance, PTL

-------------------------------------------------------------------------------
(* Rows that are dated from t on stay out of a window that ends at t. *)
LEMMA LateRowsStayOut ==
  ASSUME TypeOK, NEW row \in Row, NEW q \in ChampionsQuery, NEW t \in q.until,
         row.submitted_at >= t, rows' = Append(rows, row)
  PROVE  seed_winners(rows', game.direction, q) = seed_winners(rows, game.direction, q)
<1>1. /\ DOMAIN rows = 1 .. Len(rows) /\ Len(rows) \in Nat
      /\ DOMAIN rows' = 1 .. Len(rows) + 1
      /\ \A i \in 1 .. Len(rows) : rows'[i] = rows[i]
      /\ rows'[Len(rows) + 1] = row
  <2>1. rows \in Seq(Row)
    BY DEF TypeOK
  <2>2. /\ rows' \in Seq(Row) /\ Len(rows') = Len(rows) + 1
        /\ \A i \in 1 .. Len(rows) : rows'[i] = rows[i]
        /\ rows'[Len(rows) + 1] = row
    BY <2>1, AppendProperties
  <2>3. QED BY <2>1, <2>2
<1>2. ~(row.submitted_at < t)
  <2>1. row.submitted_at \in Int /\ t \in Int
    BY DEF Row, ChampionsQuery
  <2>2. QED BY <2>1
<1>3. base_filter(rows', q) = base_filter(rows, q)
  BY <1>1, <1>2 DEF base_filter, Ids
<1>4. \A i, j \in base_filter(rows, q) :
        /\ rows'[i] = rows[i] /\ rows'[j] = rows[j]
        /\ Precedes(rows', game.direction, "score", i, j)
             <=> Precedes(rows, game.direction, "score", i, j)
  BY <1>1 DEF base_filter, Ids, Precedes
<1>5. QED BY <1>3, <1>4 DEF seed_winners

(* A window that is over changes its winners only by moderation, or by a     *)
(* submission that began before its end and commits after it.                *)
THEOREM PastWindowsSettle == Spec => WindowsSettle
<1> DEFINE Settled(q, t) ==
      /\ t <= now
      /\ seed_winners(rows', game.direction, q) # seed_winners(rows, game.direction, q)
      => Moderated \/ Latecomer(t)
<1>1. ASSUME IInv, [Next]_vars, NEW q \in Tallies, NEW t \in q.until
      PROVE  Settled(q, t)
  <2>0. q \in ChampionsQuery
    BY QueriesAssumption
  <2>1. CASE UNCHANGED <<game, rows>>
    BY <2>1
  <2>2. ASSUME NEW s \in Submitters, NEW payload \in Payloads, Commit(s, payload),
               ~Latecomer(t)
        PROVE  Settled(q, t)
    <3> DEFINE row == NewRow(payload, submitter[s].began)
    <3>1. submitter[s] \in [at : {"open"}, began : Instants]
      BY <1>1, <2>2 DEF Commit, IInv, TypeOK
    <3>2. submitter[s].began \in Nat /\ t \in Int
      BY <2>0, <3>1, InstantsAssumption DEF ChampionsQuery
    <3>3. submitter'[s].at = "ready"
      BY <1>1, <2>2 DEF Commit, IInv, TypeOK
    <3>4. submitter[s].began >= t
      BY <2>2, <3>1, <3>2, <3>3 DEF Latecomer
    <3>5. payload \in PayloadType
      BY RowsAssumption DEF PayloadType
    <3>6. row \in Row /\ row.submitted_at >= t
      BY <3>2, <3>4, <3>5 DEF NewRow, Row, PayloadType
    <3> HIDE DEF row
    <3>7. rows' = Append(rows, row)
      BY <2>2 DEF Commit, row
    <3>8. QED BY <1>1, <2>0, <3>6, <3>7, LateRowsStayOut DEF IInv
  <2>3. ASSUME NEW i \in Ids(rows), Moderate(i) PROVE Moderated
    <3>1. rows \in Seq(Row) /\ i \in 1 .. Len(rows)
      BY <1>1 DEF IInv, TypeOK, Ids
    <3>2. rows[i] \in Row
      BY <3>1
    <3>3. rows'[i].deleted = ~rows[i].deleted /\ rows[i].deleted \in BOOLEAN
      BY <2>3, <3>1, <3>2 DEF Moderate, Row
    <3>4. QED BY <2>3, <3>3 DEF Moderated
  <2>4. CASE \/ \E u \in Instants : Tick(u)
             \/ \E s \in Submitters : Begin(s) \/ Abort(s)
             \/ Read
             \/ UNCHANGED vars
    BY <2>1, <2>4 DEF Tick, Begin, Abort, Read, ReadPage, Count, Page, ReadTally,
                      CountChampions, Tally, vars
  <2>5. QED BY <1>1, <2>2, <2>3, <2>4 DEF Next
<1>2. IInv /\ [Next]_vars => [\A q \in Tallies : \A t \in q.until : Settled(q, t)]_vars
  BY <1>1
<1>3. QED BY <1>2, Invariance, PTL DEF WindowsSettle, Spec
-------------------------------------------------------------------------------
(* What is read. *)
LEMMA RowsAreTable ==
  ASSUME RowsInv
  PROVE  IsTable(rows) /\ \A i \in Ids(rows) : rows[i] \in Row
<1>1. rows \in Seq(Row) /\ Ids(rows) = 1 .. Len(rows) /\ Len(rows) \in Nat
  BY DEF RowsInv, Ids
<1>2. \A i \in Ids(rows) : rows[i] \in Row
  BY <1>1
<1>3. IsFiniteSet(Ids(rows)) /\ Ids(rows) \in SUBSET Nat
  BY <1>1, FS_Interval
<1>4. \A i \in Ids(rows) :
        /\ rows[i].score \in Int /\ rows[i].submitted_at \in Int /\ rows[i].player \in Nat
        /\ rows[i].played_at \in SUBSET Int
  BY <1>2 DEF Row
<1>5. QED BY <1>2, <1>3, <1>4 DEF IsTable, RowsInv

(* What the bounds of an ordinary period select is the board. *)
LEMMA BoardIsFiltered ==
  ASSUME RowsInv, OthersInv, NEW q, q.range \in VALID_RANGES, Ordinary(q.range)
  PROVE  PageFilter(rows, q, Bounds(q.range)) = Board(q)
<1>1. game.zone \in Zone /\ Regular(game.zone) /\ now \in Int
  BY SetupsAssumption, InstantsAssumption DEF OthersInv
<1>2. ASSUME NEW i \in Ids(rows)
      PROVE  (q.range # "all-time" => InBounds(Bounds(q.range), rows[i].submitted_at))
               <=> SamePeriod(q.range, rows[i].submitted_at)
  <2>1. rows[i].submitted_at \in Int
    BY RowsAreTable DEF IsTable
  <2>2. CASE q.range = "all-time"
    BY <2>2 DEF SamePeriod
  <2>3. CASE q.range # "all-time"
    <3>1. q.range \in Periods /\ PeriodStart(q.range, game.zone, now) \notin Repeated(game.zone)
      BY <2>3 DEF VALID_RANGES, Ordinary
    <3>2. InBounds(range_to_bounds(q.range, game.zone, now), rows[i].submitted_at)
            <=> PeriodStart(q.range, game.zone, rows[i].submitted_at)
                  = PeriodStart(q.range, game.zone, now)
      BY <1>1, <2>1, <3>1, BoundsArePeriods
    <3>3. QED BY <2>3, <3>2 DEF Bounds, SamePeriod
  <2>4. QED BY <2>2, <2>3
<1>3. QED BY <1>2 DEF PageFilter, Board

(* A page that nothing disturbed has the board's rows at their places, and   *)
(* the total is their number: whatever is submitted and moderated, whatever  *)
(* the calendar and the zones.                                               *)
THEOREM PagesShowTheBoard == Spec => PagesAreRight
<1>1. ASSUME IInv, [Next]_vars, PageAnswered, Ordinary(reader.query.range)
      PROVE  PageIsOfBoard
  <2> DEFINE q == reader.query
             board == Board(q)
  <2>0. RowsInv /\ OthersInv /\ ReaderInv /\ ReaderHolds
    BY <1>1, Parts
  <2>1. Page
    <3>1. reader.at = "page" /\ reader'.at = "done" /\ Reading
      BY <1>1 DEF PageAnswered, Reading
    <3>2. ~Disturb
      BY <2>0, <3>1, DisturbKeepsReader
    <3>3. reader' # reader
      BY <3>1
    <3>4. QED BY <1>1, <3>1, <3>2, <3>3
              DEF Next, Tick, Begin, Commit, Abort, Moderate, Read, ReadPage, Count, ReadTally,
                  CountChampions, Tally, vars
  <2>2. /\ q \in LeaderboardQuery /\ q.sort \in Sorts /\ Paging(q)
        /\ reader.bounds = Bounds(q.range) /\ reader.total = count_rows(rows, q, Bounds(q.range))
    BY <1>1, <2>0 DEF PageAnswered, ReaderInv, ReaderHolds, Reading
  <2>3. game.direction \in Directions /\ IsTable(rows)
    BY <2>0, SetupsAssumption, RowsAreTable DEF OthersInv
  <2>4. /\ reader'.total = count_rows(rows, q, Bounds(q.range))
        /\ reader'.page = page_rows(rows, game.direction, q, Bounds(q.range))
    BY <2>1, <2>2 DEF Page
  <2>5. q.range \in VALID_RANGES
    BY <2>2 DEF LeaderboardQuery
  <2>6. PageFilter(rows, q, Bounds(q.range)) = board
    BY <1>1, <2>0, <2>5, BoardIsFiltered
  <2>7. count_rows(rows, q, Bounds(q.range)) = Cardinality(PageFilter(rows, q, Bounds(q.range)))
    BY DEF count_rows, CountFilter, PageFilter
  <2> HIDE DEF q, board
  <2>8. PageIsRight(rows, game.direction, q, board, Cardinality(board),
                    page_rows(rows, game.direction, q, Bounds(q.range)))
    BY <2>2, <2>3, <2>6, PageRowsAreRight
  <2>9. QED BY <2>4, <2>6, <2>7, <2>8 DEF PageIsOfBoard, q, board
<1>2. IInv /\ [Next]_vars =>
        [PageAnswered /\ Ordinary(reader.query.range) => PageIsOfBoard]_vars
  BY <1>1
<1>3. QED BY <1>2, Invariance, PTL DEF PagesAreRight, Spec
-------------------------------------------------------------------------------
(* The winners of the statement are the leaders of the seeds' boards. *)
LEMMA LeadersWin ==
  ASSUME RowsInv, OthersInv, NEW q \in ChampionsQuery
  PROVE  /\ \A seed : seed # {} => SeedBoard(q, seed) = SeedRows(rows, q, seed)
         /\ \A i \in base_filter(rows, q) :
              PlaceOnSeed(q, i) = PlaceIn(BoardOrder(rows, game.direction, "score"),
                                          SeedRows(rows, q, rows[i].seed), i)
         /\ Leaders(q) = seed_winners(rows, game.direction, q)
<1> DEFINE R == BoardOrder(rows, game.direction, "score")
<1>1. IsTable(rows) /\ game.direction \in Directions /\ "score" \in Sorts
  BY RowsAreTable, SetupsAssumption DEF OthersInv, Sorts
<1>2. \A i : i \in base_filter(rows, q) <=> i \in Window(q) /\ rows[i].seed # {}
  <2>1. \A i \in Ids(rows) : rows[i].submitted_at \in Int
    BY <1>1 DEF IsTable
  <2>2. \A t \in q.since : t \in Int
    BY DEF ChampionsQuery
  <2>3. \A i \in Ids(rows), t \in q.since : t <= rows[i].submitted_at <=> rows[i].submitted_at >= t
    BY <2>1, <2>2
  <2>4. QED BY <2>3 DEF base_filter, Window
<1>3. \A seed : seed # {} => SeedBoard(q, seed) = SeedRows(rows, q, seed)
  BY <1>2 DEF SeedBoard, SeedRows
<1>4. ASSUME NEW i \in base_filter(rows, q)
      PROVE  PlaceOnSeed(q, i) = PlaceIn(R, SeedRows(rows, q, rows[i].seed), i)
  <2> DEFINE board == SeedRows(rows, q, rows[i].seed)
  <2>1. SeedBoard(q, rows[i].seed) = board
    BY <1>2, <1>3
  <2>2. i \in board /\ board \in SUBSET Ids(rows)
    BY DEF SeedRows, base_filter
  <2> HIDE DEF board
  <2>3. Place(rows, game.direction, "score", board, i) = PlaceIn(R, board, i)
    BY <1>1, <2>2, PlaceIsPlace
  <2>4. QED BY <2>1, <2>3 DEF PlaceOnSeed, board
<1>5. ASSUME NEW i
      PROVE  i \in Leaders(q) <=> i \in seed_winners(rows, game.direction, q)
  <2>1. CASE i \notin base_filter(rows, q)
    BY <1>2, <2>1 DEF Leaders, seed_winners
  <2>2. CASE i \in base_filter(rows, q)
    <3>1. i \in Leaders(q) <=> PlaceOnSeed(q, i) = 1
      BY <1>2, <2>2 DEF Leaders
    <3>2. QED BY <1>1, <1>4, <2>2, <3>1, WinnersLead
  <2>3. QED BY <2>1, <2>2
<1>6. Leaders(q) = seed_winners(rows, game.direction, q)
  BY <1>5 DEF Leaders, seed_winners
<1>7. QED BY <1>3, <1>4, <1>6

(* A tally that nothing disturbed gives each player a win for every seed     *)
(* whose board it leads, as many in all as there are seeds, in the           *)
(* documented order and on the right page.                                   *)
THEOREM TalliesCountTheLeaders == Spec => TalliesAreRight
<1> DEFINE Answered == reader.at = "tally" /\ reader'.at = "done" /\ reader.quiet
           Right(q, page) ==
             /\ reader'.seeds = Cardinality(Leaders(q))
             /\ reader'.total = Cardinality(Champions(q))
             /\ \A k \in DOMAIN page : page[k].player \in Champions(q)
             /\ \A p \in Champions(q) :
                  (ChampionPlace(q, p) - 1) \div q.page_size = q.page - 1
                    <=> \E k \in DOMAIN page :
                          page[k] = [rank |-> ChampionPlace(q, p), player |-> p,
                                     wins |-> Cardinality(LedBy(q, p))]
<1>1. ASSUME IInv, [Next]_vars, Answered
      PROVE  Right(reader.tally, reader'.page)
  <2> DEFINE q == reader.tally
             page == reader'.page
             winners == seed_winners(rows, game.direction, q)
             players == WinnersOf(rows, game.direction, q)
             R == ChampionOrder(rows, winners)
             won(p) == wins(rows, winners, p)
  <2>0. RowsInv /\ OthersInv /\ ReaderInv /\ ReaderHolds
    BY <1>1, Parts
  <2>1. Tally
    <3>1. reader.at = "tally" /\ reader'.at = "done" /\ Reading
      BY <1>1 DEF Reading
    <3>2. ~Disturb
      BY <2>0, <3>1, DisturbKeepsReader
    <3>3. reader' # reader
      BY <3>1
    <3>4. QED BY <1>1, <3>1, <3>2, <3>3
              DEF Next, Tick, Begin, Commit, Abort, Moderate, Read, ReadPage, Count, ReadTally,
                  CountChampions, Page, vars
  <2>2. /\ q \in ChampionsQuery /\ Paging(q)
        /\ reader.seeds = total_seeds(rows, q)
        /\ reader.total = total_champions(rows, game.direction, q)
    BY <1>1, <2>0 DEF ReaderInv, ReaderHolds, Reading
  <2>3. game.direction \in Directions /\ IsTable(rows)
    BY <2>0, SetupsAssumption, RowsAreTable DEF OthersInv
  <2>4. /\ reader'.seeds = total_seeds(rows, q)
        /\ reader'.total = total_champions(rows, game.direction, q)
        /\ page = champions_page(rows, game.direction, q)
    BY <2>1, <2>2 DEF Tally
  <2> HIDE DEF q, page
  <2>5. Leaders(q) = winners
    BY <2>0, <2>2, LeadersWin
  <2>6. Champions(q) = players
    BY <2>5 DEF Champions, WinnersOf
  <2>7. \A p : Cardinality(LedBy(q, p)) = won(p)
    BY <2>5 DEF LedBy, wins
  <2>8. players \in SUBSET Nat
    BY <2>3, WinnersFinite DEF WinnersOf
  <2> HIDE DEF winners, players
  <2>9. ASSUME NEW p \in players PROVE ChampionPlace(q, p) = PlaceIn(R, players, p)
    <3>1. \A o \in players : <<o, p>> \in R <=> won(o) > won(p) \/ (won(o) = won(p) /\ o < p)
      BY <2>8 DEF ChampionOrder
    <3> HIDE DEF R, won
    <3>2. {o \in players : won(o) > won(p) \/ (won(o) = won(p) /\ o < p)} = Ahead(R, players, p)
      BY <3>1 DEF Ahead
    <3>3. ChampionPlace(q, p) =
            1 + Cardinality({o \in players : won(o) > won(p) \/ (won(o) = won(p) /\ o < p)})
      BY <2>6, <2>7 DEF ChampionPlace
    <3>4. QED BY <3>2, <3>3 DEF PlaceIn
  <2>10. Cardinality(winners) = total_seeds(rows, q)
    BY <2>3, OneWinnerPerSeed DEF winners
  <2>11. /\ total_champions(rows, game.direction, q) = Cardinality(players)
         /\ \A k \in DOMAIN page : page[k].player \in players
         /\ \A p \in players :
              (PlaceIn(R, players, p) - 1) \div q.page_size = q.page - 1
                <=> \E k \in DOMAIN page :
                      page[k] = [rank |-> PlaceIn(R, players, p), player |-> p, wins |-> won(p)]
    BY <2>2, <2>3, <2>4, ChampionsAreRight DEF winners, players
  <2>12. QED BY <2>4, <2>5, <2>6, <2>7, <2>9, <2>10, <2>11 DEF q, page
<1>2. IInv /\ [Next]_vars => [Answered => Right(reader.tally, reader'.page)]_vars
  BY <1>1
<1>3. QED BY <1>2, Invariance, PTL DEF TalliesAreRight, Spec

-------------------------------------------------------------------------------
(* Soft-deleting a seed's winning score promotes the runner-up of its board, *)
(* and changes no other seed's champion.                                     *)
THEOREM RunnerUpIsPromoted == Spec => DeletePromotes
<1> DEFINE Promotes(i) ==
      rows'[i].deleted =>
        seed_winners(rows', game.direction, Ever) =
          (seed_winners(rows, game.direction, Ever) \ {i})
          \cup {j \in SeedBoard(Ever, rows[i].seed) : PlaceOnSeed(Ever, j) = 2}
<1>1. ASSUME IInv, [Next]_vars, NEW i \in seed_winners(rows, game.direction, Ever)
      PROVE  Promotes(i)
  <2> DEFINE R == BoardOrder(rows, game.direction, "score")
             board == SeedRows(rows, Ever, rows[i].seed)
  <2>0. RowsInv /\ OthersInv
    BY <1>1, Parts
  <2>1. /\ IsTable(rows) /\ game.direction \in Directions /\ Ever \in ChampionsQuery
        /\ rows \in Seq(Row) /\ Ids(rows) = 1 .. Len(rows)
    BY <2>0, SetupsAssumption, RowsAreTable DEF OthersInv, RowsInv, Ever, ChampionsQuery, Ids
  <2>2. i \in base_filter(rows, Ever)
    BY DEF seed_winners
  <2>3. i \in Ids(rows) /\ rows[i].seed # {} /\ ~rows[i].deleted
    BY <2>2 DEF base_filter
  <2>4. ASSUME NEW k \in Ids(rows), Moderate(k), rows'[i].deleted PROVE Promotes(i)
    <3>1. rows' = [rows EXCEPT ![k].deleted = ~rows[k].deleted]
      BY <2>4 DEF Moderate
    <3>2. k = i
      BY <2>1, <2>3, <2>4, <3>1
    <3>3. Ids(rows') = Ids(rows)
      BY <3>1 DEF Ids
    <3>4. ASSUME NEW j \in Ids(rows)
          PROVE  /\ rows'[j].score = rows[j].score /\ rows'[j].seed = rows[j].seed
                 /\ rows'[j].submitted_at = rows[j].submitted_at
                 /\ j # i => rows'[j] = rows[j]
      BY <2>1, <3>1, <3>2
    <3>5. seed_winners(rows', game.direction, Ever) =
            (seed_winners(rows, game.direction, Ever) \ {i})
            \cup {j \in board : PlaceIn(R, board, j) = 2}
      BY <2>1, <2>4, <3>3, <3>4, WithoutWinner
    <3>6. SeedBoard(Ever, rows[i].seed) = board
      BY <2>0, <2>1, <2>3, LeadersWin
    <3>7. \A j \in board : PlaceOnSeed(Ever, j) = PlaceIn(R, board, j)
      <4>1. \A j \in board : j \in base_filter(rows, Ever) /\ rows[j].seed = rows[i].seed
        BY DEF SeedRows
      <4>2. QED BY <2>0, <2>1, <4>1, LeadersWin
    <3>8. QED BY <3>5, <3>6, <3>7
  <2>5. ASSUME NEW s \in Submitters, NEW payload \in Payloads, Commit(s, payload)
        PROVE  ~rows'[i].deleted
    <3>1. rows' = Append(rows, NewRow(payload, submitter[s].began))
      BY <2>5 DEF Commit
    <3>2. rows'[i] = rows[i]
      BY <2>1, <2>3, <3>1
    <3>3. QED BY <2>3, <3>2
  <2>6. CASE UNCHANGED rows
    BY <2>3, <2>6
  <2>7. CASE \/ \E u \in Instants : Tick(u)
             \/ \E s \in Submitters : Begin(s) \/ Abort(s)
             \/ Read
             \/ UNCHANGED vars
    BY <2>6, <2>7 DEF Tick, Begin, Abort, Read, ReadPage, Count, Page, ReadTally,
                      CountChampions, Tally, vars
  <2>8. QED BY <1>1, <2>4, <2>5, <2>7 DEF Next
<1>2. IInv /\ [Next]_vars =>
        [\A i \in seed_winners(rows, game.direction, Ever) : Promotes(i)]_vars
  BY <1>1
<1>3. QED BY <1>2, Invariance, PTL DEF DeletePromotes, Spec
===============================================================================
