-------------------------------- MODULE Boards --------------------------------
(***************************************************************************)
(* The boards of one game while scores are submitted and moderated, pages  *)
(* are read and time goes by (app/services/leaderboard_query.py,           *)
(* champions.py and time_ranges.py, app/models/score.py).                  *)
(*                                                                         *)
(* A score carries the start of its transaction, the lookup of the game    *)
(* that begins the request, and is seen from its commit.  A page is read   *)
(* in several statements, each seeing what is committed when it starts,    *)
(* and its two computations of the period's bounds each read the clock.    *)
(* Games do not share scores; the cache is left to LeaderboardCache.       *)
(***************************************************************************)
EXTENDS Ranking

CONSTANTS
  Submitters,  \* threads serving POST /scores
  Setups,      \* settings of the game, [zone, direction]
  Payloads,    \* what is submitted: [player, score, seed, played_at]
  Pages,       \* queries of GET /leaderboards
  Tallies,     \* queries of GET /champions
  Instants,    \* the instants at which things happen
  Probes,      \* the instants whose periods are asked for
  MaxRows      \* bound: number of scores submitted

ASSUME InstantsAssumption == 0 \in Instants /\ Instants \subseteq Nat /\ Probes \subseteq Nat
ASSUME SetupsAssumption ==
  \A setup \in Setups :
    setup.zone \in Zone /\ Regular(setup.zone) /\ setup.direction \in Directions
ASSUME QueriesAssumption ==
  Pages \subseteq LeaderboardQuery /\ Tallies \subseteq ChampionsQuery
ASSUME RowsAssumption ==
  /\ MaxRows \in Nat
  /\ Payloads \subseteq [player : Nat, score : Int, seed : SUBSET STRING, played_at : SUBSET Int]
  /\ \A payload \in Payloads : AtMostOne(payload.played_at)

VARIABLES
  game,       \* database: the zone and direction of the game
  rows,       \* database: the committed scores, by id
  now,        \* the clock
  submitter,  \* submitter[s]: where s is, and when its transaction began
  reader      \* what the thread that reads has got so far, and whether it
              \*   was undisturbed (kept for the properties)

vars == <<game, rows, now, submitter, reader>>

Init ==
  /\ game \in Setups
  /\ rows = <<>>
  /\ now = 0
  /\ submitter = [s \in Submitters |-> [at |-> "ready"]]
  /\ reader = [at |-> "ready"]

Reading == reader.at \notin {"ready", "done"}
Disturb == reader' = IF Reading THEN [reader EXCEPT !.quiet = FALSE] ELSE reader

-------------------------------------------------------------------------------
(* Time goes by: to any later instant. *)
Tick(t) ==
  /\ t > now
  /\ now' = t
  /\ Disturb
  /\ UNCHANGED <<game, rows, submitter>>

(* submit_score looks up the game, which begins the transaction. *)
Begin(s) ==
  /\ submitter[s].at = "ready"
  /\ submitter' = [submitter EXCEPT ![s] = [at |-> "open", began |-> now]]
  /\ UNCHANGED <<game, rows, now, reader>>

(* Fault: the score counts from when the client says it was played. *)
NewRow_Played(payload, began) ==
  [player |-> payload.player, score |-> payload.score, seed |-> payload.seed,
   played_at |-> payload.played_at, deleted |-> FALSE,
   submitted_at |-> IF payload.played_at = {} THEN began
                    ELSE CHOOSE t \in payload.played_at : TRUE]

(* The row that a payload becomes; submitted_at defaults to Postgres' now(). *)
NewRow(payload, began) ==
  [player |-> payload.player, score |-> payload.score, seed |-> payload.seed,
   played_at |-> payload.played_at, submitted_at |-> began, deleted |-> FALSE]

(* The INSERT and its commit. *)
Commit(s, payload) ==
  /\ submitter[s].at = "open"
  /\ Len(rows) < MaxRows
  /\ rows' = Append(rows, NewRow(payload, submitter[s].began))
  /\ submitter' = [submitter EXCEPT ![s] = [at |-> "ready"]]
  /\ Disturb
  /\ UNCHANGED <<game, now>>

(* The submission is refused, or fails. *)
Abort(s) ==
  /\ submitter[s].at = "open"
  /\ submitter' = [submitter EXCEPT ![s] = [at |-> "ready"]]
  /\ UNCHANGED <<game, rows, now, reader>>

(* Soft-delete and restore. *)
Moderate(i) ==
  /\ rows' = [rows EXCEPT ![i].deleted = ~@]
  /\ Disturb
  /\ UNCHANGED <<game, now, submitter>>

-------------------------------------------------------------------------------
Bounds(range) ==
  IF range = "all-time" THEN [start |-> 0, end |-> 0]
  ELSE range_to_bounds(range, game.zone, now)

(* run_leaderboard_query: the bounds of the page ... *)
ReadPage(query) ==
  /\ ~Reading
  /\ LET q == normalize(query) IN
     reader' = [at |-> "count", query |-> q, bounds |-> Bounds(q.range), quiet |-> TRUE]
  /\ UNCHANGED <<game, rows, now, submitter>>

(* ... the bounds of the count, and the count; the page. *)
Count ==
  /\ reader.at = "count"
  /\ reader' = [at |-> "page", query |-> reader.query, bounds |-> reader.bounds,
                quiet |-> reader.quiet,
                total |-> count_rows(rows, reader.query, Bounds(reader.query.range))]
  /\ UNCHANGED <<game, rows, now, submitter>>

Page ==
  /\ reader.at = "page"
  /\ reader' = [at |-> "done", total |-> reader.total,
                page |-> page_rows(rows, game.direction, reader.query, reader.bounds)]
  /\ UNCHANGED <<game, rows, now, submitter>>

(* run_champions_query: the seeds are counted, then the champions, then the  *)
(* page is read.                                                             *)
ReadTally(query) ==
  /\ ~Reading
  /\ LET q == normalize_champions(query) IN
     reader' = [at |-> "champions", tally |-> q, quiet |-> TRUE, seeds |-> total_seeds(rows, q)]
  /\ UNCHANGED <<game, rows, now, submitter>>

CountChampions ==
  /\ reader.at = "champions"
  /\ reader' = [at |-> "tally", tally |-> reader.tally, quiet |-> reader.quiet,
                seeds |-> reader.seeds,
                total |-> total_champions(rows, game.direction, reader.tally)]
  /\ UNCHANGED <<game, rows, now, submitter>>

Tally ==
  /\ reader.at = "tally"
  /\ reader' = [at |-> "done", seeds |-> reader.seeds, total |-> reader.total,
                page |-> champions_page(rows, game.direction, reader.tally)]
  /\ UNCHANGED <<game, rows, now, submitter>>

Read ==
  \/ \E query \in Pages : ReadPage(query)
  \/ Count
  \/ Page
  \/ \E query \in Tallies : ReadTally(query)
  \/ CountChampions
  \/ Tally

Next ==
  \/ \E t \in Instants : Tick(t)
  \/ \E s \in Submitters : Begin(s) \/ Abort(s) \/ \E payload \in Payloads : Commit(s, payload)
  \/ \E i \in Ids(rows) : Moderate(i)
  \/ Read

Spec == Init /\ [][Next]_vars
-------------------------------------------------------------------------------
(* Properties. *)

Row == [player : Nat, score : Int, seed : SUBSET STRING, submitted_at : Nat,
        played_at : SUBSET Int, deleted : BOOLEAN]
BoundsType == [start : Int, end : Int]

(* Type invariant of the module. *)
TypeOK ==
  /\ game \in Setups
  /\ rows \in Seq(Row)
  /\ \A i \in Ids(rows) : AtMostOne(rows[i].played_at)
  /\ now \in Instants
  /\ submitter \in [Submitters -> [at : {"ready"}] \cup [at : {"open"}, began : Instants]]
  /\ reader.at \in {"ready", "count", "page", "champions", "tally", "done"}
  /\ reader.at \in {"count", "page"} =>
       /\ reader.query \in LeaderboardQuery /\ reader.query.sort \in Sorts
       /\ Paging(reader.query) /\ reader.bounds \in BoundsType
  /\ reader.at \in {"champions", "tally"} =>
       reader.tally \in ChampionsQuery /\ Paging(reader.tally)
  /\ Reading => "quiet" \in DOMAIN reader /\ reader.quiet \in BOOLEAN

(* All times in the database are past. *)
TimesArePast ==
  /\ \A i \in Ids(rows) : rows[i].submitted_at <= now
  /\ \A s \in Submitters : submitter[s].at = "open" => submitter[s].began <= now

(* What an undisturbed reader has got so far is still true. *)
ReaderHolds ==
  Reading /\ reader.quiet =>
    /\ reader.at \in {"count", "page"} => reader.bounds = Bounds(reader.query.range)
    /\ reader.at = "page" =>
         reader.total = count_rows(rows, reader.query, Bounds(reader.query.range))
    /\ reader.at \in {"champions", "tally"} => reader.seeds = total_seeds(rows, reader.tally)
    /\ reader.at = "tally" =>
         reader.total = total_champions(rows, game.direction, reader.tally)

(* The inductive invariant behind all properties below. *)
IInv == TypeOK /\ TimesArePast /\ ReaderHolds

(* The board a query is about: the scores submitted when the wall clock was  *)
(* in the hour, day, week, month or year it is in.                           *)
SamePeriod(range, utc) ==
  range = "all-time" \/ PeriodStart(range, game.zone, utc) = PeriodStart(range, game.zone, now)
Board(q) ==
  {i \in Ids(rows) :
     /\ ~rows[i].deleted /\ rows[i].seed = q.seed /\ rows[i].player \in q.name
     /\ SamePeriod(q.range, rows[i].submitted_at)}

(* An ordinary period: it does not begin with the hour that is repeated. *)
Ordinary(range) ==
  range = "all-time" \/ PeriodStart(range, game.zone, now) \notin Repeated(game.zone)

PageAnswered == reader.at = "page" /\ reader'.at = "done" /\ reader.quiet
PageIsOfBoard ==
  PageIsRight(rows, game.direction, reader.query, Board(reader.query), reader'.total, reader'.page)

(* leaderboard_query.py:83-150, api.md:131: a page that nothing disturbed    *)
(* shows the board's rows in their places, and the count, whose statement    *)
(* repeats the conditions and the bounds, is the number of the board's rows. *)
PagesAreRight == [][PageAnswered /\ Ordinary(reader.query.range) => PageIsOfBoard]_vars

(* time_ranges.py:5 "DST is handled correctly": on the day the clocks change *)
(* the daily board still is that day's.                                      *)
DstIsHandled == [][PageAnswered /\ reader.query.range = "daily" => PageIsOfBoard]_vars

(* The rows that lead their seed's board, among those of a window. *)
Window(q) ==
  {i \in Ids(rows) :
     /\ ~rows[i].deleted
     /\ \A t \in q.since : t <= rows[i].submitted_at
     /\ \A t \in q.until : rows[i].submitted_at < t}
SeedBoard(q, seed) == {i \in Window(q) : rows[i].seed = seed}
PlaceOnSeed(q, i) == Place(rows, game.direction, "score", SeedBoard(q, rows[i].seed), i)
Leaders(q) == {i \in Window(q) : rows[i].seed # {} /\ PlaceOnSeed(q, i) = 1}
Champions(q) == {rows[i].player : i \in Leaders(q)}
LedBy(q, player) == {i \in Leaders(q) : rows[i].player = player}
ChampionPlace(q, player) ==
  LET won(p) == Cardinality(LedBy(q, p)) IN
  1 + Cardinality({p \in Champions(q) : won(p) > won(player)
                                        \/ (won(p) = won(player) /\ p < player)})

(* champions.py:8-9 "matches the leaderboard query": a tally that nothing    *)
(* disturbed gives a player one win for each seed whose board it leads, with *)
(* as many wins in all as there are seeds, in the documented order.          *)
TalliesAreRight ==
  [][reader.at = "tally" /\ reader'.at = "done" /\ reader.quiet =>
       LET q == reader.tally
           page == reader'.page IN
       /\ reader'.seeds = Cardinality(Leaders(q))
       /\ reader'.total = Cardinality(Champions(q))
       /\ \A k \in DOMAIN page : page[k].player \in Champions(q)
       /\ \A p \in Champions(q) :
            (ChampionPlace(q, p) - 1) \div q.page_size = q.page - 1
              <=> \E k \in DOMAIN page :
                    page[k] = [rank |-> ChampionPlace(q, p), player |-> p,
                               wins |-> Cardinality(LedBy(q, p))]]_vars

(* api.md:129 "soft-deleting a cheater's winning score promotes the          *)
(* runner-up": the next row of that seed's board, and no other seed's        *)
(* champion changes.                                                         *)
Ever == [since |-> {}, until |-> {}, page |-> 1, page_size |-> 1]
DeletePromotes ==
  [][\A i \in seed_winners(rows, game.direction, Ever) :
       rows'[i].deleted =>
         seed_winners(rows', game.direction, Ever) =
           (seed_winners(rows, game.direction, Ever) \ {i})
           \cup {j \in SeedBoard(Ever, rows[i].seed) : PlaceOnSeed(Ever, j) = 2}]_vars

(* A window that is over is settled: its winners change only when an admin   *)
(* deletes or restores a score, or by a submission that began before its end *)
(* and commits after it.                                                     *)
Moderated == \E i \in Ids(rows) : rows'[i].deleted # rows[i].deleted
Latecomer(t) ==
  \E s \in Submitters :
    submitter[s].at = "open" /\ submitter[s].began < t /\ submitter'[s].at = "ready"
WindowsSettle ==
  [][\A q \in Tallies : \A t \in q.until :
       /\ t <= now
       /\ seed_winners(rows', game.direction, q) # seed_winners(rows, game.direction, q)
       => Moderated \/ Latecomer(t)]_vars

(* time_ranges.py:41 "the current period": every period has the present in   *)
(* it, and is the same for all instants in it.                               *)
TiledZones ==
  {zone \in {setup.zone : setup \in Setups} : \A range \in Periods, t \in Probes :
     /\ InBounds(range_to_bounds(range, zone, t), t)
     /\ \A utc \in Probes : PeriodsTile(range, zone, t, utc)}
PeriodsHold == game.zone \in TiledZones
===============================================================================
