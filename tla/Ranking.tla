-------------------------------- MODULE Ranking --------------------------------
(***************************************************************************)
(* What the statements behind GET /leaderboards and the dashboard          *)
(* (app/services/leaderboard_query.py) and behind GET /champions           *)
(* (app/services/champions.py) return, over the scores of one game.        *)
(*                                                                         *)
(* A table is a sequence of rows, by id.  Player names are numbers, in the *)
(* order in which the database sorts them; a nullable column is a set with *)
(* at most one value.                                                      *)
(***************************************************************************)
EXTENDS TimeRanges, FiniteSets, SequencesExt

CONSTANT MAX_PAGE_SIZE
ASSUME PageAssumption == MAX_PAGE_SIZE \in Nat \ {0}

Sorts == {"score", "submitted_at", "played_at"}
Directions == {"asc", "desc"}

Ids(rows) == DOMAIN rows
AtMostOne(column) == \A x, y \in column : x = y

(* A query: `name' is the set of players that ILIKE '%name%' matches, all of *)
(* them when no name is given; "" stands for the names that are no sort      *)
(* field.  _normalize clamps what it is given.                               *)
LeaderboardQuery == [range : VALID_RANGES, seed : SUBSET STRING, name : SUBSET Nat,
                     sort : Sorts \cup {""}, page : Int, page_size : Int]

Paging(q) == q.page \in Nat \ {0} /\ q.page_size \in 1 .. MAX_PAGE_SIZE

ClampedPage(q) == IF q.page < 1 THEN 1 ELSE q.page
ClampedSize(q) ==
  IF q.page_size < 1 THEN 1 ELSE IF q.page_size > MAX_PAGE_SIZE THEN MAX_PAGE_SIZE ELSE q.page_size

normalize(q) ==
  [range |-> q.range, seed |-> q.seed, name |-> q.name,
   sort |-> IF q.sort \in Sorts THEN q.sort ELSE "score",
   page |-> ClampedPage(q), page_size |-> ClampedSize(q)]

-------------------------------------------------------------------------------
(* ORDER BY order_col, submitted_at ASC, id ASC.  DESC puts NULLs first.     *)
NullsFirst(x, y) == (x = {} /\ y # {}) \/ \E s \in x, t \in y : s > t

Better(direction, sort, row, other) ==
  \/ sort = "score" /\ direction = "desc" /\ row.score > other.score
  \/ sort = "score" /\ direction = "asc" /\ row.score < other.score
  \/ sort = "submitted_at" /\ row.submitted_at > other.submitted_at
  \/ sort = "played_at" /\ NullsFirst(row.played_at, other.played_at)

Precedes(rows, direction, sort, i, j) ==
  \/ Better(direction, sort, rows[i], rows[j])
  \/ /\ ~Better(direction, sort, rows[j], rows[i])
     /\ \/ rows[i].submitted_at < rows[j].submitted_at
        \/ rows[i].submitted_at = rows[j].submitted_at /\ i < j

(* ORDER BY, for an order that decides between any two. *)
OrderBy(S, precedes(_, _)) ==
  CHOOSE s \in SetToSeqs(S) : \A i, j \in DOMAIN s : i < j => precedes(s[i], s[j])

Paged(sequence, page, page_size) ==
  LET offset == (page - 1) * page_size
      last == offset + page_size
  IN SubSeq(sequence, offset + 1, IF last < Len(sequence) THEN last ELSE Len(sequence))

(* The conditions of the page's statement ... *)
PageFilter(rows, q, bounds) ==
  {i \in Ids(rows) :
     /\ ~rows[i].deleted
     /\ q.range # "all-time" => InBounds(bounds, rows[i].submitted_at)
     /\ rows[i].seed = q.seed
     /\ rows[i].player \in q.name}

(* Fault: a query without a seed counts the rows of every seed. *)
CountFilter_AnySeed(rows, q, bounds) ==
  {i \in Ids(rows) :
     /\ ~rows[i].deleted
     /\ q.range # "all-time" => InBounds(bounds, rows[i].submitted_at)
     /\ q.seed # {} => rows[i].seed = q.seed
     /\ rows[i].player \in q.name}

(* ... and of the count's, which are written down again. *)
CountFilter(rows, q, bounds) ==
  {i \in Ids(rows) :
     /\ ~rows[i].deleted
     /\ q.range # "all-time" => InBounds(bounds, rows[i].submitted_at)
     /\ rows[i].seed = q.seed
     /\ rows[i].player \in q.name}

count_rows(rows, q, bounds) == Cardinality(CountFilter(rows, q, bounds))

page_rows(rows, direction, q, bounds) ==
  LET ordered == OrderBy(PageFilter(rows, q, bounds),
                         LAMBDA i, j : Precedes(rows, direction, q.sort, i, j))
      ids == Paged(ordered, q.page, q.page_size)
  IN [i \in DOMAIN ids |-> [rank |-> (q.page - 1) * q.page_size + i, id |-> ids[i]]]

-------------------------------------------------------------------------------
(* Champions: `since' and `until' bound submitted_at when they are given.    *)
ChampionsQuery == [since : SUBSET Int, until : SUBSET Int, page : Int, page_size : Int]

normalize_champions(q) ==
  [since |-> q.since, until |-> q.until, page |-> ClampedPage(q), page_size |-> ClampedSize(q)]

(* Fault: the window looks at the time the client says it played. *)
base_filter_Played(rows, q) ==
  {i \in Ids(rows) :
     /\ rows[i].seed # {} /\ ~rows[i].deleted
     /\ \A t \in q.since, u \in rows[i].played_at : u >= t
     /\ \A t \in q.until, u \in rows[i].played_at : u < t}

(* Fault: deleted scores still count. *)
base_filter_Deleted(rows, q) ==
  {i \in Ids(rows) :
     /\ rows[i].seed # {}
     /\ \A t \in q.since : rows[i].submitted_at >= t
     /\ \A t \in q.until : rows[i].submitted_at < t}

base_filter(rows, q) ==
  {i \in Ids(rows) :
     /\ rows[i].seed # {} /\ ~rows[i].deleted
     /\ \A t \in q.since : rows[i].submitted_at >= t
     /\ \A t \in q.until : rows[i].submitted_at < t}

total_seeds(rows, q) == Cardinality({rows[i].seed : i \in base_filter(rows, q)})

(* Fault: one row for all seeds together. *)
seed_winners_NoPartition(rows, direction, q) ==
  {i \in base_filter(rows, q) :
     \A j \in base_filter(rows, q) \ {i} : Precedes(rows, direction, "score", i, j)}

(* row_number() OVER (PARTITION BY seed ORDER BY ...) = 1. *)
seed_winners(rows, direction, q) ==
  LET eligible == base_filter(rows, q) IN
  {i \in eligible :
     \A j \in eligible \ {i} :
       rows[j].seed = rows[i].seed => Precedes(rows, direction, "score", i, j)}

wins(rows, winners, player) == Cardinality({i \in winners : rows[i].player = player})

(* GROUP BY player_name; the most wins first, then by name. *)
winners_grouped(rows, direction, q) ==
  LET winners == seed_winners(rows, direction, q)
      players == {rows[i].player : i \in winners}
      ahead(p, o) == \/ wins(rows, winners, p) > wins(rows, winners, o)
                     \/ wins(rows, winners, p) = wins(rows, winners, o) /\ p < o
      ordered == OrderBy(players, ahead)
  IN [i \in DOMAIN ordered |->
        [rank |-> i, player |-> ordered[i], wins |-> wins(rows, winners, ordered[i])]]

total_champions(rows, direction, q) == Len(winners_grouped(rows, direction, q))

champions_page(rows, direction, q) ==
  Paged(winners_grouped(rows, direction, q), q.page, q.page_size)

-------------------------------------------------------------------------------
(* What is expected of the answers. *)

(* The place of a row on its board: behind the better rows, and those level *)
(* with it that came earlier, or at the same time with a lower id.           *)
Place(rows, direction, sort, board, i) ==
  LET ahead == {j \in board : Better(direction, sort, rows[j], rows[i])}
      level == {j \in board \ ahead : ~Better(direction, sort, rows[i], rows[j])}
      earlier == {j \in level : rows[j].submitted_at < rows[i].submitted_at}
      same == {j \in level : rows[j].submitted_at = rows[i].submitted_at /\ j < i}
  IN 1 + Cardinality(ahead) + Cardinality(earlier) + Cardinality(same)

(* A page shows exactly the rows whose places it covers, each at its place,  *)
(* and `total' is the number of places of the board.                         *)
PageIsRight(rows, direction, q, board, total, page) ==
  /\ total = Cardinality(board)
  /\ \A i \in board :
       LET place == Place(rows, direction, q.sort, board, i) IN
       (place - 1) \div q.page_size = q.page - 1
         <=> \E k \in DOMAIN page : page[k] = [rank |-> place, id |-> i]
  /\ \A k \in DOMAIN page : page[k].id \in board
===============================================================================
