------------------------------- MODULE MCBoards -------------------------------
(* A small instance of Boards: days of three hours, weeks of two days, years *)
(* of two months.                                                            *)
EXTENDS Boards

Interchangeable == Permutations(Submitters)
MCMonthBegins == <<0, 6>>

(* Clocks that skip an hour, that repeat half of one, or the first of a day. *)
Skips == [at |-> 2, before |-> 0, after |-> 2]
RepeatsHalf == [at |-> 5, before |-> 1, after |-> 0]
RepeatsMidnight == [at |-> 6, before |-> 2, after |-> 0]

MCSetups ==
  {[zone |-> Skips, direction |-> "desc"], [zone |-> RepeatsHalf, direction |-> "asc"],
   [zone |-> RepeatsMidnight, direction |-> "desc"]}
MidnightSetup == {[zone |-> RepeatsMidnight, direction |-> "desc"]}

Submitted(player, score, seed, played_at) ==
  [player |-> player, score |-> score, seed |-> seed, played_at |-> played_at]
(* On seed "s" the scores differ; two of one payload tie. *)
MCPayloads ==
  {Submitted(1, 5, {"s"}, {}), Submitted(2, 7, {"s"}, {9}), Submitted(2, 5, {"t"}, {1})}
OnePayload == {Submitted(1, 5, {}, {})}

Players == {1, 2}
MCProbes == 0..24
Asked(range, seed, name, sort, page, page_size) ==
  [range |-> range, seed |-> seed, name |-> name, sort |-> sort, page |-> page,
   page_size |-> page_size]
MCPages ==
  {Asked("all-time", {"s"}, Players, "score", 2, 1), Asked("all-time", {}, Players, "", 0, 9),
   Asked("daily", {"s"}, Players, "played_at", 1, 2), Asked("hourly", {"s"}, {2}, "submitted_at", 1, 1)}
DailyPage == {Asked("daily", {}, Players, "score", 1, 2)}

MCTallies == {[since |-> {3}, until |-> {7}, page |-> 1, page_size |-> 2]}
===============================================================================
