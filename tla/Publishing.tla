------------------------------ MODULE Publishing ------------------------------
(***************************************************************************)
(* What every handler that changes the boards of a game promises its       *)
(* readers (the calls of bump_game_version in app/admin/scores.py,         *)
(* app/admin/games.py and app/api/scores.py): first the change is          *)
(* committed, then the same request bumps the game's version once, unless  *)
(* it fails in between and says so.                                        *)
(***************************************************************************)
EXTENDS Integers, FiniteSets

CONSTANT Writers    \* the requests, or the threads that serve them

VARIABLES
  committed,  \* how many changes were committed
  owing,      \* the writers that have committed and not bumped yet
  version,    \* how often the version was bumped
  lost        \* how many writers failed between the two

vars == <<committed, owing, version, lost>>

Init == committed = 0 /\ owing = {} /\ version = 0 /\ lost = 0

Commit(w) ==
  /\ w \notin owing
  /\ committed' = committed + 1
  /\ owing' = owing \cup {w}
  /\ UNCHANGED <<version, lost>>

Bump(w) ==
  /\ w \in owing
  /\ version' = version + 1
  /\ owing' = owing \ {w}
  /\ UNCHANGED <<committed, lost>>

Lose(w) ==
  /\ w \in owing
  /\ lost' = lost + 1
  /\ owing' = owing \ {w}
  /\ UNCHANGED <<committed, version>>

Next == \E w \in Writers : Commit(w) \/ Bump(w) \/ Lose(w)

Spec == Init /\ [][Next]_vars

-------------------------------------------------------------------------------
(* The consequence readers rely on: at rest, version and commits differ by   *)
(* exactly the bumps that failed, so that no bump is early or doubled.       *)
Accounted == version + lost + Cardinality(owing) = committed
===============================================================================
