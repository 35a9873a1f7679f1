------------------------------ MODULE FreshReads ------------------------------
(***************************************************************************)
(* What the public read endpoints of one game promise, apart from how the  *)
(* Redis cache achieves it.  The committed changes to the game's row and   *)
(* to its scores are numbered 1, 2, ...; a database statement that sees    *)
(* the first n of them "reads revision n".  The answer to a read is made   *)
(* of two statements, the total count and the page of rows.                *)
(*                                                                         *)
(* The promise: a read that begins after a change was acknowledged (the    *)
(* submitter got 201, the moderator got the redirect) never shows a state  *)
(* older than that change.                                                 *)
(***************************************************************************)
EXTENDS Integers

CONSTANT Readers

VARIABLES
  rev,     \* number of committed changes
  acked,   \* the latest revision whose author was told it succeeded
  read     \* read[r]: what reader r is waiting for, or was answered

vars == <<rev, acked, read>>

Idle == [state |-> "idle"]
Waiting(floor) == [state |-> "waiting", floor |-> floor]
Answered(floor, total, rows) ==
  [state |-> "answered", floor |-> floor, total |-> total, rows |-> rows]

Init ==
  /\ rev = 0
  /\ acked = 0
  /\ read = [r \in Readers |-> Idle]

(* A change commits; nobody has been told yet. *)
Commit ==
  /\ rev' = rev + 1
  /\ UNCHANGED <<acked, read>>

(* The author of change n is told that it succeeded. *)
Acknowledge(n) ==
  /\ acked' = IF n > acked THEN n ELSE acked
  /\ UNCHANGED <<rev, read>>

(* A read begins: everything acknowledged so far is owed to it. *)
Begin(r) ==
  /\ read[r].state # "waiting"
  /\ read' = [read EXCEPT ![r] = Waiting(acked)]
  /\ UNCHANGED <<rev, acked>>

(* A read of an archived game is refused with a 404. *)
Refuse(r) ==
  /\ read[r].state # "waiting"
  /\ read' = [read EXCEPT ![r] = Idle]
  /\ UNCHANGED <<rev, acked>>

(* The answer: the count is taken first, the page after it. *)
Answer(r) ==
  /\ read[r].state = "waiting"
  /\ \E total, rows \in read[r].floor .. rev :
       /\ total <= rows
       /\ read' = [read EXCEPT ![r] = Answered(read[r].floor, total, rows)]
  /\ UNCHANGED <<rev, acked>>

Next ==
  \/ Commit
  \/ \E n \in 1 .. rev : Acknowledge(n)
  \/ \E r \in Readers : Begin(r) \/ Refuse(r) \/ Answer(r)

Spec == Init /\ [][Next]_vars
===============================================================================
