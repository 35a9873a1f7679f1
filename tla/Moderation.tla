------------------------------ MODULE Moderation ------------------------------
(***************************************************************************)
(* Moderation of the scores of one game: soft-delete, restore and clear    *)
(* (app/admin/scores.py) next to submissions (app/api/scores.py), and the  *)
(* audit log they write (app/models/admin_action.py).                      *)
(*                                                                         *)
(* scores_delete and scores_restore load the row, decide, and flush at the *)
(* end: the INSERT of the audit entry, which draws the entry's id, then    *)
(* the UPDATE of the row, then the commit.  scores_clear is one UPDATE     *)
(* over the visible rows, then the audit INSERT and the commit.            *)
(* Postgres runs them READ COMMITTED: a row that an open transaction has   *)
(* updated is locked until it ends; an UPDATE looks for its rows when it   *)
(* starts, waits for the locked ones, and tests its WHERE on them again.   *)
(* The log is read by id, so its order is that of the INSERTs, which need  *)
(* not be that of the commits.                                             *)
(***************************************************************************)
EXTENDS Integers, Sequences, FiniteSets

CONSTANTS
  Scores,     \* score ids
  Threads,    \* threads serving requests
  MaxActions  \* bound: number of moderation requests that get to write

ASSUME ScoresAssumption == IsFiniteSet(Scores)
ASSUME BoundsAssumption == MaxActions \in Nat

VARIABLES
  present,      \* database: ids of the committed score rows
  deletedAt,    \* database: deleted_at of each row, 0 for NULL
  audit,        \* database: admin_actions, in the order of their commits
  drawn,        \* database: last id drawn from admin_actions' sequence, which a
                \*   rollback does not give back
  version,      \* Redis: how often the game's version key was bumped
  clock,        \* datetime.now(), one tick per request that gets to write
  thread,       \* thread[t]: where t is, the rows it is about to change, the
                \*   deleted_at it gives them, and the id of its audit entry
  unpublished   \* history: how many commits were not followed by a bump

vars == <<present, deletedAt, audit, drawn, version, clock, thread, unpublished>>
database == <<present, deletedAt, audit>>

Answers == {"ready", "answered"}
Stages == {"insert", "write", "update", "log", "commit", "bump"}
Actions == {"score.soft_delete", "score.restore", "scores.clear_all"}

(* `rows' is kept for the properties: a clear_all entry itself names only   *)
(* the game and the count.                                                  *)
Entry == [id : Nat, action : Actions, rows : SUBSET Scores, count : Nat]

Init ==
  /\ present = {}
  /\ deletedAt = [s \in Scores |-> 0]
  /\ audit = <<>>
  /\ version = 0
  /\ clock = 0
  /\ drawn = 0
  /\ thread = [t \in Threads |-> [at |-> "ready", rows |-> {}, stamp |-> 0, id |-> 0]]
  /\ unpublished = 0

Free(t) == thread[t].at \in Answers
Visible == {s \in present : deletedAt[s] = 0}
Goto(t, stage) ==
  thread' = [thread EXCEPT ![t] = [at |-> stage, rows |-> {}, stamp |-> 0, id |-> 0]]

(* Fault: nothing keeps a row for the transaction that has updated it. *)
LockedAgainst_None(t) == {}

(* The rows that clears other than t's have updated and not committed. *)
LockedAgainst(t) ==
  UNION {thread[x].rows : x \in {x \in Threads \ {t} : thread[x].at \in {"log", "commit"}}}

Stamped(t) ==
  [s \in Scores |-> IF s \in thread[t].rows THEN thread[t].stamp ELSE deletedAt[s]]

-------------------------------------------------------------------------------
(* A submission commits its row; its version bump is still to come. *)
SubmitScore(t, s) ==
  /\ Free(t)
  /\ s \notin present
  /\ present' = present \cup {s}
  /\ Goto(t, "bump")
  /\ UNCHANGED <<deletedAt, audit, drawn, version, clock, unpublished>>

Refuse(t) ==
  /\ Free(t)
  /\ Goto(t, "answered")
  /\ UNCHANGED <<database, drawn, version, clock, unpublished>>

Load(t, stage, rows, stamp) ==
  /\ Free(t)
  /\ clock < MaxActions
  /\ clock' = clock + 1
  /\ thread' = [thread EXCEPT ![t] =
       [at |-> stage, rows |-> rows, stamp |-> stamp, id |-> 0]]
  /\ UNCHANGED <<database, drawn, version, unpublished>>

(* scores_delete: 404, "already deleted", or on to the flush. *)
DeleteRefused(t, s) == s \notin Visible /\ Refuse(t)
DeleteLoad(t, s) == s \in Visible /\ Load(t, "insert", {s}, clock + 1)

(* scores_restore: 404, "not deleted", or on to the flush. *)
RestoreRefused(t, s) == s \notin present \ Visible /\ Refuse(t)
RestoreLoad(t, s) == s \in present \ Visible /\ Load(t, "insert", {s}, 0)

(* The audit INSERT draws the next id; nobody else sees the entry yet.  In a  *)
(* delete or restore it comes before the UPDATE (the ORM flushes AdminAction  *)
(* before Score), in a clear after it.                                        *)
AuditInsert(t) ==
  /\ thread[t].at \in {"insert", "log"}
  /\ drawn' = drawn + 1
  /\ thread' = [thread EXCEPT ![t].at = IF @ = "insert" THEN "write" ELSE "commit",
                              ![t].id = drawn + 1]
  /\ UNCHANGED <<database, version, clock, unpublished>>

(* Fault: the audit entry is left out. *)
Write_Unaudited(t) ==
  /\ thread[t].at = "write"
  /\ thread[t].rows \cap LockedAgainst(t) = {}
  /\ deletedAt' = Stamped(t)
  /\ Goto(t, "bump")
  /\ UNCHANGED <<present, audit, drawn, version, clock, unpublished>>

(* The UPDATE and commit of delete and restore: the row, whatever has been   *)
(* done to it since it was loaded.                                           *)
Write(t) ==
  /\ thread[t].at = "write"
  /\ thread[t].rows \cap LockedAgainst(t) = {}
  /\ deletedAt' = Stamped(t)
  /\ audit' = Append(audit,
       [id |-> thread[t].id,
        action |-> IF thread[t].stamp = 0 THEN "score.restore" ELSE "score.soft_delete",
        rows |-> thread[t].rows, count |-> 1])
  /\ Goto(t, "bump")
  /\ UNCHANGED <<present, drawn, version, clock, unpublished>>

(* scores_clear: the UPDATE starts and finds the rows that are visible ... *)
ClearStart(t) == Load(t, "update", Visible, clock + 1)

(* Fault: the rows the UPDATE waited for are not tested again. *)
Matching_Unchecked(t) == thread[t].rows

Matching(t) == thread[t].rows \cap Visible

(* ... waits for the locked ones, and updates those that still match.  With  *)
(* none left the handler rolls back.                                         *)
ClearUpdate(t) ==
  /\ thread[t].at = "update"
  /\ thread[t].rows \cap LockedAgainst(t) = {}
  /\ thread' = [thread EXCEPT ![t].at = IF Matching(t) = {} THEN "answered" ELSE "log",
                              ![t].rows = Matching(t)]
  /\ UNCHANGED <<database, drawn, version, clock, unpublished>>

ClearCommit(t) ==
  /\ thread[t].at = "commit"
  /\ deletedAt' = Stamped(t)
  /\ audit' = Append(audit,
       [id |-> thread[t].id, action |-> "scores.clear_all", rows |-> thread[t].rows,
        count |-> Cardinality(thread[t].rows)])
  /\ Goto(t, "bump")
  /\ UNCHANGED <<present, drawn, version, clock, unpublished>>

(* Fault: the handler answers without the bump. *)
Bump_Forgotten(t) ==
  /\ thread[t].at = "bump"
  /\ Goto(t, "answered")
  /\ UNCHANGED <<database, drawn, version, clock, unpublished>>

Bump(t) ==
  /\ thread[t].at = "bump"
  /\ version' = version + 1
  /\ Goto(t, "answered")
  /\ UNCHANGED <<database, drawn, clock, unpublished>>

(* Postgres or Redis fails, or Postgres breaks a deadlock of two clears: the *)
(* transaction that was open is rolled back, one that was committed stays.   *)
Fail(t) ==
  /\ ~Free(t)
  /\ unpublished' = unpublished + (IF thread[t].at = "bump" THEN 1 ELSE 0)
  /\ Goto(t, "answered")
  /\ UNCHANGED <<database, drawn, version, clock>>

Moderate(t) ==
  \/ \E s \in Scores : DeleteRefused(t, s) \/ DeleteLoad(t, s)
  \/ \E s \in Scores : RestoreRefused(t, s) \/ RestoreLoad(t, s)
  \/ AuditInsert(t)
  \/ Write(t)
  \/ ClearStart(t)
  \/ ClearUpdate(t)
  \/ ClearCommit(t)

Next ==
  \E t \in Threads :
    \/ \E s \in Scores : SubmitScore(t, s)
    \/ Moderate(t)
    \/ Bump(t)
    \/ Fail(t)

Spec == Init /\ [][Next]_vars
-------------------------------------------------------------------------------
(* Properties. *)

(* Type invariant of the module. *)
TypeOK ==
  /\ present \in SUBSET Scores
  /\ deletedAt \in [Scores -> Nat]
  /\ audit \in Seq(Entry)
  /\ version \in Nat
  /\ clock \in Nat
  /\ drawn \in Nat
  /\ thread \in [Threads -> [at : Answers \cup Stages, rows : SUBSET Scores, stamp : Nat,
                             id : Nat]]
  /\ unpublished \in Nat

(* The newest entry about a row, in the order the log is read in             *)
(* (data_models.md:112, ORDER BY id), is one that hid it.                    *)
NewestHid(s) ==
  \E i \in DOMAIN audit :
    /\ s \in audit[i].rows
    /\ audit[i].action # "score.restore"
    /\ \A j \in DOMAIN audit : audit[j].id > audit[i].id => s \notin audit[j].rows

IsLast(s, i) == s \in audit[i].rows /\ \A j \in DOMAIN audit : j > i => s \notin audit[j].rows

(* The last change of a row to commit was a delete or restore that had drawn *)
(* its id before a change that committed ahead of it drew its own.           *)
Overtaken(s) ==
  \E i, k \in DOMAIN audit :
    /\ IsLast(s, i)
    /\ audit[i].action # "scores.clear_all"
    /\ s \in audit[k].rows
    /\ audit[k].id > audit[i].id

(* The log accounts for the table (data_models.md:96): however deletes,      *)
(* restores and clears overlap, a row is hidden exactly when the newest      *)
(* entry about it says so.  The one exception is a delete or restore that    *)
(* was overtaken between its two statements; a clear, which draws its id     *)
(* while it holds the rows, never is, and puts an overtaken row right again. *)
AuditExplainsRows == \A s \in Scores : Overtaken(s) \/ (deletedAt[s] # 0 <=> NewestHid(s))

(* "Cleared n score(s)": the count a clear reports and logs is the number of *)
(* rows its commit hides, and it gives no hidden row a new deleted_at,       *)
(* although rows are deleted, restored and cleared while it runs.            *)
ClearCountsExactly ==
  [][\A t \in Threads :
       (thread[t].at = "commit" /\ thread'[t].at = "bump") =>
         /\ audit'[Len(audit')].count =
              Cardinality({s \in Scores : deletedAt[s] = 0 /\ deletedAt'[s] # 0})
         /\ \A s \in Scores : deletedAt[s] # 0 => deletedAt'[s] = deletedAt[s]]_vars

(* Every committed change, of a score or of its visibility, is bumped for    *)
(* after its commit and once, unless its request fails in between: the       *)
(* handlers keep the promise of Publishing.                                  *)
P == INSTANCE Publishing WITH
  Writers <- Threads,
  committed <- Len(audit) + Cardinality(present),
  owing <- {t \in Threads : thread[t].at = "bump"},
  lost <- unpublished
ImplementsPublishing == P!Spec

-------------------------------------------------------------------------------
(* The inductive invariant behind AuditExplainsRows and ClearCountsExactly:  *)
(* what a clear has updated stays visible to others and belongs to it alone  *)
(* until it commits, so that nothing is logged about it with a later id, and *)
(* only a restore writes NULL.                                               *)
Clearing(t) == thread[t].at \in {"log", "commit"}
HasId(t) == thread[t].at \in {"write", "commit"}

HeldByOne ==
  \A t \in Threads : Clearing(t) =>
    /\ thread[t].rows \subseteq Visible
    /\ \A x \in Threads \ {t} : Clearing(x) => thread[t].rows \cap thread[x].rows = {}

RowsArePresent ==
  \A t \in Threads : thread[t].at \in Stages => thread[t].rows \subseteq present

ClearsStamp ==
  \A t \in Threads : Clearing(t) \/ thread[t].at = "update" => thread[t].stamp # 0

HiddenArePresent == \A s \in Scores : deletedAt[s] # 0 => s \in present

(* In the order of the commits, which no reader of the log can see, the last *)
(* entry about a row always says whether it is hidden.                       *)
RowsFollowCommits ==
  \A s \in Scores :
    \/ deletedAt[s] = 0 /\ \A i \in DOMAIN audit : s \notin audit[i].rows
    \/ \E i \in DOMAIN audit :
         IsLast(s, i) /\ (deletedAt[s] # 0 <=> audit[i].action # "score.restore")

IdsAreUnique ==
  /\ \A i \in DOMAIN audit : audit[i].id <= drawn
  /\ \A t \in Threads : thread[t].id <= drawn
  /\ \A i, j \in DOMAIN audit : audit[i].id = audit[j].id => i = j
  /\ \A t \in Threads : HasId(t) =>
       /\ \A i \in DOMAIN audit : audit[i].id # thread[t].id
       /\ \A x \in Threads : HasId(x) /\ thread[x].id = thread[t].id => x = t

ClearsAreNewest ==
  /\ \A t \in Threads : thread[t].at = "commit" =>
       \A i \in DOMAIN audit :
         thread[t].rows \cap audit[i].rows # {} => audit[i].id < thread[t].id
  /\ \A i, j \in DOMAIN audit :
       /\ audit[i].action = "scores.clear_all"
       /\ j < i
       /\ audit[i].rows \cap audit[j].rows # {}
       => audit[j].id < audit[i].id

IInv ==
  /\ TypeOK
  /\ HeldByOne
  /\ RowsArePresent
  /\ ClearsStamp
  /\ HiddenArePresent
  /\ RowsFollowCommits
  /\ IdsAreUnique
  /\ ClearsAreNewest
===============================================================================
