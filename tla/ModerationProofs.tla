--------------------------- MODULE ModerationProofs ---------------------------
(***************************************************************************)
(* Proofs about Moderation, for any set of scores, any number of threads   *)
(* and any bound on the requests.                                          *)
(***************************************************************************)
EXTENDS Moderation, FiniteSetTheorems, TLAPS

USE BoundsAssumption

ThreadState == [at : Answers \cup Stages, rows : SUBSET Scores, stamp : Nat, id : Nat]

(* What Goto does: the thread keeps no rows. *)
LEMMA GotoEffect ==
  ASSUME TypeOK, NEW t \in Threads, NEW stage \in Answers \cup {"bump"}, Goto(t, stage)
  PROVE  /\ thread' \in [Threads -> ThreadState]
         /\ thread'[t].at = stage /\ thread'[t].rows = {}
         /\ thread'[t].stamp = 0 /\ thread'[t].id = 0
         /\ \A x \in Threads \ {t} : thread'[x] = thread[x]
BY DEF TypeOK, Goto, ThreadState, Answers, Stages

LEMMA StampedType ==
  ASSUME TypeOK, NEW t \in Threads
  PROVE  Stamped(t) \in [Scores -> Nat]
BY DEF TypeOK, Stamped

(* What Load does, for the rows and the stamp its three callers give it. *)
LEMMA LoadEffect ==
  ASSUME TypeOK, NEW t \in Threads, NEW stage \in {"insert", "update"},
         NEW rows \in SUBSET Scores, NEW stamp \in Nat, Load(t, stage, rows, stamp)
  PROVE  /\ TypeOK'
         /\ thread'[t] = [at |-> stage, rows |-> rows, stamp |-> stamp, id |-> 0]
         /\ \A x \in Threads \ {t} : thread'[x] = thread[x]
         /\ UNCHANGED <<database, drawn, version, unpublished>>
BY DEF TypeOK, Load, database, Stages

(* What AuditInsert does: one more id, for this thread alone. *)
LEMMA InsertEffect ==
  ASSUME TypeOK, NEW t \in Threads, AuditInsert(t)
  PROVE  /\ TypeOK'
         /\ drawn' = drawn + 1
         /\ thread'[t].at = IF thread[t].at = "insert" THEN "write" ELSE "commit"
         /\ thread'[t].id = drawn + 1
         /\ thread'[t].rows = thread[t].rows /\ thread'[t].stamp = thread[t].stamp
         /\ \A x \in Threads \ {t} : thread'[x] = thread[x]
         /\ UNCHANGED <<database, version, clock, unpublished>>
<1> DEFINE stage == IF thread[t].at = "insert" THEN "write" ELSE "commit"
           new == [thread[t] EXCEPT !.at = stage, !.id = drawn + 1]
<1>1. thread[t] \in ThreadState /\ drawn + 1 \in Nat /\ stage \in Stages
  BY DEF TypeOK, ThreadState, Stages
<1>3. /\ new \in ThreadState
      /\ new.at = stage /\ new.id = drawn + 1
      /\ new.rows = thread[t].rows /\ new.stamp = thread[t].stamp
  <2> HIDE DEF stage
  <2>1. QED BY <1>1 DEF ThreadState
<1>4. thread' = [thread EXCEPT ![t] = new]
  BY DEF AuditInsert
<1>5. thread' \in [Threads -> ThreadState]
  BY <1>3, <1>4 DEF TypeOK, ThreadState
<1>6. TypeOK'
  BY <1>5 DEF AuditInsert, TypeOK, ThreadState, database
<1>7. thread'[t] = new /\ \A x \in Threads \ {t} : thread'[x] = thread[x]
  BY <1>4 DEF TypeOK
<1>8. QED BY <1>3, <1>6, <1>7 DEF AuditInsert

LEMMA TypeInit == Init => TypeOK
BY DEF Init, TypeOK, Answers, Entry

LEMMA TypeStep == TypeOK /\ [Next]_vars => TypeOK'
<1> SUFFICES ASSUME TypeOK, [Next]_vars PROVE TypeOK'
  OBVIOUS
<1> USE DEF ThreadState
<1>1. ASSUME NEW t \in Threads, NEW s \in Scores, SubmitScore(t, s) PROVE TypeOK'
  BY <1>1, GotoEffect DEF SubmitScore, TypeOK
<1>2. ASSUME NEW t \in Threads, NEW s \in Scores,
             DeleteRefused(t, s) \/ RestoreRefused(t, s)
      PROVE  TypeOK'
  BY <1>2, GotoEffect DEF DeleteRefused, RestoreRefused, Refuse, TypeOK, Answers, database
<1>3. ASSUME NEW t \in Threads, NEW s \in Scores, DeleteLoad(t, s) \/ RestoreLoad(t, s)
      PROVE  TypeOK'
  <2>1. clock + 1 \in Nat /\ 0 \in Nat /\ {s} \in SUBSET Scores
    BY DEF TypeOK
  <2>2. QED BY <1>3, <2>1, LoadEffect DEF DeleteLoad, RestoreLoad
<1>4. ASSUME NEW t \in Threads, Write(t) PROVE TypeOK'
  <2>1. thread[t].rows \in SUBSET Scores
    BY DEF TypeOK
  <2>2. audit' \in Seq(Entry)
    BY <1>4, <2>1 DEF Write, TypeOK, Entry, Actions
  <2>3. QED BY <1>4, <2>2, GotoEffect, StampedType DEF Write, TypeOK
<1>5. ASSUME NEW t \in Threads, ClearStart(t) PROVE TypeOK'
  <2>1. clock + 1 \in Nat /\ Visible \in SUBSET Scores
    BY DEF TypeOK, Visible
  <2>2. QED BY <1>5, <2>1, LoadEffect DEF ClearStart
<1>6. ASSUME NEW t \in Threads, ClearUpdate(t) PROVE TypeOK'
  <2>1. Matching(t) \in SUBSET Scores
    BY DEF TypeOK, Matching
  <2> DEFINE new == [thread[t] EXCEPT !.at = IF Matching(t) = {} THEN "answered" ELSE "log",
                                      !.rows = Matching(t)]
  <2>2. new \in ThreadState
    BY <2>1 DEF TypeOK, Answers, Stages
  <2>3. thread' = [thread EXCEPT ![t] = new]
    BY <1>6 DEF ClearUpdate
  <2>4. thread' \in [Threads -> ThreadState]
    BY <2>2, <2>3 DEF TypeOK
  <2>5. QED BY <1>6, <2>4 DEF ClearUpdate, TypeOK, database
<1>7. ASSUME NEW t \in Threads, ClearCommit(t) PROVE TypeOK'
  <2>1. thread[t].rows \in SUBSET Scores /\ Cardinality(thread[t].rows) \in Nat
    BY ScoresAssumption, FS_Subset, FS_CardinalityType DEF TypeOK
  <2>2. audit' \in Seq(Entry)
    BY <1>7, <2>1 DEF ClearCommit, TypeOK, Entry, Actions
  <2>3. QED BY <1>7, <2>2, GotoEffect, StampedType DEF ClearCommit, TypeOK
<1>8. ASSUME NEW t \in Threads, Bump(t) PROVE TypeOK'
  BY <1>8, GotoEffect DEF Bump, TypeOK, Answers, database
<1>9. ASSUME NEW t \in Threads, Fail(t) PROVE TypeOK'
  BY <1>9, GotoEffect DEF Fail, TypeOK, Answers, database
<1>10. CASE UNCHANGED vars
  BY <1>10 DEF vars, TypeOK
<1>11. ASSUME NEW t \in Threads, AuditInsert(t) PROVE TypeOK'
  BY <1>11, InsertEffect
<1>12. QED
  BY <1>1, <1>2, <1>3, <1>4, <1>5, <1>6, <1>7, <1>8, <1>9, <1>10, <1>11 DEF Next, Moderate

(* Every reachable state of the table, the log and the requests is well typed. *)
THEOREM TypeCorrect == Spec => []TypeOK
BY TypeInit, TypeStep, PTL DEF Spec

LEMMA LogTypes ==
  ASSUME TypeOK
  PROVE  DOMAIN audit \subseteq Nat /\ \A i \in DOMAIN audit : audit[i].id \in Nat
<1>1. ASSUME NEW i \in DOMAIN audit PROVE audit[i] \in Entry
  BY DEF TypeOK
<1>2. QED BY <1>1 DEF TypeOK, Entry

(* The log before and after an entry is appended. *)
LEMMA AppendFacts ==
  ASSUME TypeOK, NEW entry \in Entry, audit' = Append(audit, entry)
  PROVE  /\ Len(audit) \in Nat
         /\ DOMAIN audit' = 1 .. Len(audit) + 1 /\ DOMAIN audit = 1 .. Len(audit)
         /\ audit'[Len(audit) + 1] = entry
         /\ \A i \in DOMAIN audit : audit'[i] = audit[i]
         /\ \A i \in DOMAIN audit : audit[i] \in Entry
BY DEF TypeOK

LEMMA InvInit == Init => IInv
BY TypeInit
DEF Init, IInv, HeldByOne, RowsArePresent, ClearsStamp, HiddenArePresent, RowsFollowCommits,
    IdsAreUnique, ClearsAreNewest, Clearing, HasId, Stages

(* A commit, of whichever handler: the rows it stamps and the entry it adds.  *)
LEMMA CommitStep ==
  ASSUME IInv, NEW t \in Threads, NEW entry \in Entry,
         deletedAt' = Stamped(t), audit' = Append(audit, entry), present' = present,
         entry.rows = thread[t].rows, thread[t].rows \subseteq present,
         thread[t].stamp # 0 <=> entry.action # "score.restore"
  PROVE  HiddenArePresent' /\ RowsFollowCommits'
<1>1. \A s \in Scores :
        deletedAt'[s] = IF s \in entry.rows THEN thread[t].stamp ELSE deletedAt[s]
  BY DEF Stamped
<1>2. HiddenArePresent'
  BY <1>1 DEF HiddenArePresent, IInv
<1>3. /\ Len(audit) \in Nat
      /\ DOMAIN audit' = 1 .. Len(audit) + 1 /\ DOMAIN audit = 1 .. Len(audit)
      /\ audit'[Len(audit) + 1] = entry
      /\ \A i \in DOMAIN audit : audit'[i] = audit[i]
  BY AppendFacts DEF IInv
<1>4. RowsFollowCommits'
  <2> SUFFICES ASSUME NEW s \in Scores
               PROVE  \/ deletedAt'[s] = 0 /\ \A i \in DOMAIN audit' : s \notin audit'[i].rows
                      \/ \E i \in DOMAIN audit' :
                           IsLast(s, i)' /\ (deletedAt'[s] # 0 <=> audit'[i].action # "score.restore")
    BY DEF RowsFollowCommits
  <2>1. CASE s \in entry.rows
    <3>1. PICK n \in DOMAIN audit' : n = Len(audit) + 1
      BY <1>3
    <3>2. IsLast(s, n)'
      BY <1>3, <2>1, <3>1 DEF IsLast
    <3>3. QED BY <1>1, <1>3, <2>1, <3>1, <3>2
  <2>2. CASE s \notin entry.rows
    <3>1. deletedAt'[s] = deletedAt[s]
      BY <1>1, <2>2
    <3>2. ASSUME NEW i \in DOMAIN audit, IsLast(s, i) PROVE IsLast(s, i)'
      BY <1>3, <2>2, <3>2 DEF IsLast
    <3>3. (\A i \in DOMAIN audit : s \notin audit[i].rows)
            => \A i \in DOMAIN audit' : s \notin audit'[i].rows
      BY <1>3, <2>2
    <3>4. DOMAIN audit \subseteq DOMAIN audit'
      BY <1>3
    <3>5. \/ deletedAt[s] = 0 /\ \A i \in DOMAIN audit : s \notin audit[i].rows
          \/ \E i \in DOMAIN audit :
               IsLast(s, i) /\ (deletedAt[s] # 0 <=> audit[i].action # "score.restore")
      BY DEF IInv, RowsFollowCommits
    <3>6. QED BY <1>3, <3>1, <3>2, <3>3, <3>4, <3>5
  <2>3. QED BY <2>1, <2>2
<1>5. QED BY <1>2, <1>4

(* A step that leaves rows and log alone keeps what they say of each other.   *)
LEMMA QuietStep ==
  ASSUME IInv, UNCHANGED <<deletedAt, audit>>, present \subseteq present'
  PROVE  HiddenArePresent' /\ RowsFollowCommits'
BY DEF IInv, HiddenArePresent, RowsFollowCommits, IsLast

(* A thread that reaches a stage where it holds nothing gets in no one's way. *)
LEMMA LeavingStep ==
  ASSUME IInv, NEW t \in Threads, NEW stage \in Answers \cup {"bump"}, Goto(t, stage),
         present \subseteq present',
         \A x \in Threads \ {t} : Clearing(x) => thread[x].rows \subseteq Visible'
  PROVE  HeldByOne' /\ RowsArePresent' /\ ClearsStamp'
<1>1. /\ thread'[t].at = stage /\ thread'[t].rows = {}
      /\ \A x \in Threads \ {t} : thread'[x] = thread[x]
  BY GotoEffect DEF IInv
<1>2. ~Clearing(t)' /\ thread'[t].at # "update"
  BY <1>1 DEF Answers, Clearing
<1>3. HeldByOne'
  BY <1>1, <1>2 DEF IInv, HeldByOne, Clearing
<1>4. RowsArePresent' /\ ClearsStamp'
  BY <1>1, <1>2 DEF IInv, RowsArePresent, ClearsStamp, Clearing
<1>5. QED BY <1>3, <1>4

(* Ids stay unique when no entry is logged and the threads but one keep what  *)
(* they have, if that one has no id or a new one.                             *)
LEMMA IdsStep ==
  ASSUME IInv, NEW t \in Threads, audit' = audit, drawn' \in {drawn, drawn + 1},
         \A x \in Threads \ {t} : thread'[x] = thread[x],
         \/ ~HasId(t)' /\ thread'[t].id = 0
         \/ drawn' = drawn + 1 /\ thread'[t].id = drawn'
            /\ thread'[t].rows = thread[t].rows
  PROVE  IdsAreUnique' /\ ClearsAreNewest'
<1>1. /\ drawn \in Nat /\ \A i \in DOMAIN audit : audit[i].id \in Nat
      /\ \A x \in Threads : thread[x].id \in Nat
  BY LogTypes DEF IInv, TypeOK
<1>2. /\ \A i \in DOMAIN audit : audit[i].id <= drawn
      /\ \A x \in Threads : thread[x].id <= drawn
  BY DEF IInv, IdsAreUnique
<1>3. IdsAreUnique'
  <2>1. /\ \A i \in DOMAIN audit' : audit'[i].id <= drawn'
        /\ \A x \in Threads : thread'[x].id <= drawn'
    BY <1>1, <1>2
  <2>2. \A i, j \in DOMAIN audit' : audit'[i].id = audit'[j].id => i = j
    BY DEF IInv, IdsAreUnique
  <2>3. ASSUME NEW x \in Threads, HasId(x)'
        PROVE  /\ \A i \in DOMAIN audit' : audit'[i].id # thread'[x].id
               /\ \A y \in Threads : HasId(y)' /\ thread'[y].id = thread'[x].id => y = x
    <3>1. \A y \in Threads \ {t} : HasId(y)' => HasId(y)
      BY DEF HasId
    <3>2. CASE x = t
      BY <1>1, <1>2, <2>3, <3>2
    <3>3. CASE x # t
      <4>1. /\ \A i \in DOMAIN audit : audit[i].id # thread[x].id
            /\ \A y \in Threads \ {t} : HasId(y) /\ thread[y].id = thread[x].id => y = x
            /\ thread'[x] = thread[x]
        BY <2>3, <3>1, <3>3 DEF IInv, IdsAreUnique
      <4>2. HasId(t)' => thread'[t].id # thread'[x].id
        BY <1>1, <1>2, <4>1
      <4>3. QED BY <3>1, <3>3, <4>1, <4>2
    <3>4. QED BY <3>2, <3>3
  <2>4. QED BY <2>1, <2>2, <2>3 DEF IdsAreUnique
<1>4. ClearsAreNewest'
  <2>1. ASSUME NEW x \in Threads, thread'[x].at = "commit", NEW i \in DOMAIN audit',
               thread'[x].rows \cap audit'[i].rows # {}
        PROVE  audit'[i].id < thread'[x].id
    <3>1. CASE x = t
      BY <1>1, <1>2, <2>1, <3>1 DEF HasId
    <3>2. CASE x # t
      BY <2>1, <3>2 DEF IInv, ClearsAreNewest
    <3>3. QED BY <3>1, <3>2
  <2>2. QED BY <2>1 DEF IInv, ClearsAreNewest
<1>5. QED BY <1>3, <1>4

(* A commit puts the id its thread drew into the log and nothing else: a      *)
(* clear's is the highest about its rows, and no clear in progress has any of *)
(* the rows of another commit.                                                *)
LEMMA CommitIds ==
  ASSUME IInv, NEW t \in Threads, NEW entry \in Entry, HasId(t),
         entry.id = thread[t].id, entry.rows = thread[t].rows,
         entry.action = "scores.clear_all" => thread[t].at = "commit",
         \A x \in Threads \ {t} : thread[x].at = "commit" =>
           thread[t].rows \cap thread[x].rows = {},
         audit' = Append(audit, entry), drawn' = drawn, Goto(t, "bump")
  PROVE  IdsAreUnique' /\ ClearsAreNewest'
<1>1. /\ Len(audit) \in Nat
      /\ DOMAIN audit' = 1 .. Len(audit) + 1 /\ DOMAIN audit = 1 .. Len(audit)
      /\ audit'[Len(audit) + 1] = entry
      /\ \A i \in DOMAIN audit : audit'[i] = audit[i] /\ audit[i] \in Entry
  BY AppendFacts DEF IInv
<1>2. /\ thread'[t].at = "bump" /\ thread'[t].id = 0
      /\ \A x \in Threads \ {t} : thread'[x] = thread[x]
  BY GotoEffect DEF IInv
<1>3. \A i \in DOMAIN audit' : i \in DOMAIN audit \/ i = Len(audit) + 1
  BY <1>1
<1>4. drawn \in Nat /\ thread[t].id \in Nat
  BY DEF IInv, TypeOK
<1>5. IdsAreUnique'
  <2>1. /\ \A i \in DOMAIN audit' : audit'[i].id <= drawn'
        /\ \A x \in Threads : thread'[x].id <= drawn'
    BY <1>1, <1>2, <1>3, <1>4 DEF IInv, IdsAreUnique
  <2>2. \A i \in DOMAIN audit : audit[i].id # entry.id
    BY DEF IInv, IdsAreUnique
  <2>3. \A i, j \in DOMAIN audit' : audit'[i].id = audit'[j].id => i = j
    BY <1>1, <1>3, <2>2 DEF IInv, IdsAreUnique
  <2>4. ASSUME NEW x \in Threads, HasId(x)'
        PROVE  /\ \A i \in DOMAIN audit' : audit'[i].id # thread'[x].id
               /\ \A y \in Threads : HasId(y)' /\ thread'[y].id = thread'[x].id => y = x
    <3>1. x # t /\ HasId(x) /\ thread'[x] = thread[x]
      BY <1>2, <2>4 DEF HasId
    <3>2. thread[x].id # entry.id
      BY <3>1 DEF IInv, IdsAreUnique
    <3>3. \A i \in DOMAIN audit' : audit'[i].id # thread'[x].id
      BY <1>1, <1>3, <3>1, <3>2 DEF IInv, IdsAreUnique
    <3>4. ASSUME NEW y \in Threads, HasId(y)', thread'[y].id = thread'[x].id PROVE y = x
      BY <1>2, <3>1, <3>4 DEF HasId, IInv, IdsAreUnique
    <3>5. QED BY <3>3, <3>4
  <2>5. QED BY <2>1, <2>3, <2>4 DEF IdsAreUnique
<1>6. ClearsAreNewest'
  <2>1. ASSUME NEW x \in Threads, thread'[x].at = "commit", NEW i \in DOMAIN audit',
               thread'[x].rows \cap audit'[i].rows # {}
        PROVE  audit'[i].id < thread'[x].id
    <3>1. x # t /\ thread'[x] = thread[x] /\ thread[x].at = "commit"
      BY <1>2, <2>1
    <3>2. i \in DOMAIN audit
      BY <1>1, <1>3, <2>1, <3>1
    <3>3. QED BY <1>1, <2>1, <3>1, <3>2 DEF IInv, ClearsAreNewest
  <2>2. ASSUME NEW i \in DOMAIN audit', NEW j \in DOMAIN audit',
               audit'[i].action = "scores.clear_all", j < i,
               audit'[i].rows \cap audit'[j].rows # {}
        PROVE  audit'[j].id < audit'[i].id
    <3>1. j \in DOMAIN audit
      BY <1>1, <2>2
    <3>2. CASE i \in DOMAIN audit
      BY <1>1, <2>2, <3>1, <3>2 DEF IInv, ClearsAreNewest
    <3>3. CASE i = Len(audit) + 1
      BY <1>1, <2>2, <3>1, <3>3 DEF IInv, ClearsAreNewest
    <3>4. QED BY <1>3, <3>2, <3>3
  <2>3. QED BY <2>1, <2>2 DEF ClearsAreNewest
<1>7. QED BY <1>5, <1>6

LEMMA InvStep == IInv /\ [Next]_vars => IInv'
<1> SUFFICES ASSUME IInv, [Next]_vars PROVE IInv'
  OBVIOUS
<1>0. TypeOK /\ TypeOK'
  BY TypeStep DEF IInv
<1>1. ASSUME NEW t \in Threads, NEW s \in Scores, SubmitScore(t, s) PROVE IInv'
  <2>1. present \subseteq present' /\ UNCHANGED <<deletedAt, audit, drawn>> /\ Goto(t, "bump")
    BY <1>1 DEF SubmitScore
  <2>2. \A x \in Threads : Clearing(x) => thread[x].rows \subseteq Visible'
    BY <2>1 DEF IInv, HeldByOne, Visible
  <2>3. IdsAreUnique' /\ ClearsAreNewest'
    BY <1>0, <2>1, GotoEffect, IdsStep DEF HasId
  <2>4. QED BY <1>0, <2>1, <2>2, <2>3, LeavingStep, QuietStep DEF IInv
<1>2. ASSUME NEW t \in Threads, NEW stage \in Answers, Goto(t, stage), UNCHANGED database,
             drawn' = drawn
      PROVE  IInv'
  <2>1. \A x \in Threads : Clearing(x) => thread[x].rows \subseteq Visible'
    BY <1>2 DEF IInv, HeldByOne, Visible, database
  <2>2. thread'[t].at = stage /\ thread'[t].id = 0 /\ \A x \in Threads \ {t} : thread'[x] = thread[x]
    BY <1>0, <1>2, GotoEffect
  <2>3. IdsAreUnique' /\ ClearsAreNewest'
    BY <1>2, <2>2, IdsStep DEF HasId, Answers, database
  <2>4. QED BY <1>0, <1>2, <2>1, <2>3, LeavingStep, QuietStep DEF IInv, database
<1>3. ASSUME NEW t \in Threads, NEW stage \in {"insert", "update"}, NEW rows \in SUBSET present,
             NEW stamp \in Nat, stage = "update" => stamp # 0, Load(t, stage, rows, stamp)
      PROVE  IInv'
  <2>1. rows \in SUBSET Scores
    BY <1>0 DEF TypeOK
  <2>2. /\ thread'[t] = [at |-> stage, rows |-> rows, stamp |-> stamp, id |-> 0]
        /\ \A x \in Threads \ {t} : thread'[x] = thread[x]
        /\ UNCHANGED <<database, drawn>>
    BY <1>0, <1>3, <2>1, LoadEffect
  <2>3. HiddenArePresent' /\ RowsFollowCommits'
    BY <2>2, QuietStep DEF database
  <2>4. HeldByOne'
    BY <2>2 DEF IInv, HeldByOne, Visible, database, Clearing
  <2>5. RowsArePresent' /\ ClearsStamp'
    BY <1>3, <2>2 DEF IInv, RowsArePresent, ClearsStamp, database, Clearing
  <2>6. IdsAreUnique' /\ ClearsAreNewest'
    BY <2>2, IdsStep DEF HasId, database
  <2>7. QED BY <1>0, <2>3, <2>4, <2>5, <2>6 DEF IInv
<1>4. ASSUME NEW t \in Threads, NEW entry \in Entry, HasId(t),
             \A x \in Threads \ {t} : Clearing(x) => thread[t].rows \cap thread[x].rows = {},
             deletedAt' = Stamped(t), audit' = Append(audit, entry), UNCHANGED <<present, drawn>>,
             entry.id = thread[t].id, entry.rows = thread[t].rows,
             entry.action = "scores.clear_all" => thread[t].at = "commit",
             thread[t].stamp # 0 <=> entry.action # "score.restore",
             Goto(t, "bump")
      PROVE  IInv'
  <2>1. HiddenArePresent' /\ RowsFollowCommits'
    BY <1>4, CommitStep DEF IInv, RowsArePresent, HasId, Stages
  <2>2. \A x \in Threads \ {t} : Clearing(x) => thread[x].rows \subseteq Visible'
    BY <1>4 DEF IInv, HeldByOne, Visible, Stamped, TypeOK
  <2>3. IdsAreUnique' /\ ClearsAreNewest'
    BY <1>4, CommitIds DEF Clearing
  <2>4. QED BY <1>0, <1>4, <2>1, <2>2, <2>3, LeavingStep DEF IInv
<1>5. ASSUME NEW t \in Threads, ClearUpdate(t) PROVE IInv'
  <2>1. /\ \A x \in Threads \ {t} : thread'[x] = thread[x]
        /\ thread'[t].rows = Matching(t)
        /\ thread'[t].at \in {"answered", "log"}
        /\ thread'[t].stamp = thread[t].stamp
        /\ thread'[t].id = thread[t].id
        /\ UNCHANGED <<database, drawn>>
    BY <1>0, <1>5 DEF ClearUpdate, TypeOK
  <2>2. HiddenArePresent' /\ RowsFollowCommits'
    BY <2>1, QuietStep DEF database
  <2>3. Matching(t) \subseteq Visible /\ Visible' = Visible /\ Visible \subseteq present
    BY <2>1 DEF Matching, Visible, database
  <2>4. \A x \in Threads \ {t} : Clearing(x) => Matching(t) \cap thread[x].rows = {}
    BY <1>5 DEF ClearUpdate, LockedAgainst, Matching, Clearing
  <2>5. HeldByOne'
    BY <2>1, <2>3, <2>4 DEF IInv, HeldByOne, Clearing
  <2>6. RowsArePresent'
    BY <2>1, <2>3 DEF IInv, RowsArePresent, database
  <2>7. ClearsStamp'
    BY <1>5, <2>1 DEF IInv, ClearsStamp, ClearUpdate, Clearing
  <2>8. IdsAreUnique'
    BY <2>1 DEF IInv, IdsAreUnique, HasId, database
  <2>9. ClearsAreNewest'
    BY <2>1 DEF IInv, ClearsAreNewest, database
  <2>10. QED BY <1>0, <2>2, <2>5, <2>6, <2>7, <2>8, <2>9 DEF IInv
<1>14. ASSUME NEW t \in Threads, AuditInsert(t) PROVE IInv'
  <2>1. /\ drawn' = drawn + 1
        /\ thread'[t].at = IF thread[t].at = "insert" THEN "write" ELSE "commit"
        /\ thread'[t].id = drawn + 1
        /\ thread'[t].rows = thread[t].rows /\ thread'[t].stamp = thread[t].stamp
        /\ \A x \in Threads \ {t} : thread'[x] = thread[x]
        /\ UNCHANGED database
    BY <1>0, <1>14, InsertEffect
  <2>2. thread[t].at \in {"insert", "log"} /\ (Clearing(t)' => Clearing(t))
    BY <1>14, <2>1 DEF AuditInsert, Clearing
  <2>3. HiddenArePresent' /\ RowsFollowCommits'
    BY <2>1, QuietStep DEF database
  <2>4. HeldByOne'
    BY <2>1, <2>2 DEF IInv, HeldByOne, Visible, database, Clearing
  <2>5. RowsArePresent' /\ ClearsStamp'
    BY <2>1, <2>2 DEF IInv, RowsArePresent, ClearsStamp, database, Clearing, Stages
  <2>6. IdsAreUnique' /\ ClearsAreNewest'
    BY <2>1, IdsStep DEF database
  <2>7. QED BY <1>0, <2>3, <2>4, <2>5, <2>6 DEF IInv
<1>6. ASSUME NEW t \in Threads, NEW s \in Scores, DeleteRefused(t, s) \/ RestoreRefused(t, s)
      PROVE  IInv'
  BY <1>2, <1>6 DEF DeleteRefused, RestoreRefused, Refuse, Answers
<1>7. ASSUME NEW t \in Threads, NEW s \in Scores, DeleteLoad(t, s) \/ RestoreLoad(t, s)
      PROVE  IInv'
  <2>1. clock + 1 \in Nat /\ 0 \in Nat
    BY <1>0 DEF TypeOK
  <2>2. CASE DeleteLoad(t, s)
    BY <1>3, <2>1, <2>2 DEF DeleteLoad, Visible
  <2>3. CASE RestoreLoad(t, s)
    BY <1>3, <2>1, <2>3 DEF RestoreLoad
  <2>4. QED BY <1>7, <2>2, <2>3
<1>8. ASSUME NEW t \in Threads, Write(t) PROVE IInv'
  <2> DEFINE entry ==
        [id |-> thread[t].id,
         action |-> IF thread[t].stamp = 0 THEN "score.restore" ELSE "score.soft_delete",
         rows |-> thread[t].rows, count |-> 1]
  <2>1. entry \in Entry
    BY <1>0 DEF TypeOK, Entry, Actions
  <2>2. /\ thread[t].stamp # 0 <=> entry.action # "score.restore"
        /\ entry.action # "scores.clear_all"
        /\ entry.id = thread[t].id /\ entry.rows = thread[t].rows
    OBVIOUS
  <2>3. \A x \in Threads \ {t} : Clearing(x) => thread[t].rows \cap thread[x].rows = {}
    BY <1>8 DEF Write, LockedAgainst, Clearing
  <2>4. /\ HasId(t) /\ deletedAt' = Stamped(t) /\ audit' = Append(audit, entry)
        /\ UNCHANGED <<present, drawn>> /\ Goto(t, "bump")
    BY <1>8 DEF Write, HasId
  <2> HIDE DEF entry
  <2>5. QED BY <1>4, <2>1, <2>2, <2>3, <2>4
<1>9. ASSUME NEW t \in Threads, ClearStart(t) PROVE IInv'
  <2>1. clock + 1 \in Nat /\ clock + 1 # 0 /\ Visible \in SUBSET present
    BY <1>0 DEF TypeOK, Visible
  <2>2. QED BY <1>3, <1>9, <2>1 DEF ClearStart
<1>10. ASSUME NEW t \in Threads, ClearCommit(t) PROVE IInv'
  <2> DEFINE entry == [id |-> thread[t].id, action |-> "scores.clear_all",
                       rows |-> thread[t].rows, count |-> Cardinality(thread[t].rows)]
  <2>1. entry \in Entry
    BY <1>0, ScoresAssumption, FS_Subset, FS_CardinalityType DEF TypeOK, Entry, Actions
  <2>2. thread[t].at = "commit" /\ thread[t].stamp # 0
    BY <1>10 DEF ClearCommit, IInv, ClearsStamp, Clearing
  <2>3. /\ thread[t].stamp # 0 <=> entry.action # "score.restore"
        /\ entry.id = thread[t].id /\ entry.rows = thread[t].rows
    BY <2>2
  <2>4. \A x \in Threads \ {t} : Clearing(x) => thread[t].rows \cap thread[x].rows = {}
    BY <2>2 DEF IInv, HeldByOne, Clearing
  <2>5. /\ HasId(t) /\ deletedAt' = Stamped(t) /\ audit' = Append(audit, entry)
        /\ UNCHANGED <<present, drawn>> /\ Goto(t, "bump")
    BY <1>10 DEF ClearCommit, HasId
  <2> HIDE DEF entry
  <2>6. QED BY <1>4, <2>1, <2>2, <2>3, <2>4, <2>5
<1>11. ASSUME NEW t \in Threads, Bump(t) \/ Fail(t) PROVE IInv'
  BY <1>2, <1>11 DEF Bump, Fail, Answers
<1>12. CASE UNCHANGED vars
  <2>1. HiddenArePresent' /\ RowsFollowCommits'
    BY <1>12, QuietStep DEF vars
  <2>2. HeldByOne' /\ RowsArePresent' /\ ClearsStamp'
    BY <1>12 DEF vars, IInv, HeldByOne, RowsArePresent, ClearsStamp, Visible, Clearing
  <2>3. IdsAreUnique' /\ ClearsAreNewest'
    BY <1>12 DEF vars, IInv, IdsAreUnique, ClearsAreNewest, HasId
  <2>4. QED BY <1>0, <2>1, <2>2, <2>3 DEF IInv
<1>13. QED
  BY <1>1, <1>5, <1>6, <1>7, <1>8, <1>9, <1>10, <1>11, <1>12, <1>14 DEF Next, Moderate

(* The inductive invariant holds in every reachable state. *)
THEOREM Invariance == Spec => []IInv
BY InvInit, InvStep, PTL DEF Spec

(* Of the entries about a row, the last to commit has the highest id unless   *)
(* it was overtaken, and a clear cannot be.                                   *)
LEMMA LogExplains == IInv => AuditExplainsRows
<1> SUFFICES ASSUME IInv, NEW s \in Scores, ~Overtaken(s)
             PROVE  deletedAt[s] # 0 <=> NewestHid(s)
  BY DEF AuditExplainsRows
<1>1. CASE deletedAt[s] = 0 /\ \A i \in DOMAIN audit : s \notin audit[i].rows
  BY <1>1 DEF NewestHid
<1>2. ASSUME NEW i \in DOMAIN audit, IsLast(s, i),
             deletedAt[s] # 0 <=> audit[i].action # "score.restore"
      PROVE  deletedAt[s] # 0 <=> NewestHid(s)
  <2>1. /\ DOMAIN audit \subseteq Nat
        /\ \A k \in DOMAIN audit : audit[k].id \in Nat
    BY LogTypes DEF IInv
  <2>2. ASSUME NEW k \in DOMAIN audit, s \in audit[k].rows, k # i
        PROVE  audit[k].id < audit[i].id
    <3>1. k < i /\ s \in audit[i].rows
      BY <1>2, <2>1, <2>2 DEF IsLast
    <3>2. CASE audit[i].action = "scores.clear_all"
      BY <2>2, <3>1, <3>2 DEF IInv, ClearsAreNewest
    <3>3. CASE audit[i].action # "scores.clear_all"
      <4>1. ~(audit[k].id > audit[i].id)
        BY <1>2, <2>2, <3>3 DEF Overtaken
      <4>2. audit[k].id # audit[i].id
        BY <2>2 DEF IInv, IdsAreUnique
      <4>3. QED BY <2>1, <4>1, <4>2
    <3>4. QED BY <3>2, <3>3
  <2>3. ASSUME audit[i].action # "score.restore" PROVE NewestHid(s)
    BY <1>2, <2>1, <2>2, <2>3 DEF NewestHid, IsLast
  <2>4. ASSUME NewestHid(s) PROVE audit[i].action # "score.restore"
    <3>1. PICK k \in DOMAIN audit :
            /\ s \in audit[k].rows
            /\ audit[k].action # "score.restore"
            /\ \A j \in DOMAIN audit : audit[j].id > audit[k].id => s \notin audit[j].rows
      BY <2>4 DEF NewestHid
    <3>2. k = i
      BY <1>2, <2>1, <2>2, <3>1 DEF IsLast
    <3>3. QED BY <3>1, <3>2
  <2>5. QED BY <1>2, <2>3, <2>4
<1>3. QED BY <1>1, <1>2 DEF IInv, RowsFollowCommits

(* However deletes, restores and clears overlap, a row is hidden exactly when *)
(* the newest entry about it, by id, hid it, unless the last of its changes   *)
(* was overtaken between its two statements.                                  *)
THEOREM AuditExplained == Spec => []AuditExplainsRows
BY LogExplains, Invariance, PTL

(* A clear logs the number of rows its commit hides, and re-stamps none.      *)
THEOREM ClearsCounted == Spec => ClearCountsExactly
<1> DEFINE Exact(t) ==
      (thread[t].at = "commit" /\ thread'[t].at = "bump") =>
        /\ audit'[Len(audit')].count =
             Cardinality({s \in Scores : deletedAt[s] = 0 /\ deletedAt'[s] # 0})
        /\ \A s \in Scores : deletedAt[s] # 0 => deletedAt'[s] = deletedAt[s]
<1>1. ASSUME IInv, [Next]_vars PROVE [\A t \in Threads : Exact(t)]_vars
  <2> SUFFICES ASSUME NEW t \in Threads, thread[t].at = "commit", thread'[t].at = "bump"
               PROVE  Exact(t)
    OBVIOUS
  <2>1. ClearCommit(t)
    <3>1. thread'[t] # thread[t]
      OBVIOUS
    <3>2. \A x \in Threads :
            (Free(x) \/ thread[x].at \in Stages \ {"commit"}) => x # t
      BY DEF Free, Answers
    <3>3. ASSUME NEW x \in Threads, NEW s \in Scores,
                 \/ SubmitScore(x, s)
                 \/ DeleteRefused(x, s) \/ RestoreRefused(x, s)
                 \/ DeleteLoad(x, s) \/ RestoreLoad(x, s)
          PROVE  x # t /\ thread'[t] = thread[t]
      BY <1>1, <3>2, <3>3
      DEF IInv, TypeOK, SubmitScore, DeleteRefused, RestoreRefused, Refuse, DeleteLoad,
          RestoreLoad, Load, Goto
    <3>4. ASSUME NEW x \in Threads,
                 AuditInsert(x) \/ Write(x) \/ ClearStart(x) \/ ClearUpdate(x) \/ Bump(x)
          PROVE  x # t /\ thread'[t] = thread[t]
      BY <1>1, <3>2, <3>4
      DEF IInv, TypeOK, AuditInsert, Write, ClearStart, Load, ClearUpdate, Bump, Goto, Stages
    <3>5. ASSUME NEW x \in Threads, ClearCommit(x) PROVE x = t
      BY <1>1, <3>1, <3>5 DEF IInv, TypeOK, ClearCommit, Goto
    <3>6. ASSUME NEW x \in Threads, Fail(x) PROVE FALSE
      BY <1>1, <3>1, <3>6 DEF IInv, TypeOK, Fail, Goto
    <3>7. QED
      BY <1>1, <3>1, <3>3, <3>4, <3>5, <3>6 DEF Next, Moderate, vars
  <2>2. /\ audit'[Len(audit')].count = Cardinality(thread[t].rows)
        /\ deletedAt' = Stamped(t)
    BY <1>1, <2>1 DEF ClearCommit, IInv, TypeOK
  <2>3. /\ thread[t].rows \subseteq Scores
        /\ thread[t].stamp # 0
        /\ \A s \in thread[t].rows : deletedAt[s] = 0
    BY <1>1 DEF IInv, TypeOK, HeldByOne, ClearsStamp, Visible, Clearing
  <2>4. {s \in Scores : deletedAt[s] = 0 /\ deletedAt'[s] # 0} = thread[t].rows
    BY <2>2, <2>3 DEF Stamped
  <2>5. \A s \in Scores : deletedAt[s] # 0 => deletedAt'[s] = deletedAt[s]
    BY <2>2, <2>3 DEF Stamped
  <2>6. QED BY <2>2, <2>4, <2>5
<1>2. QED BY <1>1, Invariance, PTL DEF Spec, ClearCountsExactly

-------------------------------------------------------------------------------
(* The handlers implement Publishing. *)
Owing == {t \in Threads : thread[t].at = "bump"}

LEMMA OwingAfterGoto ==
  ASSUME TypeOK, NEW t \in Threads, NEW stage \in Answers \cup {"bump"}, Goto(t, stage)
  PROVE  Owing' = IF stage = "bump" THEN Owing \cup {t} ELSE Owing \ {t}
BY GotoEffect DEF Owing

(* A step that neither enters nor leaves the bump is a stutter of Publishing. *)
LEMMA OwingKept ==
  ASSUME NEW t \in Threads, thread[t].at # "bump", thread'[t].at # "bump",
         \A x \in Threads \ {t} : thread'[x] = thread[x]
  PROVE  Owing' = Owing
BY DEF Owing

LEMMA AppendCounts ==
  ASSUME TypeOK, NEW entry \in Entry
  PROVE  Len(Append(audit, entry)) = Len(audit) + 1
BY DEF TypeOK

LEMMA PublishInit == Init => P!Init
<1>1. Cardinality({}) = 0
  BY FS_EmptySet
<1>2. QED BY <1>1 DEF Init, P!Init

LEMMA PublishStep == IInv /\ [Next]_vars => [P!Next]_P!vars
<1> SUFFICES ASSUME IInv, [Next]_vars PROVE [P!Next]_P!vars
  OBVIOUS
<1> USE DEF Owing
<1>1. /\ TypeOK /\ thread \in [Threads -> ThreadState]
      /\ IsFiniteSet(present) /\ Cardinality(present) \in Nat /\ Len(audit) \in Nat
  BY ScoresAssumption, FS_Subset, FS_CardinalityType DEF IInv, TypeOK, ThreadState
<1>2. ASSUME NEW t \in Threads, NEW s \in Scores, SubmitScore(t, s) PROVE P!Commit(t)
  <2>1. t \notin Owing
    BY <1>2 DEF SubmitScore, Free, Answers
  <2>2. Owing' = Owing \cup {t}
    BY <1>1, <1>2, OwingAfterGoto DEF SubmitScore
  <2>3. Cardinality(present') = Cardinality(present) + 1
    BY <1>1, <1>2, FS_AddElement DEF SubmitScore
  <2>4. QED BY <1>1, <1>2, <2>1, <2>2, <2>3 DEF SubmitScore, P!Commit
<1>3. ASSUME NEW t \in Threads, Write(t) \/ ClearCommit(t) PROVE P!Commit(t)
  <2>1. t \notin Owing
    BY <1>3 DEF Write, ClearCommit
  <2>2. Owing' = Owing \cup {t}
    BY <1>1, <1>3, OwingAfterGoto DEF Write, ClearCommit
  <2>3. Len(audit') = Len(audit) + 1
    <3>1. thread[t].rows \in SUBSET Scores /\ Cardinality(thread[t].rows) \in Nat
      BY <1>1, ScoresAssumption, FS_Subset, FS_CardinalityType DEF TypeOK
    <3>2. QED BY <1>1, <1>3, <3>1 DEF Write, ClearCommit, TypeOK, Entry, Actions
  <2>4. present' = present /\ version' = version /\ unpublished' = unpublished
    BY <1>3 DEF Write, ClearCommit
  <2>5. QED BY <1>1, <2>1, <2>2, <2>3, <2>4 DEF P!Commit
<1>4. ASSUME NEW t \in Threads, Bump(t) PROVE P!Bump(t)
  <2>1. Owing' = Owing \ {t}
    BY <1>1, <1>4, OwingAfterGoto DEF Bump, Answers
  <2>2. QED BY <1>4, <2>1 DEF Bump, P!Bump, database
<1>5. ASSUME NEW t \in Threads, Fail(t), thread[t].at = "bump" PROVE P!Lose(t)
  <2>1. Owing' = Owing \ {t}
    BY <1>1, <1>5, OwingAfterGoto DEF Fail, Answers
  <2>2. QED BY <1>5, <2>1 DEF Fail, P!Lose, database
<1>6. ASSUME NEW t \in Threads, NEW s \in Scores,
             \/ DeleteRefused(t, s) \/ RestoreRefused(t, s)
             \/ DeleteLoad(t, s) \/ RestoreLoad(t, s)
      PROVE  UNCHANGED P!vars
  <2>1. UNCHANGED <<audit, present, version>> /\ thread[t].at # "bump"
    BY <1>6
    DEF DeleteRefused, RestoreRefused, Refuse, DeleteLoad, RestoreLoad, Load, Free, Answers,
        database
  <2>2. unpublished' = unpublished
    BY <1>6 DEF DeleteRefused, RestoreRefused, Refuse, DeleteLoad, RestoreLoad, Load
  <2>3. thread'[t].at # "bump" /\ \A x \in Threads \ {t} : thread'[x] = thread[x]
    BY <1>1, <1>6
    DEF DeleteRefused, RestoreRefused, Refuse, DeleteLoad, RestoreLoad, Load, Goto, ThreadState
  <2>4. QED BY <2>1, <2>2, <2>3, OwingKept DEF P!vars
<1>7. ASSUME NEW t \in Threads,
             \/ AuditInsert(t) \/ ClearStart(t) \/ ClearUpdate(t)
             \/ Fail(t) /\ thread[t].at # "bump"
      PROVE  UNCHANGED P!vars
  <2>1. UNCHANGED <<audit, present, version>> /\ thread[t].at # "bump"
    BY <1>7 DEF AuditInsert, Load, ClearStart, ClearUpdate, Fail, Free, Answers, database
  <2>2. unpublished' = unpublished
    BY <1>1, <1>7 DEF AuditInsert, Load, ClearStart, ClearUpdate, Fail, TypeOK
  <2>3. thread'[t].at # "bump" /\ \A x \in Threads \ {t} : thread'[x] = thread[x]
    BY <1>1, <1>7 DEF AuditInsert, Load, ClearStart, ClearUpdate, Fail, Goto, ThreadState
  <2>4. QED BY <2>1, <2>2, <2>3, OwingKept DEF P!vars
<1>8. CASE UNCHANGED vars
  BY <1>8 DEF vars, P!vars
<1>9. QED
  BY <1>2, <1>3, <1>4, <1>5, <1>6, <1>7, <1>8 DEF Next, Moderate, P!Next

(* Deletes, restores, clears and submissions publish every commit once, after *)
(* it, unless their request fails in between, however they overlap.           *)
THEOREM PublishesCommits == Spec => ImplementsPublishing
BY PublishInit, PublishStep, Invariance, PTL DEF Spec, P!Spec, ImplementsPublishing

(* The consequence: the version, the bumps that failed and those still owed  *)
(* add up to the commits, so that no commit is bumped for twice or early.    *)
Balanced == IsFiniteSet(Owing) /\ P!Accounted

LEMMA SameCardinality == \A S : P!Cardinality(S) = Cardinality(S)
BY DEF P!Cardinality, P!IsFiniteSet, Cardinality, IsFiniteSet

LEMMA BalanceInit == Init => Balanced
<1>1. IsFiniteSet({}) /\ Cardinality({}) = 0
  BY FS_EmptySet
<1>2. Init => Owing = {} /\ version + unpublished = Len(audit) + Cardinality(present)
  BY <1>1 DEF Init, Owing
<1>3. Init => version + unpublished \in Int
  BY DEF Init
<1>4. ASSUME Init PROVE Balanced
  <2>1. IsFiniteSet(Owing) /\ P!Cardinality(Owing) = 0
    BY <1>1, <1>2, <1>4, SameCardinality
  <2>2. version + unpublished + P!Cardinality(Owing) = Len(audit) + Cardinality(present)
    BY <1>2, <1>3, <1>4, <2>1
  <2>3. QED BY <2>1, <2>2 DEF Balanced, Owing, P!Accounted
<1>5. QED BY <1>4

LEMMA BalanceStep == IInv /\ Balanced /\ [Next]_vars => Balanced'
<1> SUFFICES ASSUME IInv, Balanced, [Next]_vars PROVE Balanced'
  OBVIOUS
<1> DEFINE committed == Len(audit) + Cardinality(present)
<1>1. /\ IsFiniteSet(Owing) /\ Cardinality(Owing) \in Nat
      /\ version \in Nat /\ unpublished \in Nat /\ committed \in Nat
      /\ version + unpublished + Cardinality(Owing) = committed
  <2>1. IsFiniteSet(present) /\ Cardinality(present) \in Nat /\ Len(audit) \in Nat
    BY ScoresAssumption, FS_Subset, FS_CardinalityType DEF IInv, TypeOK
  <2>2. QED BY <2>1, FS_CardinalityType, SameCardinality DEF IInv, TypeOK, Balanced, Owing, P!Accounted
<1>2. [P!Next]_P!vars
  BY PublishStep
<1>3. ASSUME NEW t \in Threads, P!Commit(t) PROVE Balanced'
  <2>1. /\ t \notin Owing /\ Owing' = Owing \cup {t}
        /\ committed' = committed + 1 /\ UNCHANGED <<version, unpublished>>
    BY <1>3 DEF P!Commit, Owing
  <2>2. IsFiniteSet(Owing') /\ Cardinality(Owing') = Cardinality(Owing) + 1
    BY <1>1, <2>1, FS_AddElement
  <2>3. version' + unpublished' + Cardinality(Owing') = committed'
    <3> HIDE DEF committed
    <3>1. QED BY <1>1, <2>1, <2>2
  <2>4. QED BY <2>2, <2>3, SameCardinality DEF Balanced, Owing, P!Accounted
<1>4. ASSUME NEW t \in Threads, P!Bump(t) \/ P!Lose(t) PROVE Balanced'
  <2>1. /\ t \in Owing /\ Owing' = Owing \ {t} /\ committed' = committed
        /\ \/ version' = version + 1 /\ unpublished' = unpublished
           \/ version' = version /\ unpublished' = unpublished + 1
    BY <1>4 DEF P!Bump, P!Lose, Owing
  <2>2. IsFiniteSet(Owing') /\ Cardinality(Owing') = Cardinality(Owing) - 1
    BY <1>1, <2>1, FS_RemoveElement
  <2>3. version' + unpublished' + Cardinality(Owing') = committed'
    <3> HIDE DEF committed
    <3>1. QED BY <1>1, <2>1, <2>2
  <2>4. QED BY <2>2, <2>3, SameCardinality DEF Balanced, Owing, P!Accounted
<1>5. CASE UNCHANGED P!vars
  BY <1>1, <1>5 DEF P!vars, Balanced, Owing, P!Accounted
<1>6. QED BY <1>2, <1>3, <1>4, <1>5 DEF P!Next

(* Whatever overlaps and whatever fails, the version is the number of        *)
(* commits less the bumps that are owed or were lost.                        *)
THEOREM CommitsAccounted == Spec => []P!Accounted
<1>1. Balanced => P!Accounted
  BY DEF Balanced
<1>2. QED BY <1>1, BalanceInit, BalanceStep, Invariance, PTL DEF Spec
===============================================================================
