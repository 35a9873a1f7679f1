--------------------------- MODULE AdminLoginProofs ---------------------------
(***************************************************************************)
(* Proofs about AdminLogin, for any number of racing logins and any limit, *)
(* lockout and bound.                                                      *)
(***************************************************************************)
EXTENDS AdminLogin, TLAPS

USE LockoutAssumption, BoundsAssumption

ThreadState == [at : Outcomes \cup Stages, correct : BOOLEAN, seen : Row, decided : Nat]

(* What Finish does: the thread forgets the row it loaded and the clock it read. *)
LEMMA FinishEffect ==
  ASSUME TypeOK, NEW t \in Threads, NEW outcome \in Outcomes, Finish(t, outcome)
  PROVE  /\ thread' \in [Threads -> ThreadState]
         /\ thread'[t].seen = NoRow
         /\ thread'[t].decided = 0
         /\ \A x \in Threads \ {t} : thread'[x] = thread[x]
BY DEF TypeOK, Finish, Idle, ThreadState, NoRow, Row

(* The row a failed login writes is well typed. *)
LEMMA FailureIsRow ==
  ASSUME TypeOK, NEW t \in Threads
  PROVE  /\ Failure(t) \in Row
         /\ Failure(t).attempts = thread[t].seen.attempts + 1
         /\ Failure(t).lockedUntil = IF thread[t].seen.attempts + 1 >= MaxAttempts
                                       THEN thread[t].decided + Lockout
                                       ELSE account.lockedUntil
<1>1. thread[t].seen \in Row /\ thread[t].decided \in Nat /\ account \in Row
  BY DEF TypeOK
<1>2. QED BY <1>1 DEF Failure, Locks, Counted, Row

LEMMA TypeInit == Init => TypeOK
<1> SUFFICES ASSUME Init PROVE TypeOK
  OBVIOUS
<1>1. raced \in BOOLEAN
  BY DEF Init
<1>2. /\ now \in Nat \ {0} /\ account \in Row /\ failures \in Nat /\ failed \in Nat
      /\ thread \in [Threads -> [at : Outcomes \cup Stages, correct : BOOLEAN, seen : Row,
                                decided : Nat]]
  BY DEF Init, Idle, NoRow, Row, Outcomes
<1>3. QED BY <1>1, <1>2 DEF TypeOK

LEMMA TypeStep == TypeOK /\ [Next]_vars => TypeOK'
<1> SUFFICES ASSUME TypeOK, [Next]_vars PROVE TypeOK'
  OBVIOUS
<1> USE DEF ThreadState
<1>1. ASSUME NEW t \in Threads, LoginUnknownUser(t) \/ LoginLocked(t) PROVE TypeOK'
  BY <1>1, FinishEffect DEF LoginUnknownUser, LoginLocked, Outcomes, TypeOK
<1>2. ASSUME NEW t \in Threads, NEW correct \in BOOLEAN, LoginLoad(t, correct) PROVE TypeOK'
  BY <1>2 DEF LoginLoad, Stages, TypeOK
<1>3. ASSUME NEW t \in Threads, LoginUnlocked(t) \/ register_failed_login(t) PROVE TypeOK'
  BY <1>3 DEF LoginUnlocked, Goto, register_failed_login, Stages, TypeOK
<1>8. ASSUME NEW t \in Threads, CommitFailure(t) PROVE TypeOK'
  <2>1. account' \in Row
    BY <1>8, FailureIsRow DEF CommitFailure
  <2>2. failures' \in Nat /\ failed' \in Nat /\ now' = now /\ raced' \in BOOLEAN
    BY <1>8 DEF CommitFailure, Overlapped, TypeOK
  <2>3. thread' \in [Threads -> ThreadState]
    BY <1>8, FinishEffect DEF CommitFailure, Outcomes
  <2>4. QED BY <2>1, <2>2, <2>3 DEF TypeOK
<1>4. ASSUME NEW t \in Threads, register_successful_login(t) PROVE TypeOK'
  <2>1. account' \in Row
    BY <1>4 DEF register_successful_login, TypeOK, Row
  <2>2. QED BY <1>4, <2>1, FinishEffect DEF register_successful_login, Overlapped, Outcomes, TypeOK
<1>5. CASE Tick
  BY <1>5 DEF Tick, TypeOK
<1>6. CASE UNCHANGED vars
  BY <1>6 DEF vars, TypeOK
<1>7. QED BY <1>1, <1>2, <1>3, <1>4, <1>5, <1>6, <1>8 DEF Next, Login

(* Every reachable state of the account and its logins is well typed. *)
THEOREM TypeCorrect == Spec => []TypeOK
BY TypeInit, TypeStep, PTL DEF Spec

LEMMA InvInit == Init => IInv
BY TypeInit, LockoutAssumption DEF Init, IInv, NoSpuriousLock, LockoutExact, Idle, NoRow

(* The counter and the lock stay exact, or become exact again, in every step  *)
(* of a login that saw the row it replaces.                                   *)
LEMMA ExactStep == TypeOK /\ LockoutExact /\ [Next]_vars => LockoutExact'
<1> SUFFICES ASSUME TypeOK, LockoutExact, [Next]_vars, ~raced' PROVE LockoutExact'
  BY DEF LockoutExact
<1>1. /\ now \in Nat \ {0} /\ failures \in Nat
      /\ account.attempts \in Nat /\ account.lockedUntil \in Nat
  BY DEF TypeOK, Row
<1>2. ASSUME NEW t \in Threads, CommitFailure(t) PROVE LockoutExact'
  <2>1. ~raced /\ thread[t].seen = account /\ thread[t].decided \in Nat
    BY <1>2 DEF CommitFailure, Overlapped, TypeOK
  <2>2. /\ account.attempts = failures
        /\ account.lockedUntil # 0 <=> failures >= MaxAttempts
    BY <2>1 DEF LockoutExact
  <2>3. /\ failures' = failures + 1
        /\ account'.attempts = failures + 1
        /\ account'.lockedUntil = IF failures + 1 >= MaxAttempts
                                    THEN thread[t].decided + Lockout
                                    ELSE account.lockedUntil
    BY <1>2, <2>1, <2>2, FailureIsRow DEF CommitFailure
  <2>4. QED BY <1>1, <2>1, <2>2, <2>3 DEF LockoutExact
<1>3. ASSUME NEW t \in Threads, register_successful_login(t) PROVE LockoutExact'
  <2>1. thread[t].seen = account
    BY <1>3 DEF register_successful_login, Overlapped
  <2>2. failures' = 0 /\ account'.attempts = 0 /\ account'.lockedUntil = 0
    BY <1>3, <2>1 DEF register_successful_login
  <2>3. QED BY <2>2 DEF LockoutExact
<1>4. CASE UNCHANGED <<account, failures, raced>>
  BY <1>4 DEF LockoutExact
<1>5. QED
  BY <1>2, <1>3, <1>4
  DEF Next, Login, LoginUnknownUser, LoginLoad, LoginLocked, LoginUnlocked,
      register_failed_login, Tick, vars

LEMMA InvStep == IInv /\ [Next]_vars => IInv'
<1> SUFFICES ASSUME IInv, [Next]_vars PROVE IInv'
  OBVIOUS
<1> USE DEF IInv
<1>1. TypeOK' /\ LockoutExact'
  BY TypeStep, ExactStep
<1>2. /\ now \in Nat /\ failed \in Nat
      /\ account.attempts \in Nat /\ account.lockedUntil \in Nat
      /\ \A t \in Threads : thread[t].seen.attempts \in Nat /\ thread[t].decided \in Nat
  BY DEF TypeOK, Row
<1>3. ASSUME NEW t \in Threads, LoginUnknownUser(t) \/ LoginLocked(t) PROVE IInv'
  <2>1. /\ now' = now /\ account' = account /\ failed' = failed
        /\ thread'[t].seen = NoRow /\ thread'[t].decided = 0
        /\ \A x \in Threads \ {t} : thread'[x] = thread[x]
    BY <1>3, FinishEffect DEF LoginUnknownUser, LoginLocked, Outcomes
  <2>2. \A x \in Threads : thread'[x].seen.attempts <= failed' /\ thread'[x].decided <= now'
    BY <1>2, <2>1 DEF NoRow
  <2>3. QED BY <1>1, <2>1, <2>2 DEF NoSpuriousLock
<1>4. ASSUME NEW t \in Threads, NEW correct \in BOOLEAN, LoginLoad(t, correct) PROVE IInv'
  BY <1>1, <1>4 DEF LoginLoad, NoSpuriousLock, TypeOK
<1>10. ASSUME NEW t \in Threads, LoginUnlocked(t) \/ register_failed_login(t) PROVE IInv'
  BY <1>1, <1>2, <1>10 DEF LoginUnlocked, Goto, register_failed_login, NoSpuriousLock, TypeOK
<1>5. ASSUME NEW t \in Threads, CommitFailure(t) PROVE IInv'
  <2>1. /\ failed' = failed + 1 /\ now' = now
        /\ account'.attempts = thread[t].seen.attempts + 1
        /\ account'.lockedUntil = IF thread[t].seen.attempts + 1 >= MaxAttempts
                                    THEN thread[t].decided + Lockout
                                    ELSE account.lockedUntil
        /\ thread'[t].seen = NoRow /\ thread'[t].decided = 0
        /\ \A x \in Threads \ {t} : thread'[x] = thread[x]
    BY <1>5, FinishEffect, FailureIsRow DEF CommitFailure, Outcomes
  <2>2. NoSpuriousLock' /\ account'.lockedUntil <= now' + Lockout
    BY <1>2, <2>1 DEF NoSpuriousLock
  <2>3. \A x \in Threads : thread'[x].seen.attempts <= failed' /\ thread'[x].decided <= now'
    BY <1>2, <2>1 DEF NoRow
  <2>4. QED BY <1>1, <2>2, <2>3
<1>6. ASSUME NEW t \in Threads, register_successful_login(t) PROVE IInv'
  <2>1. /\ failed' = failed /\ now' = now
        /\ account'.attempts \in {0, account.attempts}
        /\ account'.lockedUntil \in {0, account.lockedUntil}
        /\ thread'[t].seen = NoRow /\ thread'[t].decided = 0
        /\ \A x \in Threads \ {t} : thread'[x] = thread[x]
    BY <1>6, FinishEffect DEF register_successful_login, Outcomes
  <2>2. NoSpuriousLock' /\ account'.lockedUntil <= now' + Lockout
    BY <1>2, <2>1 DEF NoSpuriousLock
  <2>3. \A x \in Threads : thread'[x].seen.attempts <= failed' /\ thread'[x].decided <= now'
    BY <1>2, <2>1 DEF NoRow
  <2>4. QED BY <1>1, <2>2, <2>3
<1>7. CASE Tick
  BY <1>1, <1>2, <1>7 DEF Tick, NoSpuriousLock
<1>8. CASE UNCHANGED vars
  BY <1>1, <1>8 DEF vars, NoSpuriousLock
<1>9. QED BY <1>3, <1>4, <1>5, <1>6, <1>7, <1>8, <1>10 DEF Next, Login

(* The inductive invariant holds in every reachable state. *)
THEOREM Invariance == Spec => []IInv
BY InvInit, InvStep, PTL DEF Spec

(* While no login commits over a row it has not seen, the account is locked   *)
(* after exactly MaxAttempts consecutive failures.                            *)
THEOREM LockoutIsExact == Spec => []LockoutExact
BY Invariance, PTL DEF IInv

(* No number of racing logins locks the account before MaxAttempts wrong      *)
(* passwords were committed.                                                  *)
THEOREM NoSpuriousLocks == Spec => []NoSpuriousLock
BY Invariance, PTL DEF IInv

(* A failed login takes from a lock that another one set no more than the     *)
(* time it let pass itself between reading the clock and committing; in       *)
(* particular it never removes one.                                           *)
THEOREM FailuresKeepLock == Spec => FailureKeepsLock
<1> DEFINE Kept(t) ==
      (thread[t].at = "commit" /\ thread'[t].at # "commit") =>
        account'.lockedUntil >= account.lockedUntil - (now - thread[t].decided)
<1>1. ASSUME IInv, [Next]_vars, NEW t \in Threads PROVE Kept(t)
  <2>1. /\ account.lockedUntil \in Nat /\ now \in Nat /\ thread[t].decided \in Nat
        /\ account.lockedUntil <= now + Lockout
        /\ thread[t].decided <= now
    BY <1>1 DEF IInv, TypeOK, Row
  <2>2. ASSUME CommitFailure(t) PROVE Kept(t)
    <3>1. account'.lockedUntil \in {thread[t].decided + Lockout, account.lockedUntil}
      BY <1>1, <2>2, FailureIsRow DEF CommitFailure, IInv
    <3>2. QED BY <2>1, <3>1
  <2>3. ASSUME NEW x \in Threads, Login(x), x # t PROVE thread'[t] = thread[t]
    BY <1>1, <2>3
    DEF Login, LoginUnknownUser, LoginLoad, LoginLocked, LoginUnlocked, Goto, Finish,
        register_failed_login, CommitFailure, register_successful_login, IInv, TypeOK
  <2>4. ASSUME Login(t), thread[t].at = "commit" PROVE CommitFailure(t)
    BY <2>4
    DEF Login, LoginUnknownUser, LoginLoad, LoginLocked, LoginUnlocked,
        register_failed_login, register_successful_login, Outcomes
  <2>5. (Tick \/ UNCHANGED vars) => thread' = thread
    BY DEF Tick, vars
  <2>6. QED BY <1>1, <2>2, <2>3, <2>4, <2>5 DEF Next
<1>2. ASSUME IInv, [Next]_vars PROVE [\A t \in Threads : Kept(t)]_vars
  BY <1>1, <1>2
<1>3. QED BY <1>2, Invariance, PTL DEF Spec, FailureKeepsLock
===============================================================================
