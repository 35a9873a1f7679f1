------------------------------ MODULE AdminLogin ------------------------------
(***************************************************************************)
(* POST /admin/login (app/admin/auth.py) and the lockout counter of one    *)
(* admin account (app/models/user.py).                                     *)
(*                                                                         *)
(* A handler loads the account row, reads the clock to see whether the row *)
(* is locked, verifies the password, reads the clock again for the lock it *)
(* may set, and commits.  The ORM writes only the columns whose value      *)
(* differs from the loaded one, and nothing checks that the row is still   *)
(* the one that was loaded; other logins get between any two of the steps. *)
(***************************************************************************)
EXTENDS Integers

CONSTANTS
  Threads,      \* threads serving a login for the account
  MaxAttempts,  \* ADMIN_MAX_FAILED_LOGINS
  Lockout,      \* ADMIN_LOCKOUT_MINUTES, in ticks of the clock
  MaxTime,      \* bound: the last tick
  MaxFailures   \* bound: number of wrong passwords after which no more are tried

ASSUME LockoutAssumption == MaxAttempts \in Nat \ {0} /\ Lockout \in Nat \ {0}
ASSUME BoundsAssumption == MaxTime \in Nat /\ MaxFailures \in Nat

VARIABLES
  now,       \* the clock
  account,   \* database: the row, [attempts |-> failed_login_attempts,
             \*   lockedUntil |-> locked_until, 0 for NULL]
  thread,    \* thread[t]: where t is, whether its password is right, the row
             \*   it loaded, and when register_failed_login read the clock
  failures,  \* history: wrong passwords committed since the last success
  failed,    \* history: wrong passwords committed, ever
  raced      \* history: since the last success that saw the row it replaced,
             \*   a login committed over a row it had not seen

vars == <<now, account, thread, failures, failed, raced>>

Row == [attempts : Nat, lockedUntil : Nat]
NoRow == [attempts |-> 0, lockedUntil |-> 0]
Outcomes == {"idle", "unauthorized", "locked", "signed in"}
Stages == {"check", "verify", "commit"}
Idle(outcome) == [at |-> outcome, correct |-> FALSE, seen |-> NoRow, decided |-> 0]

Init ==
  /\ now = 1
  /\ account = NoRow
  /\ thread = [t \in Threads |-> Idle("idle")]
  /\ failures = 0
  /\ failed = 0
  /\ raced = FALSE

is_locked(row) == row.lockedUntil > now

-------------------------------------------------------------------------------
Finish(t, outcome) == thread' = [thread EXCEPT ![t] = Idle(outcome)]
Goto(t, stage) == thread' = [thread EXCEPT ![t].at = stage]

(* A username that does not exist: nothing to count. *)
LoginUnknownUser(t) ==
  /\ thread[t].at \in Outcomes
  /\ Finish(t, "unauthorized")
  /\ UNCHANGED <<now, account, failures, failed, raced>>

LoginLoad(t, correct) ==
  /\ thread[t].at \in Outcomes
  /\ correct \/ failed < MaxFailures
  /\ thread' = [thread EXCEPT ![t] =
       [at |-> "check", correct |-> correct, seen |-> account, decided |-> 0]]
  /\ UNCHANGED <<now, account, failures, failed, raced>>

(* 423, whether the password is right or not. *)
LoginLocked(t) ==
  /\ thread[t].at = "check"
  /\ is_locked(thread[t].seen)
  /\ Finish(t, "locked")
  /\ UNCHANGED <<now, account, failures, failed, raced>>

(* The loaded row is not locked: on to check_password. *)
LoginUnlocked(t) ==
  /\ thread[t].at = "check"
  /\ ~is_locked(thread[t].seen)
  /\ Goto(t, "verify")
  /\ UNCHANGED <<now, account, failures, failed, raced>>

(* Another login committed since t loaded the row. *)
Overlapped(t) == thread[t].seen # account

(* Fault: a failure counts twice. *)
Counted_Twice(seen) == seen.attempts + 2

(* register_failed_login: the loaded count plus one ... *)
Counted(seen) == seen.attempts + 1

(* Fault: > where the limit is >=. *)
Locks_Late(seen) == Counted(seen) > MaxAttempts

(* ... which, at the limit, sets a lock ... *)
Locks(seen) == Counted(seen) >= MaxAttempts

(* ... that runs from the clock read here, however late the commit is. *)
register_failed_login(t) ==
  /\ thread[t].at = "verify"
  /\ ~thread[t].correct
  /\ thread' = [thread EXCEPT ![t].at = "commit", ![t].decided = now]
  /\ UNCHANGED <<now, account, failures, failed, raced>>

(* Fault: every column of the loaded row is written back. *)
Failure_WholeRow(t) ==
  [attempts |-> Counted(thread[t].seen),
   lockedUntil |-> IF Locks(thread[t].seen) THEN thread[t].decided + Lockout
                   ELSE thread[t].seen.lockedUntil]

(* The row after a failed login's UPDATE: locked_until is among its columns  *)
(* only if the login set it.                                                 *)
Failure(t) ==
  [attempts |-> Counted(thread[t].seen),
   lockedUntil |-> IF Locks(thread[t].seen) THEN thread[t].decided + Lockout
                   ELSE account.lockedUntil]

CommitFailure(t) ==
  /\ thread[t].at = "commit"
  /\ account' = Failure(t)
  /\ failures' = failures + 1
  /\ failed' = failed + 1
  /\ raced' = (raced \/ Overlapped(t))
  /\ Finish(t, "unauthorized")
  /\ UNCHANGED now

(* register_successful_login: 0 and NULL are written only over a loaded      *)
(* value that was something else.                                            *)
register_successful_login(t) ==
  LET seen == thread[t].seen IN
  /\ thread[t].at = "verify"
  /\ thread[t].correct
  /\ account' = [attempts |-> IF seen.attempts # 0 THEN 0 ELSE account.attempts,
                 lockedUntil |-> IF seen.lockedUntil # 0 THEN 0 ELSE account.lockedUntil]
  /\ failures' = 0
  /\ raced' = Overlapped(t)
  /\ Finish(t, "signed in")
  /\ UNCHANGED <<now, failed>>

Tick ==
  /\ now < MaxTime
  /\ now' = now + 1
  /\ UNCHANGED <<account, thread, failures, failed, raced>>

Login(t) ==
  \/ LoginUnknownUser(t)
  \/ \E correct \in BOOLEAN : LoginLoad(t, correct)
  \/ LoginLocked(t)
  \/ LoginUnlocked(t)
  \/ register_failed_login(t)
  \/ CommitFailure(t)
  \/ register_successful_login(t)

Next == (\E t \in Threads : Login(t)) \/ Tick

Spec == Init /\ [][Next]_vars

-------------------------------------------------------------------------------
(* Properties. *)

(* Type invariant of the module. *)
TypeOK ==
  /\ now \in Nat \ {0}
  /\ account \in Row
  /\ thread \in [Threads -> [at : Outcomes \cup Stages, correct : BOOLEAN, seen : Row,
                             decided : Nat]]
  /\ failures \in Nat
  /\ failed \in Nat
  /\ raced \in BOOLEAN

(* data_models.md:21 "After ADMIN_MAX_FAILED_LOGINS consecutive failures, the *)
(* account is locked": so many failures with no success between leave a lock. *)
LockedAfterMaxFailures == failures >= MaxAttempts => account.lockedUntil # 0

(* data_models.md:21, both sentences, for as long as no login commits over a   *)
(* row it has not seen: the counter is the number of consecutive failures, the *)
(* account has a lock exactly when there were MaxAttempts of them, and a       *)
(* success that saw the row makes both exact again, whatever raced before.     *)
LockoutExact ==
  ~raced => /\ account.attempts = failures
            /\ account.lockedUntil # 0 <=> failures >= MaxAttempts

(* Logins that race can lose counts but never invent them: the account gets   *)
(* no lock before MaxAttempts wrong passwords were committed in all.          *)
NoSpuriousLock ==
  /\ account.attempts <= failed
  /\ account.lockedUntil # 0 => failed >= MaxAttempts

(* A failed login never removes a lock that another one set meanwhile, and   *)
(* what it can take from it is only the time it spent itself between reading  *)
(* the clock (register_failed_login) and committing: of two failures that     *)
(* both lock the account, the one that read the clock first may commit last.  *)
FailureKeepsLock ==
  [][\A t \in Threads : (thread[t].at = "commit" /\ thread'[t].at # "commit") =>
       account'.lockedUntil >= account.lockedUntil - (now - thread[t].decided)]_vars

(* The inductive invariant behind LockoutExact, NoSpuriousLock and            *)
(* FailureKeepsLock: it covers the rows that threads have loaded, however     *)
(* old, and no lock, set or about to be, ends later than one set now would.   *)
IInv ==
  /\ TypeOK
  /\ NoSpuriousLock
  /\ LockoutExact
  /\ account.lockedUntil <= now + Lockout
  /\ \A t \in Threads : thread[t].seen.attempts <= failed /\ thread[t].decided <= now
===============================================================================
