------------------------- MODULE ScoreSubmissionProofs -------------------------
(***************************************************************************)
(* Proofs about ScoreSubmission, for every set of games, nonces and        *)
(* threads, every TTL and every bound.                                     *)
(*                                                                         *)
(* The argument: a nonce is drawn once, so its key, in memory or in the    *)
(* snapshot, can only carry the expiry time of that one SET.  The DEL that *)
(* finds the key makes its thread the only owner of the nonce, and as long *)
(* as no restart brings the key back nobody else can become one.           *)
(***************************************************************************)
EXTENDS ScoreSubmission, FiniteSetTheorems, TLAPS

USE TTLAssumption, SetsAssumption, BoundsAssumption

(* The idle request is a request. *)
LEMMA NoRequestType == NoRequest \in Request
BY DEF NoRequest, Request, SessionStages, SubmitStages

(* A request stays one when it is answered, moved on, or given a nonce. *)
LEMMA AnsweredType ==
  ASSUME NEW q \in Request, NEW status \in Nat
  PROVE  [q EXCEPT !.at = "answered", !.status = status] \in Request
<1>1. "answered" \in {"idle", "answered"} \cup SessionStages \cup SubmitStages
  OBVIOUS
<1> HIDE DEF SessionStages, SubmitStages
<1>2. QED BY <1>1 DEF Request

LEMMA DrawnType ==
  ASSUME NEW q \in Request, NEW n \in Nonces, NEW since \in Nat
  PROVE  [q EXCEPT !.at = "sign", !.nonce = n, !.since = since] \in Request
<1>1. "sign" \in {"idle", "answered"} \cup SessionStages \cup SubmitStages
  BY DEF SessionStages
<1>2. QED BY <1>1 DEF Request

LEMMA AnswerType ==
  ASSUME TypeOK, NEW t \in Threads, NEW status \in Nat, Answer(t, status)
  PROVE  thread' \in [Threads -> Request]
<1>1. thread' = [thread EXCEPT ![t] = [thread[t] EXCEPT !.at = "answered", !.status = status]]
  BY DEF Answer, TypeOK
<1>2. QED BY <1>1, AnsweredType DEF TypeOK

LEMMA GotoType ==
  ASSUME TypeOK, NEW t \in Threads, NEW stage \in SessionStages \cup SubmitStages, Goto(t, stage)
  PROVE  thread' \in [Threads -> Request]
BY DEF TypeOK, Goto, Request

LEMMA PresentedType ==
  ASSUME NEW n \in Nonces, NEW g \in Games
  PROVE  Presented(n, g) \in Request
BY NoRequestType DEF Presented, Request

(* Type correctness, step by step. *)
LEMMA TypeInit == Init => TypeOK
<1>1. IsFiniteSet({})
  BY FS_EmptySet
<1>2. QED BY <1>1, NoRequestType DEF Init, TypeOK

LEMMA TypeSession ==
  ASSUME TypeOK, NEW t \in Threads, Session(t)
  PROVE  TypeOK'
<1> USE DEF redis, history
<1>1. ASSUME NEW g \in Games, SessionNotFound(t, g) PROVE TypeOK'
  <2>1. [NoRequest EXCEPT !.at = "answered", !.status = 404] \in Request
    <3>1. 404 \in Nat
      OBVIOUS
    <3>2. QED BY <3>1, NoRequestType, AnsweredType
  <2>2. QED BY <1>1, <2>1 DEF SessionNotFound, TypeOK
<1>2. ASSUME NEW g \in Games, SessionLookup(t, g) PROVE TypeOK'
  <2>1. [NoRequest EXCEPT !.at = "draw", !.game = g] \in Request
    BY NoRequestType DEF Request, SessionStages
  <2>2. QED BY <1>2, <2>1 DEF SessionLookup, TypeOK
<1>3. CASE SetNonce(t)
  <2>1. PICK n \in Nonces :
          /\ nonceKey' = [nonceKey EXCEPT ![n] = now + TTL]
          /\ drawn' = drawn \cup {n}
          /\ thread' = [thread EXCEPT ![t].at = "sign", ![t].nonce = n, ![t].since = now]
    BY <1>3 DEF SetNonce
  <2>2. thread' \in [Threads -> Request]
    <3>1. [thread[t] EXCEPT !.at = "sign", !.nonce = n, !.since = now] \in Request
      <4>1. thread[t] \in Request /\ now \in Nat
        BY DEF TypeOK
      <4>2. QED BY <4>1, DrawnType
    <3>2. thread' = [thread EXCEPT ![t] =
                       [thread[t] EXCEPT !.at = "sign", !.nonce = n, !.since = now]]
      BY <2>1 DEF TypeOK
    <3>3. QED BY <3>1, <3>2 DEF TypeOK
  <2>3. QED BY <1>3, <2>1, <2>2 DEF SetNonce, TypeOK
<1>4. CASE SignToken(t)
  <2>1. [nonce |-> thread[t].nonce, game |-> thread[t].game,
         setAt |-> thread[t].since, iat |-> now] \in Token
    BY DEF TypeOK, Request, Token
  <2>2. QED BY <1>4, <2>1, AnswerType DEF SignToken, TypeOK
<1>5. QED BY <1>1, <1>2, <1>3, <1>4 DEF Session

LEMMA TypeSubmit ==
  ASSUME TypeOK, NEW t \in Threads, Submit(t) \/ Fail(t)
  PROVE  TypeOK'
<1> USE DEF redis, history
<1>1. ASSUME NEW n \in Nonces, NEW g \in Games,
             SubmitMalformed(t, n, g) \/ SubmitNotFound(t, n, g) \/ SubmitLookup(t, n, g)
      PROVE  TypeOK'
  <2>1. \A s \in {400, 401, 404} :
          [Presented(n, g) EXCEPT !.at = "answered", !.status = s] \in Request
    <3> TAKE s \in {400, 401, 404}
    <3>1. s \in Nat
      OBVIOUS
    <3>2. Presented(n, g) \in Request
      BY PresentedType
    <3>3. QED BY <3>1, <3>2, AnsweredType
  <2>2. [Presented(n, g) EXCEPT !.at = "verify"] \in Request
    BY PresentedType DEF Request, SubmitStages
  <2>3. thread' \in [Threads -> Request]
    BY <1>1, <2>1, <2>2 DEF SubmitMalformed, SubmitNotFound, SubmitLookup, TypeOK
  <2>4. QED BY <1>1, <2>3 DEF SubmitMalformed, SubmitNotFound, SubmitLookup, TypeOK
<1>2. CASE Verify(t)
  <2>1. thread' \in [Threads -> Request]
    BY <1>2, GotoType, AnswerType DEF Verify, SubmitStages
  <2>2. QED BY <1>2, <2>1 DEF Verify, TypeOK
<1>3. CASE Consume(t)
  <2>1. thread' \in [Threads -> Request]
    BY <1>3, GotoType DEF Consume, SubmitStages
  <2>2. QED BY <1>3, <2>1 DEF Consume, TypeOK
<1>4. CASE ConsumeRefused(t)
  BY <1>4, AnswerType DEF ConsumeRefused, TypeOK
<1>5. CASE Sanitize(t)
  <2>1. thread' \in [Threads -> Request]
    BY <1>5, GotoType, AnswerType DEF Sanitize, SubmitStages
  <2>2. QED BY <1>5, <2>1 DEF Sanitize, TypeOK
<1>6. CASE Insert(t)
  <2>1. thread' \in [Threads -> Request]
    BY <1>6, GotoType DEF Insert, SubmitStages
  <2>2. Cardinality(scores) + 1 \in Nat
    BY FS_CardinalityType DEF TypeOK
  <2>3. Row(Cardinality(scores) + 1, t) \in [id : Nat, nonce : Nonces, game : Games]
    BY <2>2 DEF Row, TypeOK, Request
  <2>4. IsFiniteSet(scores')
    BY <1>6, FS_AddElement DEF Insert, TypeOK
  <2>5. QED BY <1>6, <2>1, <2>3, <2>4 DEF Insert, TypeOK
<1>7. CASE Bump(t)
  <2>1. thread' \in [Threads -> Request]
    BY <1>7, AnswerType DEF Bump
  <2>2. version' \in [Games -> Nat]
    BY <1>7 DEF Bump, TypeOK, Request
  <2>3. QED BY <1>7, <2>1, <2>2 DEF Bump, TypeOK
<1>8. CASE Fail(t)
  BY <1>8, AnswerType DEF Fail, TypeOK
<1>9. QED BY <1>1, <1>2, <1>3, <1>4, <1>5, <1>6, <1>7, <1>8 DEF Submit

LEMMA TypeStep == TypeOK /\ [Next]_vars => TypeOK'
<1> SUFFICES ASSUME TypeOK, [Next]_vars PROVE TypeOK'
  OBVIOUS
<1> USE DEF redis, history
<1>1. CASE Tick
  BY <1>1 DEF Tick, TypeOK
<1>2. ASSUME NEW g \in Games, EditGame(g) PROVE TypeOK'
  BY <1>2 DEF EditGame, TypeOK
<1>3. ASSUME NEW n \in Nonces, EvictNonce(n) PROVE TypeOK'
  BY <1>3 DEF EvictNonce, TypeOK
<1>4. CASE Save
  BY <1>4 DEF Save, TypeOK
<1>5. CASE Restart
  BY <1>5 DEF Restart, TypeOK
<1>6. CASE UNCHANGED vars
  BY <1>6 DEF vars, TypeOK
<1>7. QED
  BY <1>1, <1>2, <1>3, <1>4, <1>5, <1>6, TypeSession, TypeSubmit DEF Next

(* Every reachable state of the token and submission handlers is well typed, *)
(* for any number of tokens, threads and restarts.                           *)
THEOREM TypeCorrect == Spec => []TypeOK
BY TypeInit, TypeStep, PTL DEF Spec
-------------------------------------------------------------------------------
(* The inductive invariant. *)

LEMMA InvInit == Init => IInv
<1> SUFFICES ASSUME Init PROVE IInv
  OBVIOUS
<1>1. \A t \in Threads : thread[t].at = "idle"
  BY DEF Init, NoRequest
<1>2. TypeOK
  BY TypeInit
<1>3. QED
  BY <1>1, <1>2
  DEF Init, IInv, NoncesDrawn, Signing, Signed, Progress, RowsConsumed, BoundToGame,
      TokenLifetime, AcceptedIsStored, OneOwner, Consumer

(* The types of a request and of a token, field by field. *)
LEMMA Fields ==
  ASSUME TypeOK
  PROVE  /\ now \in Nat /\ now # 0
         /\ \A t \in Threads : /\ thread[t].nonce \in Nonces /\ thread[t].game \in Games
                               /\ thread[t].since \in Nat /\ thread[t].status \in Nat
         /\ \A k \in tokens : /\ k.nonce \in Nonces /\ k.game \in Games
                              /\ k.setAt \in Nat /\ k.iat \in Nat
         /\ \A row \in scores : row.nonce \in Nonces /\ row.game \in Games
BY DEF TypeOK, Request, Token

(* What Answer and Goto do to the thread they move, and to no other. *)
LEMMA AnswerEffect ==
  ASSUME TypeOK, NEW t \in Threads, NEW status \in Nat, Answer(t, status)
  PROVE  /\ thread'[t].at = "answered" /\ thread'[t].status = status
         /\ thread'[t].nonce = thread[t].nonce /\ thread'[t].game = thread[t].game
         /\ thread'[t].since = thread[t].since
         /\ \A x \in Threads \ {t} : thread'[x] = thread[x]
<1>1. thread \in [Threads -> Request] /\ thread[t] \in Request
  BY DEF TypeOK
<1>2. \A q \in Request : LET a == [q EXCEPT !.at = "answered", !.status = status] IN
        /\ a.at = "answered" /\ a.status = status
        /\ a.nonce = q.nonce /\ a.game = q.game /\ a.since = q.since
  BY DEF Request
<1>3. thread' = [thread EXCEPT ![t] = [thread[t] EXCEPT !.at = "answered", !.status = status]]
  BY <1>1 DEF Answer
<1>4. QED BY <1>1, <1>2, <1>3

LEMMA GotoEffect ==
  ASSUME TypeOK, NEW t \in Threads, NEW stage, Goto(t, stage)
  PROVE  /\ thread'[t].at = stage
         /\ thread'[t].nonce = thread[t].nonce /\ thread'[t].game = thread[t].game
         /\ thread'[t].since = thread[t].since /\ thread'[t].status = thread[t].status
         /\ \A x \in Threads \ {t} : thread'[x] = thread[x]
BY DEF TypeOK, Request, Goto

(* Most steps of a request change nothing but where its thread is: they get  *)
(* no further than the check of the token, except from sanitize to insert,   *)
(* and they accept nothing.                                                  *)
LEMMA ThreadStep ==
  ASSUME IInv, TypeOK', NEW t \in Threads,
         UNCHANGED <<now, archived, scores, redis, tokens, history>>,
         \A x \in Threads \ {t} : thread'[x] = thread[x],
         thread'[t].at \in {"answered", "draw", "verify", "consume", "insert"},
         thread'[t].at = "answered" => thread'[t].status # 201,
         thread'[t].at = "consume" => HasToken(thread'[t].nonce, thread'[t].game),
         thread'[t].at = "insert" =>
           /\ thread[t].at = "sanitize"
           /\ thread'[t].nonce = thread[t].nonce /\ thread'[t].game = thread[t].game
  PROVE  IInv'
<1> USE DEF IInv, redis, history
<1>1. NoncesDrawn' /\ Signing' /\ Signed'
  BY DEF NoncesDrawn, Signing, Signed, KeyOf, Gone
<1>2. Progress'
  BY DEF Progress, HasToken, HasRow, Consumer
<1>3. RowsConsumed' /\ BoundToGame' /\ TokenLifetime' /\ AcceptedIsStored'
  BY DEF RowsConsumed, BoundToGame, TokenLifetime, AcceptedIsStored
<1>4. OneOwner => OneOwner'
  BY DEF OneOwner, Consumer
<1>5. QED BY <1>1, <1>2, <1>3, <1>4

LEMMA QuietSteps ==
  ASSUME IInv, TypeOK', NEW t \in Threads,
         \/ \E g \in Games : SessionNotFound(t, g) \/ SessionLookup(t, g)
         \/ \E n \in Nonces, g \in Games :
              SubmitMalformed(t, n, g) \/ SubmitNotFound(t, n, g) \/ SubmitLookup(t, n, g)
         \/ Verify(t) \/ ConsumeRefused(t) \/ Sanitize(t) \/ Fail(t)
  PROVE  IInv'
<1> USE DEF IInv
<1>1. ASSUME NEW g \in Games, SessionNotFound(t, g) \/ SessionLookup(t, g) PROVE IInv'
  <2>1. PICK new \in {[NoRequest EXCEPT !.at = "answered", !.status = 404],
                      [NoRequest EXCEPT !.at = "draw", !.game = g]} :
          thread' = [thread EXCEPT ![t] = new]
    BY <1>1 DEF SessionNotFound, SessionLookup
  <2>2. new.at = "draw" \/ (new.at = "answered" /\ new.status = 404)
    <3>1. [NoRequest EXCEPT !.at = "answered", !.status = 404].at = "answered"
      BY DEF NoRequest
    <3>2. [NoRequest EXCEPT !.at = "answered", !.status = 404].status = 404
      BY DEF NoRequest
    <3>3. [NoRequest EXCEPT !.at = "draw", !.game = g].at = "draw"
      BY DEF NoRequest
    <3>4. CASE new = [NoRequest EXCEPT !.at = "draw", !.game = g]
      BY <3>3, <3>4
    <3>5. CASE new = [NoRequest EXCEPT !.at = "answered", !.status = 404]
      BY <3>1, <3>2, <3>5
    <3>6. QED BY <2>1, <3>4, <3>5
  <2>3. thread'[t] = new /\ \A x \in Threads \ {t} : thread'[x] = thread[x]
    BY <2>1 DEF TypeOK
  <2>4. UNCHANGED <<now, archived, scores, redis, tokens, history>>
    BY <1>1 DEF SessionNotFound, SessionLookup
  <2>5. QED BY <2>2, <2>3, <2>4, ThreadStep
<1>2. ASSUME NEW n \in Nonces, NEW g \in Games,
             SubmitMalformed(t, n, g) \/ SubmitNotFound(t, n, g) \/ SubmitLookup(t, n, g)
      PROVE  IInv'
  <2>1. PICK new \in {[Presented(n, g) EXCEPT !.at = "answered", !.status = 400],
                      [Presented(n, g) EXCEPT !.at = "answered", !.status = 401],
                      [Presented(n, g) EXCEPT !.at = "answered", !.status = 404],
                      [Presented(n, g) EXCEPT !.at = "verify"]} :
          thread' = [thread EXCEPT ![t] = new]
    <3>1. CASE SubmitMalformed(t, n, g)
      <4>1. PICK status \in {400, 401} :
              thread' = [thread EXCEPT ![t] =
                [Presented(n, g) EXCEPT !.at = "answered", !.status = status]]
        BY <3>1 DEF SubmitMalformed
      <4>2. CASE status = 400
        BY <4>1, <4>2
      <4>3. CASE status = 401
        BY <4>1, <4>3
      <4>4. QED BY <4>2, <4>3
    <3>2. CASE SubmitNotFound(t, n, g)
      <4>1. thread' = [thread EXCEPT ![t] =
              [Presented(n, g) EXCEPT !.at = "answered", !.status = 404]]
        BY <3>2 DEF SubmitNotFound
      <4>2. QED BY <4>1
    <3>3. CASE SubmitLookup(t, n, g)
      BY <3>3 DEF SubmitLookup
    <3>4. QED BY <1>2, <3>1, <3>2, <3>3
  <2>2. new.at = "verify" \/ (new.at = "answered" /\ new.status \in {400, 401, 404})
    <3>1. \A s \in {400, 401, 404} :
            /\ [Presented(n, g) EXCEPT !.at = "answered", !.status = s].at = "answered"
            /\ [Presented(n, g) EXCEPT !.at = "answered", !.status = s].status = s
      BY DEF Presented, NoRequest
    <3>2. [Presented(n, g) EXCEPT !.at = "verify"].at = "verify"
      BY DEF Presented, NoRequest
    <3>3. CASE new = [Presented(n, g) EXCEPT !.at = "verify"]
      BY <3>2, <3>3
    <3>4. CASE \E s \in {400, 401, 404} : new = [Presented(n, g) EXCEPT !.at = "answered", !.status = s]
      BY <3>1, <3>4
    <3>5. QED BY <2>1, <3>3, <3>4
  <2>3. thread'[t] = new /\ \A x \in Threads \ {t} : thread'[x] = thread[x]
    BY <2>1 DEF TypeOK
  <2>4. UNCHANGED <<now, archived, scores, redis, tokens, history>>
    BY <1>2 DEF SubmitMalformed, SubmitNotFound, SubmitLookup
  <2>5. QED BY <2>2, <2>3, <2>4, ThreadStep
<1>3. CASE Verify(t) \/ ConsumeRefused(t) \/ Sanitize(t) \/ Fail(t)
  <2>1. UNCHANGED <<now, archived, scores, redis, tokens, history>>
    BY <1>3 DEF Verify, ConsumeRefused, Sanitize, Fail
  <2>2. CASE \E status \in {400, 401, 500} : Answer(t, status)
    BY <2>1, <2>2, AnswerEffect, ThreadStep
  <2>3. CASE Goto(t, "consume") /\ HasToken(thread[t].nonce, thread[t].game)
    BY <2>1, <2>3, GotoEffect, ThreadStep DEF HasToken
  <2>4. CASE Goto(t, "insert") /\ thread[t].at = "sanitize"
    BY <2>1, <2>4, GotoEffect, ThreadStep
  <2>5. QED
    BY <1>3, <2>2, <2>3, <2>4
    DEF Verify, ConsumeRefused, Sanitize, Fail, Genuine, HasToken
<1>4. QED BY <1>1, <1>2, <1>3

(* A fresh nonce has no key, no token and no owner yet. *)
LEMMA SetNonceStep ==
  ASSUME IInv, TypeOK', NEW t \in Threads, SetNonce(t)
  PROVE  IInv'
<1> USE DEF IInv
<1>1. PICK n \in Nonces :
        /\ n \notin drawn
        /\ nonceKey' = [nonceKey EXCEPT ![n] = now + TTL]
        /\ drawn' = drawn \cup {n}
        /\ thread'[t].at = "sign" /\ thread'[t].nonce = n /\ thread'[t].since = now
        /\ \A x \in Threads \ {t} : thread'[x] = thread[x]
        /\ UNCHANGED <<now, archived, scores, snapshot, version, dropped, restarts,
                       tokens, consumedAt>>
  <2>1. PICK n \in Nonces :
          /\ n \notin drawn
          /\ nonceKey' = [nonceKey EXCEPT ![n] = now + TTL]
          /\ drawn' = drawn \cup {n}
          /\ thread' = [thread EXCEPT ![t].at = "sign", ![t].nonce = n, ![t].since = now]
    BY DEF SetNonce
  <2>2. \A q \in Request : LET d == [q EXCEPT !.at = "sign", !.nonce = n, !.since = now] IN
          d.at = "sign" /\ d.nonce = n /\ d.since = now
    BY DEF Request
  <2>3. thread' = [thread EXCEPT ![t] = [thread[t] EXCEPT !.at = "sign", !.nonce = n, !.since = now]]
    BY <2>1 DEF TypeOK
  <2>4. /\ thread'[t].at = "sign" /\ thread'[t].nonce = n /\ thread'[t].since = now
        /\ \A x \in Threads \ {t} : thread'[x] = thread[x]
    BY <2>2, <2>3 DEF TypeOK
  <2>5. QED BY <2>1, <2>4 DEF SetNonce
<1>2. nonceKey[n] = 0 /\ snapshot.nonceKey[n] = 0 /\ consumedAt[n] = 0
  BY <1>1 DEF NoncesDrawn
<1>3. \A m \in Nonces \ {n} : nonceKey'[m] = nonceKey[m]
  BY <1>1 DEF TypeOK
<1>4. nonceKey'[n] = now + TTL /\ now + TTL # 0
  BY <1>1, Fields DEF TypeOK
<1>5. (\A k \in tokens : k.nonce # n) /\ \A x \in Threads : thread[x].at = "sign" => thread[x].nonce # n
  BY <1>1 DEF Signing, Signed, KeyOf
<1>6. NoncesDrawn'
  BY <1>1, <1>3 DEF NoncesDrawn
<1>7. Signed'
  BY <1>1, <1>3, <1>5, Fields DEF Signed, KeyOf, Gone
<1>8. Signing'
  <2>1. KeyOf(n, now)'
    BY <1>1, <1>2, <1>4 DEF KeyOf
  <2>2. now # 0 /\ now <= now
    BY Fields
  <2>3. ASSUME NEW x \in Threads \ {t}, thread[x].at = "sign"
        PROVE  KeyOf(thread[x].nonce, thread[x].since)'
    BY <1>1, <1>3, <1>5, <2>3, Fields DEF Signing, KeyOf, Gone
  <2>4. QED BY <1>1, <1>5, <2>1, <2>2, <2>3 DEF Signing
<1>9. Progress' /\ RowsConsumed' /\ BoundToGame' /\ TokenLifetime' /\ AcceptedIsStored'
  BY <1>1
  DEF Progress, HasToken, HasRow, Consumer, RowsConsumed, BoundToGame, TokenLifetime,
      AcceptedIsStored
<1>10. OneOwner => OneOwner'
  BY <1>1, <1>2, <1>3 DEF OneOwner, Consumer
<1>11. QED BY <1>1, <1>6, <1>7, <1>8, <1>9, <1>10

(* The token of a nonce is signed by the one thread that drew it. *)
LEMMA SignTokenStep ==
  ASSUME IInv, TypeOK', NEW t \in Threads, SignToken(t)
  PROVE  IInv'
<1> USE DEF IInv, redis, history
<1> DEFINE k == [nonce |-> thread[t].nonce, game |-> thread[t].game,
                 setAt |-> thread[t].since, iat |-> now]
<1>1. /\ thread[t].at = "sign" /\ tokens' = tokens \cup {k}
      /\ thread'[t].at = "answered" /\ thread'[t].since = thread[t].since
      /\ \A x \in Threads \ {t} : thread'[x] = thread[x]
      /\ UNCHANGED <<now, archived, scores, redis, history>>
  BY AnswerEffect DEF SignToken
<1>2. /\ thread[t].since # 0 /\ k.setAt <= k.iat /\ k.iat <= now
      /\ KeyOf(k.nonce, k.setAt)
      /\ \A j \in tokens : j.nonce # k.nonce
      /\ \A x \in Threads \ {t} : thread[x].at = "sign" => thread[x].nonce # k.nonce
  BY <1>1, Fields DEF Signing
<1> HIDE DEF k
<1>3. NoncesDrawn'
  BY <1>1 DEF NoncesDrawn
<1>4. \A n, s : KeyOf(n, s) => KeyOf(n, s)'
  BY <1>1 DEF KeyOf, Gone
<1>5. Signed'
  BY <1>1, <1>2, <1>4 DEF Signed
<1>6. Signing'
  BY <1>1, <1>2, <1>4 DEF Signing
<1>7. Progress' /\ RowsConsumed' /\ BoundToGame' /\ TokenLifetime'
  BY <1>1
  DEF Progress, HasToken, HasRow, Consumer, RowsConsumed, BoundToGame, TokenLifetime
<1>8. AcceptedIsStored'
  BY <1>1, <1>2 DEF AcceptedIsStored
<1>9. OneOwner => OneOwner'
  BY <1>1 DEF OneOwner, Consumer
<1>10. QED BY <1>1, <1>3, <1>5, <1>6, <1>7, <1>8, <1>9
(* The DEL that finds the key makes its thread the owner of the nonce, in    *)
(* time: the key carries the expiry of the one SET, before the token's own.  *)
LEMMA ConsumeStep ==
  ASSUME IInv, TypeOK', NEW t \in Threads, Consume(t)
  PROVE  IInv'
<1> USE DEF IInv
<1> DEFINE n == thread[t].nonce
<1>1. /\ thread[t].at = "consume" /\ nonceKey[n] > now
      /\ nonceKey' = [nonceKey EXCEPT ![n] = 0]
      /\ consumedAt' = [consumedAt EXCEPT ![n] = now]
      /\ UNCHANGED <<now, archived, scores, snapshot, version, dropped, restarts, tokens, drawn>>
  BY DEF Consume, Alive
<1>2. /\ thread'[t].at = "sanitize" /\ thread'[t].nonce = n /\ thread'[t].game = thread[t].game
      /\ \A x \in Threads \ {t} : thread'[x] = thread[x]
  BY GotoEffect DEF Consume
<1>3. n \in Nonces /\ now \in Nat /\ now # 0
  BY Fields
<1> HIDE DEF n
<1>4. /\ nonceKey'[n] = 0 /\ consumedAt'[n] = now
      /\ \A m \in Nonces \ {n} : nonceKey'[m] = nonceKey[m] /\ consumedAt'[m] = consumedAt[m]
  BY <1>1, <1>3 DEF TypeOK
<1>5. PICK k \in tokens : k.nonce = n /\ k.game = thread[t].game
  BY <1>1 DEF Progress, HasToken, n
<1>6. n \in drawn /\ nonceKey[n] = k.setAt + TTL /\ k.setAt <= k.iat /\ k.iat <= now
  BY <1>1, <1>3, <1>5, Fields DEF Signed, KeyOf
<1>7. NoncesDrawn'
  BY <1>1, <1>4, <1>6 DEF NoncesDrawn
<1>8. \A m \in Nonces : \A s : KeyOf(m, s) => KeyOf(m, s)'
  BY <1>1, <1>3, <1>4 DEF KeyOf, Gone
<1>9. Signed' /\ Signing'
  BY <1>1, <1>2, <1>8, Fields DEF Signed, Signing
<1>10. Progress'
  <2>1. \A m \in Nonces : consumedAt[m] # 0 => consumedAt'[m] # 0
    BY <1>3, <1>4
  <2>2. ASSUME NEW x \in Threads
        PROVE  /\ (thread[x].at \in {"consume"} \cup Consumer =>
                     HasToken(thread[x].nonce, thread[x].game))'
               /\ (thread[x].at \in Consumer => consumedAt[thread[x].nonce] # 0)'
               /\ (thread[x].at = "bump" => HasRow(thread[x].nonce, thread[x].game))'
    <3>1. CASE x = t
      BY <1>1, <1>2, <1>3, <1>4, <1>5, <3>1 DEF Consumer, HasToken
    <3>2. CASE x # t
      BY <1>1, <1>2, <2>1, <3>2, Fields DEF Progress, HasToken, HasRow
    <3>3. QED BY <3>1, <3>2
  <2>3. QED BY <2>2 DEF Progress
<1>11. RowsConsumed' /\ BoundToGame'
  BY <1>1, <1>3, <1>4, Fields DEF RowsConsumed, BoundToGame
<1>12. TokenLifetime'
  <2>1. k.iat <= now /\ now < k.iat + TTL
    BY <1>1, <1>3, <1>6, Fields
  <2>2. QED BY <1>1, <1>4, <1>5, <2>1 DEF TokenLifetime
<1>13. AcceptedIsStored'
  BY <1>1, <1>2 DEF AcceptedIsStored
<1>14. ASSUME OneOwner PROVE OneOwner'
  <2>1. consumedAt[n] = 0
    BY <1>1, <1>3, <1>14 DEF OneOwner, TypeOK
  <2>2. (\A x \in Threads : thread[x].at \in Consumer => thread[x].nonce # n)
        /\ \A row \in scores : row.nonce # n
    BY <2>1 DEF Progress, RowsConsumed
  <2>3. \A x \in Threads : thread'[x].at \in Consumer /\ thread'[x].nonce = n => x = t
    BY <1>2, <2>2
  <2>4. \A m \in Nonces : consumedAt'[m] # 0 => nonceKey'[m] = 0
    BY <1>4, <1>14 DEF OneOwner
  <2>5. \A x, y \in Threads :
          thread'[x].at \in Consumer /\ thread'[y].at \in Consumer
            /\ thread'[x].nonce = thread'[y].nonce => x = y
    <3>1. SUFFICES ASSUME NEW x \in Threads, NEW y \in Threads,
                          thread'[x].at \in Consumer, thread'[y].at \in Consumer,
                          thread'[x].nonce = thread'[y].nonce, thread'[x].nonce # n
                   PROVE  x = y
      BY <2>3
    <3>2. x # t /\ y # t
      BY <1>2, <3>1
    <3>3. QED BY <1>2, <1>14, <3>1, <3>2 DEF OneOwner
  <2>6. QED BY <1>1, <1>2, <1>14, <2>2, <2>4, <2>5 DEF OneOwner
<1>15. QED BY <1>1, <1>7, <1>9, <1>10, <1>11, <1>12, <1>13, <1>14

(* The owner of a nonce turns into the one row that has it. *)
LEMMA InsertStep ==
  ASSUME IInv, TypeOK', NEW t \in Threads, Insert(t)
  PROVE  IInv'
<1> USE DEF IInv, redis, history
<1> DEFINE row == Row(Cardinality(scores) + 1, t)
<1>1. /\ thread[t].at = "insert" /\ scores' = scores \cup {row}
      /\ UNCHANGED <<now, archived, redis, tokens, history>>
  BY DEF Insert
<1>2. /\ thread'[t].at = "bump" /\ thread'[t].nonce = thread[t].nonce
      /\ thread'[t].game = thread[t].game
      /\ \A x \in Threads \ {t} : thread'[x] = thread[x]
  BY GotoEffect DEF Insert
<1>3. row.nonce = thread[t].nonce /\ row.game = thread[t].game
  BY DEF Row
<1> HIDE DEF row
<1>4. NoncesDrawn' /\ Signing' /\ Signed'
  BY <1>1, <1>2 DEF NoncesDrawn, Signing, Signed, KeyOf, Gone
<1>5. Progress'
  BY <1>1, <1>2, <1>3 DEF Progress, HasToken, HasRow, Consumer
<1>6. RowsConsumed' /\ BoundToGame'
  BY <1>1, <1>3 DEF RowsConsumed, BoundToGame, Progress, HasToken, Consumer
<1>7. TokenLifetime' /\ AcceptedIsStored'
  BY <1>1, <1>2 DEF TokenLifetime, AcceptedIsStored
<1>8. ASSUME OneOwner PROVE OneOwner'
  <2>1. \A x \in Threads : thread'[x].at \in Consumer =>
          thread[x].at \in Consumer /\ thread'[x].nonce = thread[x].nonce
    BY <1>1, <1>2 DEF Consumer
  <2>2. \A x \in Threads \ {t} : thread[x].at \in Consumer => thread[x].nonce # thread[t].nonce
    BY <1>1, <1>8 DEF OneOwner, Consumer
  <2>3. \A old \in scores : old.nonce # row.nonce
    BY <1>1, <1>3, <1>8 DEF OneOwner
  <2>4. \A x \in Threads : thread'[x].at \in {"sanitize", "insert"} =>
          \A new \in scores' : new.nonce # thread'[x].nonce
    BY <1>1, <1>2, <1>3, <1>8, <2>2 DEF OneOwner, Consumer
  <2>5. \A a, b \in scores' : a.nonce = b.nonce => a = b
    BY <1>1, <1>8, <2>3 DEF OneOwner
  <2>6. QED BY <1>1, <1>8, <2>1, <2>4, <2>5 DEF OneOwner
<1>9. QED BY <1>1, <1>4, <1>5, <1>6, <1>7, <1>8

(* The 201 leaves a thread whose row is committed. *)
LEMMA BumpStep ==
  ASSUME IInv, TypeOK', NEW t \in Threads, Bump(t)
  PROVE  IInv'
<1> USE DEF IInv, history
<1>1. /\ thread[t].at = "bump"
      /\ UNCHANGED <<now, archived, scores, nonceKey, snapshot, dropped, restarts, tokens, history>>
  BY DEF Bump
<1>2. /\ thread'[t].at = "answered" /\ thread'[t].nonce = thread[t].nonce
      /\ thread'[t].game = thread[t].game
      /\ \A x \in Threads \ {t} : thread'[x] = thread[x]
  BY AnswerEffect DEF Bump
<1>3. NoncesDrawn' /\ Signing' /\ Signed'
  BY <1>1, <1>2 DEF NoncesDrawn, Signing, Signed, KeyOf, Gone
<1>4. Progress' /\ RowsConsumed' /\ BoundToGame' /\ TokenLifetime'
  BY <1>1, <1>2
  DEF Progress, HasToken, HasRow, Consumer, RowsConsumed, BoundToGame, TokenLifetime
<1>5. AcceptedIsStored'
  BY <1>1, <1>2 DEF AcceptedIsStored, Progress, HasRow
<1>6. OneOwner => OneOwner'
  BY <1>1, <1>2 DEF OneOwner, Consumer
<1>7. QED BY <1>1, <1>3, <1>4, <1>5, <1>6

(* Time only takes keys away; so does Redis, except at a restart, which      *)
(* brings back keys with the expiry they had.                                *)
LEMMA EnvironmentStep ==
  ASSUME IInv, TypeOK',
         Tick \/ (\E g \in Games : EditGame(g)) \/ (\E n \in Nonces : EvictNonce(n)) \/ Save \/ Restart
  PROVE  IInv'
<1> USE DEF IInv, redis, history
<1>1. /\ now' \in Nat /\ now <= now' /\ dropped \subseteq dropped'
      /\ UNCHANGED <<scores, tokens, thread, drawn, consumedAt>>
  BY Fields DEF Tick, EditGame, EvictNonce, Save, Restart
<1>2. ASSUME NEW n \in Nonces, NEW s \in Nat, KeyOf(n, s) PROVE KeyOf(n, s)'
  <2>1. CASE Tick
    BY <1>1, <1>2, <2>1, Fields DEF Tick, KeyOf, Gone
  <2>2. CASE \E g \in Games : EditGame(g)
    BY <1>2, <2>2 DEF EditGame, KeyOf, Gone
  <2>3. CASE \E m \in Nonces : EvictNonce(m)
    BY <1>2, <2>3 DEF EvictNonce, KeyOf, Gone, TypeOK
  <2>4. CASE Save
    BY <1>2, <2>4 DEF Save, KeyOf, Gone
  <2>5. CASE Restart
    BY <1>2, <2>5, Fields DEF Restart, KeyOf, Gone, Alive, TypeOK
  <2>6. QED BY <2>1, <2>2, <2>3, <2>4, <2>5
<1>3. NoncesDrawn'
  <2>1. CASE Tick \/ \E g \in Games : EditGame(g)
    BY <2>1 DEF Tick, EditGame, NoncesDrawn
  <2>2. CASE \E m \in Nonces : EvictNonce(m)
    BY <2>2 DEF EvictNonce, NoncesDrawn, TypeOK
  <2>3. CASE Save
    BY <2>3 DEF Save, NoncesDrawn
  <2>4. CASE Restart
    BY <2>4 DEF Restart, NoncesDrawn
  <2>5. QED BY <2>1, <2>2, <2>3, <2>4
<1>4. Signed' /\ Signing'
  <2>1. \A k \in tokens : k.iat <= now'
    BY <1>1, Fields DEF Signed
  <2>2. \A t \in Threads : thread[t].at = "sign" => thread[t].since <= now'
    BY <1>1, Fields DEF Signing
  <2>3. QED BY <1>1, <1>2, <2>1, <2>2, Fields DEF Signed, Signing
<1>5. /\ Progress' /\ RowsConsumed' /\ BoundToGame' /\ TokenLifetime' /\ AcceptedIsStored'
  BY <1>1
  DEF Progress, HasToken, HasRow, Consumer, RowsConsumed, BoundToGame, TokenLifetime,
      AcceptedIsStored
<1>6. ASSUME restarts' = 0 PROVE OneOwner'
  <2>1. restarts = 0 /\ \A n \in Nonces : nonceKey'[n] \in {0, nonceKey[n]}
    <3>1. CASE Restart
      BY <1>6, <3>1 DEF Restart, TypeOK
    <3>2. CASE \E m \in Nonces : EvictNonce(m)
      BY <1>6, <3>2 DEF EvictNonce, TypeOK
    <3>3. QED BY <1>6, <3>1, <3>2 DEF Tick, EditGame, Save
  <2>2. OneOwner
    BY <2>1
  <2>3. QED BY <1>1, <2>1, <2>2 DEF OneOwner
<1>7. QED BY <1>3, <1>4, <1>5, <1>6

LEMMA InvStep == IInv /\ [Next]_vars => IInv'
<1> SUFFICES ASSUME IInv, [Next]_vars PROVE IInv'
  OBVIOUS
<1>1. TypeOK'
  BY TypeStep DEF IInv
<1>2. ASSUME NEW t \in Threads, Session(t) PROVE IInv'
  BY <1>1, <1>2, QuietSteps, SetNonceStep, SignTokenStep DEF Session
<1>3. ASSUME NEW t \in Threads, Submit(t) \/ Fail(t) PROVE IInv'
  BY <1>1, <1>3, QuietSteps, ConsumeStep, InsertStep, BumpStep DEF Submit
<1>4. CASE Tick \/ (\E g \in Games : EditGame(g)) \/ (\E n \in Nonces : EvictNonce(n)) \/ Save \/ Restart
  BY <1>1, <1>4, EnvironmentStep
<1>5. CASE UNCHANGED vars
  BY <1>5
  DEF vars, IInv, TypeOK, NoncesDrawn, Signing, Signed, KeyOf, Gone, Progress, HasToken,
      HasRow, RowsConsumed, BoundToGame, TokenLifetime, AcceptedIsStored, OneOwner
<1>6. QED BY <1>2, <1>3, <1>4, <1>5 DEF Next

(* The inductive invariant holds in every reachable state. *)
THEOREM Invariance == Spec => []IInv
BY InvInit, InvStep, PTL DEF Spec

-------------------------------------------------------------------------------
(* What follows from it. *)

(* A token buys at most one score, for any number of threads that present it *)
(* and wherever requests fail, while Redis does not restart from a snapshot. *)
THEOREM TokenBuysOneScore == Spec => []SingleUse
<1>1. IInv => SingleUse
  BY DEF IInv, OneOwner, SingleUse
<1>2. QED BY <1>1, Invariance, PTL

(* A score is stored only for the game its token was issued for, restarts or *)
(* not.                                                                      *)
THEOREM ScoresBoundToGame == Spec => []BoundToGame
BY Invariance, PTL DEF IInv

(* No token is consumed before it was issued or TTL seconds after, restarts  *)
(* or not, although the DEL comes a step after the check of the age.         *)
THEOREM ConsumedInLifetime == Spec => []TokenLifetime
BY Invariance, PTL DEF IInv

(* A submission answered 201 is in the database.                             *)
THEOREM AcceptedStored == Spec => []AcceptedIsStored
BY Invariance, PTL DEF IInv

(* A token whose key is gone was consumed, outlived its TTL, or lost by Redis. *)
THEOREM RefusedForCause == Spec => []LiveUntilUsed
<1>1. ASSUME IInv PROVE LiveUntilUsed
  <2>1. SUFFICES ASSUME NEW k \in tokens, ~Alive(k.nonce)
                 PROVE  Gone(k.nonce, k.setAt)
    BY DEF LiveUntilUsed, Gone
  <2>2. KeyOf(k.nonce, k.setAt) /\ now \in Nat /\ k.setAt \in Nat
    BY <1>1, Fields DEF IInv, Signed
  <2>3. QED BY <2>1, <2>2 DEF KeyOf, Gone, Alive
<1>2. QED BY <1>1, Invariance, PTL

-------------------------------------------------------------------------------
(* The version and the commits.  What NoEarlyBump says is not inductive: the *)
(* next row needs an id that no row has, and a restart must not bring back a *)
(* version that is ahead.                                                    *)
Owing(g) == {t \in Threads : thread[t].at = "bump" /\ thread[t].game = g}
RowsOf(g) == {row \in scores : row.game = g}

Counts ==
  /\ \A g \in Games :
       /\ IsFiniteSet(Owing(g))
       /\ version[g] + Cardinality(Owing(g)) <= Cardinality(RowsOf(g))
       /\ snapshot.version[g] <= version[g]
  /\ \A row \in scores : row.id <= Cardinality(scores)

(* All numbers in Counts are naturals. *)
LEMMA CountTypes ==
  ASSUME TypeOK, Counts, NEW g \in Games
  PROVE  /\ version[g] \in Nat /\ snapshot.version[g] \in Nat
         /\ IsFiniteSet(Owing(g)) /\ Cardinality(Owing(g)) \in Nat
         /\ IsFiniteSet(RowsOf(g)) /\ Cardinality(RowsOf(g)) \in Nat
         /\ IsFiniteSet(scores) /\ Cardinality(scores) \in Nat
BY FS_Subset, FS_CardinalityType DEF Counts, TypeOK, RowsOf

LEMMA CountsInit == Init => Counts
<1> SUFFICES ASSUME Init PROVE Counts
  OBVIOUS
<1>1. ASSUME NEW g \in Games PROVE Owing(g) = {} /\ RowsOf(g) = {}
  BY DEF Init, NoRequest, Owing, RowsOf
<1>2. QED BY <1>1, FS_EmptySet DEF Init, Counts

(* A step of a thread that does not commit ends what it owed, or owes none.  *)
LEMMA CountsLess ==
  ASSUME TypeOK, Counts, NEW t \in Threads, thread'[t].at # "bump",
         \A x \in Threads \ {t} : thread'[x] = thread[x],
         UNCHANGED <<scores, snapshot, version>>
  PROVE  Counts'
<1>1. ASSUME NEW g \in Games
      PROVE  IsFiniteSet(Owing(g)') /\ Cardinality(Owing(g)') <= Cardinality(Owing(g))
  <2>1. Owing(g)' \subseteq Owing(g)
    BY DEF Owing
  <2>2. QED BY <2>1, CountTypes, FS_Subset
<1>2. ASSUME NEW g \in Games PROVE version[g] + Cardinality(Owing(g)') <= Cardinality(RowsOf(g))
  <2>1. Cardinality(Owing(g)') \in Nat
    BY <1>1, FS_CardinalityType
  <2>2. version[g] + Cardinality(Owing(g)) <= Cardinality(RowsOf(g))
    BY DEF Counts
  <2>3. QED BY <1>1, <2>1, <2>2, CountTypes
<1>3. \A g \in Games : RowsOf(g)' = RowsOf(g)
  BY DEF RowsOf
<1>4. QED BY <1>1, <1>2, <1>3 DEF Counts

LEMMA CountsBump ==
  ASSUME TypeOK, Counts, NEW t \in Threads, Bump(t)
  PROVE  Counts'
<1>1. /\ thread[t].at = "bump" /\ thread[t].game \in Games
      /\ thread'[t].at = "answered"
      /\ \A x \in Threads \ {t} : thread'[x] = thread[x]
      /\ \A g \in Games : version'[g] = IF g = thread[t].game THEN version[g] + 1 ELSE version[g]
      /\ UNCHANGED <<scores, snapshot>>
  BY DEF Bump, Answer, TypeOK, Request
<1>2. ASSUME NEW g \in Games
      PROVE  /\ IsFiniteSet(Owing(g)')
             /\ version'[g] + Cardinality(Owing(g)') <= Cardinality(RowsOf(g))
             /\ snapshot.version[g] <= version'[g]
  <2>1. Owing(g)' = Owing(g) \ {t} /\ (t \in Owing(g) <=> g = thread[t].game)
    BY <1>1 DEF Owing
  <2>2. /\ IsFiniteSet(Owing(g) \ {t})
        /\ Cardinality(Owing(g) \ {t}) =
             IF t \in Owing(g) THEN Cardinality(Owing(g)) - 1 ELSE Cardinality(Owing(g))
    BY CountTypes, FS_RemoveElement
  <2>3. /\ version[g] + Cardinality(Owing(g)) <= Cardinality(RowsOf(g))
        /\ snapshot.version[g] <= version[g]
    BY DEF Counts
  <2>4. QED BY <1>1, <2>1, <2>2, <2>3, CountTypes
<1>3. \A g \in Games : RowsOf(g)' = RowsOf(g)
  BY <1>1 DEF RowsOf
<1>4. QED BY <1>1, <1>2, <1>3 DEF Counts

LEMMA CountsInsert ==
  ASSUME TypeOK, Counts, NEW t \in Threads, Insert(t)
  PROVE  Counts'
<1> DEFINE new == Row(Cardinality(scores) + 1, t)
<1>1. /\ thread[t].at = "insert" /\ thread[t].game \in Games
      /\ thread'[t].at = "bump" /\ thread'[t].game = thread[t].game
      /\ \A x \in Threads \ {t} : thread'[x] = thread[x]
      /\ scores' = scores \cup {new}
      /\ UNCHANGED <<snapshot, version>>
  BY DEF Insert, Goto, TypeOK, Request, redis
<1>2. IsFiniteSet(scores) /\ Cardinality(scores) \in Nat
  BY FS_CardinalityType DEF TypeOK
<1>3. new \notin scores
  BY <1>2 DEF Counts, Row
<1>4. Cardinality(scores') = Cardinality(scores) + 1
  BY <1>1, <1>2, <1>3, FS_AddElement
<1>5. ASSUME NEW row \in scores' PROVE row.id <= Cardinality(scores')
  <2>1. CASE row = new
    BY <1>2, <1>4, <2>1 DEF Row
  <2>2. CASE row \in scores
    BY <1>2, <1>4, <2>2 DEF Counts, TypeOK
  <2>3. QED BY <1>1, <2>1, <2>2
<1>6. ASSUME NEW g \in Games
      PROVE  /\ IsFiniteSet(Owing(g)')
             /\ version[g] + Cardinality(Owing(g)') <= Cardinality(RowsOf(g)')
  <2>1. version[g] + Cardinality(Owing(g)) <= Cardinality(RowsOf(g))
    BY DEF Counts
  <2>2. CASE g = thread[t].game
    <3>1. Owing(g)' = Owing(g) \cup {t} /\ t \notin Owing(g)
      BY <1>1, <2>2 DEF Owing
    <3>2. RowsOf(g)' = RowsOf(g) \cup {new} /\ new \notin RowsOf(g)
      BY <1>1, <1>3, <2>2 DEF RowsOf, Row
    <3>3. IsFiniteSet(Owing(g)') /\ Cardinality(Owing(g)') = Cardinality(Owing(g)) + 1
      BY <3>1, CountTypes, FS_AddElement
    <3>4. Cardinality(RowsOf(g)') = Cardinality(RowsOf(g)) + 1
      BY <3>2, CountTypes, FS_AddElement
    <3>5. QED BY <2>1, <3>3, <3>4, CountTypes
  <2>3. CASE g # thread[t].game
    <3>1. Owing(g)' = Owing(g)
      BY <1>1, <2>3 DEF Owing
    <3>2. RowsOf(g)' = RowsOf(g)
      BY <1>1, <2>3 DEF RowsOf, Row
    <3>3. QED BY <2>1, <3>1, <3>2, CountTypes
  <2>4. QED BY <2>2, <2>3
<1>7. QED BY <1>1, <1>5, <1>6 DEF Counts

(* Saving remembers a version that is not ahead, restarting brings it back.  *)
LEMMA CountsEnvironment ==
  ASSUME TypeOK, Counts, UNCHANGED <<scores, thread>>,
         \/ UNCHANGED <<version, snapshot>>
         \/ version' = version /\ snapshot'.version = version
         \/ version' = snapshot.version /\ snapshot' = snapshot
  PROVE  Counts'
<1>1. ASSUME NEW g \in Games
      PROVE  /\ version'[g] + Cardinality(Owing(g)) <= Cardinality(RowsOf(g))
             /\ snapshot'.version[g] <= version'[g]
  <2>1. /\ version[g] + Cardinality(Owing(g)) <= Cardinality(RowsOf(g))
        /\ snapshot.version[g] <= version[g]
    BY DEF Counts
  <2>2. QED BY <2>1, CountTypes
<1>2. \A g \in Games : Owing(g)' = Owing(g) /\ RowsOf(g)' = RowsOf(g)
  BY DEF Owing, RowsOf
<1>3. QED BY <1>1, <1>2 DEF Counts

LEMMA CountsStep == TypeOK /\ Counts /\ [Next]_vars => Counts'
<1> SUFFICES ASSUME TypeOK, Counts, [Next]_vars PROVE Counts'
  OBVIOUS
<1>1. ASSUME NEW t \in Threads, Session(t) \/ Submit(t) \/ Fail(t), ~Insert(t), ~Bump(t)
      PROVE  Counts'
  <2>1. UNCHANGED <<scores, snapshot, version>>
    BY <1>1
    DEF Session, SessionNotFound, SessionLookup, SetNonce, SignToken, Submit, SubmitMalformed,
        SubmitNotFound, SubmitLookup, Verify, Consume, ConsumeRefused, Sanitize, Fail, redis
  <2> DEFINE Leaves ==
        thread'[t].at # "bump" /\ \A x \in Threads \ {t} : thread'[x] = thread[x]
  <2>2. Leaves
    <3> USE DEF TypeOK, Request
    <3>1. ASSUME NEW stage, stage # "bump", Goto(t, stage) PROVE Leaves
      BY <3>1 DEF Goto
    <3>2. ASSUME NEW status, Answer(t, status) PROVE Leaves
      BY <3>2 DEF Answer
    <3>3. ASSUME NEW g \in Games, SessionNotFound(t, g) \/ SessionLookup(t, g) PROVE Leaves
      <4>1. PICK new \in {[NoRequest EXCEPT !.at = "answered", !.status = 404],
                          [NoRequest EXCEPT !.at = "draw", !.game = g]} :
              thread' = [thread EXCEPT ![t] = new]
        BY <3>3 DEF SessionNotFound, SessionLookup
      <4>2. [NoRequest EXCEPT !.at = "answered", !.status = 404].at # "bump"
        BY DEF NoRequest
      <4>3. [NoRequest EXCEPT !.at = "draw", !.game = g].at # "bump"
        BY DEF NoRequest
      <4>4. new.at # "bump"
        BY <4>1, <4>2, <4>3, Zenon
      <4>5. thread'[t] = new /\ \A x \in Threads \ {t} : thread'[x] = thread[x]
        BY <4>1
      <4>6. QED BY <4>4, <4>5
    <3>4. ASSUME SetNonce(t) PROVE Leaves
      BY <3>4 DEF SetNonce
    <3>5. ASSUME NEW n \in Nonces, NEW g \in Games,
                 SubmitMalformed(t, n, g) \/ SubmitNotFound(t, n, g) \/ SubmitLookup(t, n, g)
          PROVE  Leaves
      <4>1. CASE SubmitMalformed(t, n, g)
        <5>1. PICK status \in {400, 401} :
                thread' = [thread EXCEPT ![t] =
                  [Presented(n, g) EXCEPT !.at = "answered", !.status = status]]
          BY <4>1 DEF SubmitMalformed
        <5>2. [Presented(n, g) EXCEPT !.at = "answered", !.status = status].at # "bump"
          BY DEF Presented, NoRequest
        <5>3. QED BY <5>1, <5>2
      <4>2. CASE SubmitNotFound(t, n, g)
        <5>1. thread' = [thread EXCEPT ![t] =
                [Presented(n, g) EXCEPT !.at = "answered", !.status = 404]]
          BY <4>2 DEF SubmitNotFound
        <5>2. [Presented(n, g) EXCEPT !.at = "answered", !.status = 404].at # "bump"
          BY DEF Presented, NoRequest
        <5>3. QED BY <5>1, <5>2
      <4>3. CASE SubmitLookup(t, n, g)
        <5>1. thread' = [thread EXCEPT ![t] = [Presented(n, g) EXCEPT !.at = "verify"]]
          BY <4>3 DEF SubmitLookup
        <5>2. [Presented(n, g) EXCEPT !.at = "verify"].at # "bump"
          BY DEF Presented, NoRequest
        <5>3. QED BY <5>1, <5>2
      <4>4. QED BY <3>5, <4>1, <4>2, <4>3
    <3>6. ASSUME SignToken(t) \/ Verify(t) \/ Consume(t) \/ ConsumeRefused(t) \/ Sanitize(t) \/ Fail(t)
          PROVE  Leaves
      BY <3>1, <3>2, <3>6 DEF SignToken, Verify, Consume, ConsumeRefused, Sanitize, Fail
    <3> HIDE DEF Leaves
    <3>7. QED BY <1>1, <3>3, <3>4, <3>5, <3>6 DEF Session, Submit
  <2>3. QED BY <2>1, <2>2, CountsLess
<1>2. CASE \/ Tick \/ (\E g \in Games : EditGame(g)) \/ (\E n \in Nonces : EvictNonce(n))
           \/ Save \/ Restart \/ UNCHANGED vars
  BY <1>2, CountsEnvironment DEF Tick, EditGame, EvictNonce, Save, Restart, vars, redis
<1>3. QED BY <1>1, <1>2, CountsInsert, CountsBump DEF Next

(* The version key is never ahead of the commits, for any number of threads, *)
(* wherever requests fail and however often Redis restarts.                  *)
THEOREM BumpsFollowCommits == Spec => []NoEarlyBump
<1>1. TypeOK /\ Counts => NoEarlyBump
  BY DEF Counts, NoEarlyBump, Owing, RowsOf
<1>2. IInv => TypeOK
  BY DEF IInv
<1>3. QED BY <1>1, <1>2, CountsInit, CountsStep, Invariance, PTL DEF Spec
===============================================================================
