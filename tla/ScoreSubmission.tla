--------------------------- MODULE ScoreSubmission ---------------------------
(***************************************************************************)
(* The life of a session token and of the score submitted with it:         *)
(* POST /sessions (app/api/sessions.py), the token service                 *)
(* (app/services/session_tokens.py) and POST /scores (app/api/scores.py).  *)
(*                                                                         *)
(* A token is a signed (game id, nonce, timestamp); Redis holds a key per  *)
(* nonce with a TTL, and consuming the token deletes that key.  Time is    *)
(* counted in whole seconds, as the signed timestamp is.  Each Redis       *)
(* command and each SQL statement of a handler is a step; the gunicorn     *)
(* threads interleave between them, and time passes between them.          *)
(*                                                                         *)
(* The verdict of sanitize_submission is left open (both may happen): it   *)
(* depends only on the request and the game row read at the start.         *)
(***************************************************************************)
EXTENDS Integers, FiniteSets

CONSTANTS
  Games,        \* game ids
  Nonces,       \* bound: the nonces token_urlsafe may draw, each at most once
  Threads,      \* threads serving requests
  TTL,          \* SESSION_TTL_SECONDS
  MaxTime,      \* bound: the last second of the run
  MaxRestarts,  \* bound: how often Redis restarts from its snapshot
  MaxEvicted    \* bound: how many nonce keys Redis loses before their TTL

ASSUME TTLAssumption == TTL \in Nat \ {0}
ASSUME SetsAssumption == Nonces # {} /\ Games # {}
ASSUME BoundsAssumption ==
  MaxTime \in Nat /\ MaxRestarts \in Nat /\ MaxEvicted \in Nat

VARIABLES
  now,         \* the clock shared by the application and Redis
  archived,    \* database: the games with archived = true
  scores,      \* database: committed score rows
  nonceKey,    \* Redis: expiry time of the key of nonce n, 0 when it is absent
  snapshot,    \* Redis: the last RDB snapshot, of nonceKey and version
  version,     \* Redis: how often submissions bumped the game's version key
  tokens,      \* the signed tokens clients hold
  thread,      \* thread[t]: the request t is serving
  drawn,       \* history: nonces that were drawn
  consumedAt,  \* history: when nonce n was last consumed, 0 for never
  dropped,     \* history: nonces whose key Redis lost before its TTL
  restarts     \* history: how often Redis restarted

vars == <<now, archived, scores, nonceKey, snapshot, version, tokens, thread,
          drawn, consumedAt, dropped, restarts>>
redis == <<nonceKey, snapshot, version, dropped, restarts>>
history == <<drawn, consumedAt>>

SessionStages == {"draw", "sign"}
SubmitStages == {"verify", "consume", "sanitize", "insert", "bump"}
Consumer == {"sanitize", "insert", "bump"}      \* past the DEL of the nonce

Token == [nonce : Nonces, game : Games, setAt : Nat, iat : Nat]
Request == [at : {"idle", "answered"} \cup SessionStages \cup SubmitStages,
            nonce : Nonces, game : Games, since : Nat, status : Nat]

NoRequest == [at |-> "idle", nonce |-> CHOOSE n \in Nonces : TRUE,
              game |-> CHOOSE g \in Games : TRUE, since |-> 0, status |-> 0]

Alive(n) == nonceKey[n] > now

Init ==
  /\ now = 1
  /\ archived = {}
  /\ scores = {}
  /\ nonceKey = [n \in Nonces |-> 0]
  /\ version = [g \in Games |-> 0]
  /\ snapshot = [nonceKey |-> nonceKey, version |-> version]
  /\ tokens = {}
  /\ thread = [t \in Threads |-> NoRequest]
  /\ drawn = {}
  /\ consumedAt = [n \in Nonces |-> 0]
  /\ dropped = {}
  /\ restarts = 0

Free(t) == thread[t].at \in {"idle", "answered"}
Goto(t, stage) == thread' = [thread EXCEPT ![t].at = stage]
Answer(t, status) == thread' = [thread EXCEPT ![t].at = "answered", ![t].status = status]

-------------------------------------------------------------------------------
(* POST /sessions *)

SessionNotFound(t, g) ==
  /\ Free(t)
  /\ g \in archived
  /\ thread' = [thread EXCEPT ![t] = [NoRequest EXCEPT !.at = "answered", !.status = 404]]
  /\ UNCHANGED <<now, archived, scores, redis, tokens, history>>

SessionLookup(t, g) ==
  /\ Free(t)
  /\ g \notin archived
  /\ thread' = [thread EXCEPT ![t] = [NoRequest EXCEPT !.at = "draw", !.game = g]]
  /\ UNCHANGED <<now, archived, scores, redis, tokens, history>>

(* Fault: the nonce key is set without its TTL. *)
SetNonce_NoTTL(t) ==
  /\ thread[t].at = "draw"
  /\ \E n \in Nonces \ drawn :
       /\ nonceKey' = [nonceKey EXCEPT ![n] = now + TTL + MaxTime]
       /\ drawn' = drawn \cup {n}
       /\ thread' = [thread EXCEPT ![t].at = "sign", ![t].nonce = n, ![t].since = now]
  /\ UNCHANGED <<now, archived, scores, snapshot, version, dropped, restarts,
                 tokens, consumedAt>>

(* issue_token: SET nonce NX EX ttl; a nonce whose key exists is redrawn. *)
SetNonce(t) ==
  /\ thread[t].at = "draw"
  /\ \E n \in Nonces \ drawn :
       /\ ~Alive(n)
       /\ nonceKey' = [nonceKey EXCEPT ![n] = now + TTL]
       /\ drawn' = drawn \cup {n}
       /\ thread' = [thread EXCEPT ![t].at = "sign", ![t].nonce = n, ![t].since = now]
  /\ UNCHANGED <<now, archived, scores, snapshot, version, dropped, restarts,
                 tokens, consumedAt>>

(* issue_token: the signer adds the timestamp; the 201 hands out the token. *)
SignToken(t) ==
  /\ thread[t].at = "sign"
  /\ tokens' = tokens \cup {[nonce |-> thread[t].nonce, game |-> thread[t].game,
                             setAt |-> thread[t].since, iat |-> now]}
  /\ Answer(t, 201)
  /\ UNCHANGED <<now, archived, scores, redis, history>>

-------------------------------------------------------------------------------
(* POST /scores *)

Presented(n, g) == [NoRequest EXCEPT !.nonce = n, !.game = g]

(* No bearer token (401), no JSON object, or fields the schema refuses (400):  *)
(* answered before anything else.                                             *)
SubmitMalformed(t, n, g) ==
  /\ Free(t)
  /\ \E status \in {400, 401} :
       thread' = [thread EXCEPT ![t] =
         [Presented(n, g) EXCEPT !.at = "answered", !.status = status]]
  /\ UNCHANGED <<now, archived, scores, redis, tokens, history>>

SubmitNotFound(t, n, g) ==
  /\ Free(t)
  /\ g \in archived
  /\ thread' = [thread EXCEPT ![t] =
       [Presented(n, g) EXCEPT !.at = "answered", !.status = 404]]
  /\ UNCHANGED <<now, archived, scores, redis, tokens, history>>

(* A client presents the token of nonce n with a submission for game g; a   *)
(* nonce of no signed token stands for a forged token.                      *)
SubmitLookup(t, n, g) ==
  /\ Free(t)
  /\ g \notin archived
  /\ thread' = [thread EXCEPT ![t] = [Presented(n, g) EXCEPT !.at = "verify"]]
  /\ UNCHANGED <<now, archived, scores, redis, tokens, history>>

(* Fault: the game id of the token is not compared. *)
Genuine_AnyGame(k, n, g) == k.nonce = n /\ now - k.iat <= TTL

(* verify_and_consume up to the DEL: signature, age, game id. *)
Genuine(k, n, g) == k.nonce = n /\ k.game = g /\ now - k.iat <= TTL

(* Fault: the nonce is deleted before the token is checked. *)
Verify_DelFirst(t) ==
  /\ thread[t].at = "verify"
  /\ IF \E k \in tokens : Genuine(k, thread[t].nonce, thread[t].game)
       THEN Goto(t, "consume") /\ nonceKey' = nonceKey
       ELSE Answer(t, 401) /\ nonceKey' = [nonceKey EXCEPT ![thread[t].nonce] = 0]
  /\ UNCHANGED <<now, archived, scores, snapshot, version, dropped, restarts, tokens, history>>

Verify(t) ==
  /\ thread[t].at = "verify"
  /\ IF \E k \in tokens : Genuine(k, thread[t].nonce, thread[t].game)
       THEN Goto(t, "consume")
       ELSE Answer(t, 401)
  /\ UNCHANGED <<now, archived, scores, redis, tokens, history>>

(* Fault: the count that DEL returns is ignored. *)
Consume_IgnoreCount(t) ==
  /\ thread[t].at = "consume"
  /\ nonceKey' = [nonceKey EXCEPT ![thread[t].nonce] = 0]
  /\ consumedAt' = [consumedAt EXCEPT ![thread[t].nonce] = now]
  /\ Goto(t, "sanitize")
  /\ UNCHANGED <<now, archived, scores, snapshot, version, dropped, restarts, tokens, drawn>>

(* verify_and_consume: DEL of the nonce key, by its count of deleted keys. *)
Consume(t) ==
  LET n == thread[t].nonce IN
  /\ thread[t].at = "consume"
  /\ Alive(n)
  /\ nonceKey' = [nonceKey EXCEPT ![n] = 0]
  /\ consumedAt' = [consumedAt EXCEPT ![n] = now]
  /\ Goto(t, "sanitize")
  /\ UNCHANGED <<now, archived, scores, snapshot, version, dropped, restarts, tokens, drawn>>

ConsumeRefused(t) ==
  /\ thread[t].at = "consume"
  /\ ~Alive(thread[t].nonce)
  /\ Answer(t, 401)
  /\ UNCHANGED <<now, archived, scores, redis, tokens, history>>

(* Fault: the version is bumped before the row is committed. *)
Sanitize_BumpFirst(t) ==
  /\ thread[t].at = "sanitize"
  /\ Goto(t, "insert")
  /\ version' = [version EXCEPT ![thread[t].game] = @ + 1]
  /\ UNCHANGED <<now, archived, scores, nonceKey, snapshot, dropped, restarts, tokens, history>>

Sanitize(t) ==
  /\ thread[t].at = "sanitize"
  /\ \/ Goto(t, "insert")
     \/ Answer(t, 400)
  /\ UNCHANGED <<now, archived, scores, redis, tokens, history>>

Row(id, t) == [id |-> id, nonce |-> thread[t].nonce, game |-> thread[t].game]

(* Fault: the row is added but not committed. *)
Insert_NoCommit(t) ==
  /\ thread[t].at = "insert"
  /\ Goto(t, "bump")
  /\ UNCHANGED <<now, archived, scores, redis, tokens, history>>

(* The score row is added and committed under the next id. *)
Insert(t) ==
  /\ thread[t].at = "insert"
  /\ scores' = scores \cup {Row(Cardinality(scores) + 1, t)}
  /\ Goto(t, "bump")
  /\ UNCHANGED <<now, archived, redis, tokens, history>>

Bump(t) ==
  /\ thread[t].at = "bump"
  /\ version' = [version EXCEPT ![thread[t].game] = @ + 1]
  /\ Answer(t, 201)
  /\ UNCHANGED <<now, archived, scores, nonceKey, snapshot, dropped, restarts, tokens, history>>

(* Redis or the database fails under a request: a 500 from wherever it is. *)
Fail(t) ==
  /\ ~Free(t)
  /\ Answer(t, 500)
  /\ UNCHANGED <<now, archived, scores, redis, tokens, history>>

-------------------------------------------------------------------------------
(* The environment. *)

Tick ==
  /\ now < MaxTime
  /\ now' = now + 1
  /\ UNCHANGED <<archived, scores, redis, tokens, thread, history>>

(* An admin archives a game or takes it out of the archive. *)
EditGame(g) ==
  /\ archived' = (archived \ {g}) \cup ({g} \ archived)
  /\ UNCHANGED <<now, scores, redis, tokens, thread, history>>

(* allkeys-lru evicts the key of a nonce before its TTL. *)
EvictNonce(n) ==
  /\ Alive(n)
  /\ Cardinality(dropped) < MaxEvicted
  /\ nonceKey' = [nonceKey EXCEPT ![n] = 0]
  /\ dropped' = dropped \cup {n}
  /\ UNCHANGED <<now, archived, scores, snapshot, version, restarts, tokens, thread, history>>

(* redis.conf `save': the RDB file holds the keys of that moment ... *)
Save ==
  /\ restarts < MaxRestarts
  /\ snapshot' = [nonceKey |-> nonceKey, version |-> version]
  /\ UNCHANGED <<now, archived, scores, nonceKey, version, dropped, restarts,
                 tokens, thread, history>>

(* ... and a restart after a crash brings back those, and only those. *)
Restart ==
  /\ restarts < MaxRestarts
  /\ restarts' = restarts + 1
  /\ nonceKey' = snapshot.nonceKey
  /\ version' = snapshot.version
  /\ dropped' = dropped \cup {n \in Nonces : Alive(n) /\ snapshot.nonceKey[n] = 0}
  /\ UNCHANGED <<now, archived, scores, snapshot, tokens, thread, history>>

-------------------------------------------------------------------------------
Session(t) ==
  \/ \E g \in Games : SessionNotFound(t, g) \/ SessionLookup(t, g)
  \/ SetNonce(t)
  \/ SignToken(t)

Submit(t) ==
  \/ \E n \in Nonces, g \in Games :
       SubmitMalformed(t, n, g) \/ SubmitNotFound(t, n, g) \/ SubmitLookup(t, n, g)
  \/ Verify(t)
  \/ Consume(t)
  \/ ConsumeRefused(t)
  \/ Sanitize(t)
  \/ Insert(t)
  \/ Bump(t)

Next ==
  \/ \E t \in Threads : Session(t) \/ Submit(t) \/ Fail(t)
  \/ Tick
  \/ \E g \in Games : EditGame(g)
  \/ \E n \in Nonces : EvictNonce(n)
  \/ Save
  \/ Restart

Spec == Init /\ [][Next]_vars
-------------------------------------------------------------------------------
(* Properties. *)

(* Type invariant of the module. *)
TypeOK ==
  /\ now \in Nat \ {0}
  /\ archived \in SUBSET Games
  /\ scores \in SUBSET [id : Nat, nonce : Nonces, game : Games] /\ IsFiniteSet(scores)
  /\ nonceKey \in [Nonces -> Nat]
  /\ snapshot \in [nonceKey : [Nonces -> Nat], version : [Games -> Nat]]
  /\ version \in [Games -> Nat]
  /\ tokens \in SUBSET Token
  /\ thread \in [Threads -> Request]
  /\ drawn \in SUBSET Nonces
  /\ consumedAt \in [Nonces -> Nat]
  /\ dropped \in SUBSET Nonces
  /\ restarts \in Nat

(* A token buys at most one score, however many threads present it at once   *)
(* and wherever their requests fail, as long as Redis does not restart from  *)
(* a snapshot (session_tokens.py: "atomically consume").                     *)
SingleUse ==
  restarts = 0 => \A a, b \in scores : a.nonce = b.nonce => a = b

(* The same without the proviso: README.md:174 "Tokens are single-use".      *)
TokensAreSingleUse == \A a, b \in scores : a.nonce = b.nonce => a = b

(* A score belongs to the game its token was issued for, and no token is     *)
(* consumed before it was issued or once TTL seconds have passed, although   *)
(* the age is checked one step before the DEL and time may pass in between.  *)
BoundToGame ==
  \A row \in scores : \E k \in tokens : k.nonce = row.nonce /\ k.game = row.game

TokenLifetime ==
  \A n \in Nonces : consumedAt[n] # 0 =>
    \E k \in tokens : /\ k.nonce = n
                      /\ k.iat <= consumedAt[n]
                      /\ consumedAt[n] < k.iat + TTL

(* A token is refused for its nonce only with a cause: it was consumed, it   *)
(* has outlived the TTL, or Redis lost the key.                              *)
LiveUntilUsed ==
  \A k \in tokens :
    \/ Alive(k.nonce)
    \/ consumedAt[k.nonce] # 0
    \/ k.nonce \in dropped
    \/ now >= k.setAt + TTL

(* The client that is answered 201 has its score in the database.            *)
AcceptedIsStored ==
  \A t \in Threads :
    (thread[t].at = "answered" /\ thread[t].status = 201 /\ thread[t].since = 0) =>
      \E row \in scores : row.nonce = thread[t].nonce /\ row.game = thread[t].game

(* The version key never runs ahead of the commits: a bump comes after the   *)
(* commit it publishes and at most once for it, whatever fails (a bump that  *)
(* came first would let a reader cache the old result under the new version).*)
NoEarlyBump ==
  \A g \in Games :
    version[g] + Cardinality({t \in Threads : thread[t].at = "bump" /\ thread[t].game = g})
      <= Cardinality({row \in scores : row.game = g})

-------------------------------------------------------------------------------
(* The inductive invariant behind SingleUse, BoundToGame, TokenLifetime,     *)
(* LiveUntilUsed and AcceptedIsStored.                                       *)

HasToken(n, g) == \E k \in tokens : k.nonce = n /\ k.game = g
HasRow(n, g) == \E row \in scores : row.nonce = n /\ row.game = g
Gone(n, setAt) == consumedAt[n] # 0 \/ n \in dropped \/ now >= setAt + TTL

(* The key of a nonce set at setAt, now and in the snapshot. *)
KeyOf(n, setAt) ==
  /\ n \in drawn
  /\ nonceKey[n] \in {0, setAt + TTL} /\ snapshot.nonceKey[n] \in {0, setAt + TTL}
  /\ nonceKey[n] = 0 => Gone(n, setAt)

NoncesDrawn ==
  \A n \in Nonces : n \notin drawn =>
    nonceKey[n] = 0 /\ snapshot.nonceKey[n] = 0 /\ consumedAt[n] = 0

(* A nonce is in the hands of one thread until its token is signed. *)
Signing ==
  \A t \in Threads : thread[t].at = "sign" =>
    /\ thread[t].since # 0 /\ thread[t].since <= now
    /\ KeyOf(thread[t].nonce, thread[t].since)
    /\ \A k \in tokens : k.nonce # thread[t].nonce
    /\ \A x \in Threads :
         thread[x].at = "sign" /\ thread[x].nonce = thread[t].nonce => x = t

Signed ==
  \A k \in tokens :
    /\ k.setAt <= k.iat /\ k.iat <= now
    /\ KeyOf(k.nonce, k.setAt)
    /\ \A j \in tokens : j.nonce = k.nonce => j = k

(* Past the check of the token it is genuine; past the DEL it is consumed; *)
(* past the commit its row is there.                                       *)
Progress ==
  \A t \in Threads :
    /\ thread[t].at \in {"consume"} \cup Consumer => HasToken(thread[t].nonce, thread[t].game)
    /\ thread[t].at \in Consumer => consumedAt[thread[t].nonce] # 0
    /\ thread[t].at = "bump" => HasRow(thread[t].nonce, thread[t].game)

RowsConsumed == \A row \in scores : consumedAt[row.nonce] # 0

(* While Redis has not restarted, a consumed nonce has no key any more and  *)
(* one owner: a thread that is still to insert its row, or that row.        *)
OneOwner ==
  /\ \A n \in Nonces : consumedAt[n] # 0 => nonceKey[n] = 0
  /\ \A t, x \in Threads :
       (/\ thread[t].at \in Consumer /\ thread[x].at \in Consumer
        /\ thread[t].nonce = thread[x].nonce) => t = x
  /\ \A t \in Threads : thread[t].at \in {"sanitize", "insert"} =>
       \A row \in scores : row.nonce # thread[t].nonce
  /\ \A a, b \in scores : a.nonce = b.nonce => a = b

IInv ==
  /\ TypeOK
  /\ NoncesDrawn
  /\ Signing
  /\ Signed
  /\ Progress
  /\ RowsConsumed
  /\ BoundToGame
  /\ TokenLifetime
  /\ AcceptedIsStored
  /\ restarts = 0 => OneOwner
===============================================================================
