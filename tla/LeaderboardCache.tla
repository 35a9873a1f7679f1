--------------------------- MODULE LeaderboardCache ---------------------------
(***************************************************************************)
(* The per-game result cache of app/services/cache.py with the requests    *)
(* around it: reads (api/leaderboards.py, api/champions.py) and the writes *)
(* that commit and then bump the game's version key (api/scores.py,        *)
(* admin/scores.py, admin/games.py).                                       *)
(*                                                                         *)
(* One game is modelled: every Redis key contains the game id, so games do *)
(* not share keys.  The database is abstracted to the number `rev' of      *)
(* changes committed to the game's row and scores; a statement that runs   *)
(* when rev = n "reads revision n" (READ COMMITTED: each statement sees    *)
(* what is committed when it starts).  Each Redis command and each SQL     *)
(* statement is one step; the gunicorn threads interleave between them.    *)
(***************************************************************************)
EXTENDS Integers

CONSTANTS
  Readers,   \* threads serving GET /leaderboards and GET /champions
  Writers,   \* threads serving a submission or an admin change
  Queries,   \* the values of cache_params() that readers ask for
  MaxRev,    \* bound: number of committed changes
  MaxEvict   \* bound: number of times Redis loses the version key

ASSUME BoundsAssumption == MaxRev \in Nat /\ MaxEvict \in Nat
ASSUME QueriesAssumption == Queries # {}

VARIABLES
  rev,        \* database: number of committed changes
  game,       \* database: the game row, [edited |-> revision of its last edit,
              \*           archived |-> BOOLEAN]
  pending,    \* pending[w]: revision w committed and has not bumped for, or 0
  lost,       \* history: revisions whose bump never happened
  acked,      \* history: latest revision whose author was told it succeeded
  ver,        \* Redis: lb:game:{id}:ver, 0 when the key is absent
  cache,      \* Redis: the lb:q:{id}:v{ver}:{h} entries
  evictions,  \* history: how often the version key was lost
  reader      \* reader[r]: the request r is serving

vars == <<rev, game, pending, lost, acked, ver, cache, evictions, reader>>
database == <<rev, game>>
writing == <<pending, lost, acked>>

Stages == {"idle", "version", "entry", "count", "page", "store", "done"}
NoRequest == [at |-> "idle", query |-> CHOOSE q \in Queries : TRUE, floor |-> 0,
              settings |-> 0, ver |-> 0, total |-> 0, rows |-> 0]

Init ==
  /\ rev = 0
  /\ game = [edited |-> 0, archived |-> FALSE]
  /\ pending = [w \in Writers |-> 0]
  /\ lost = {}
  /\ acked = 0
  /\ ver = 0
  /\ cache = {}
  /\ evictions = 0
  /\ reader = [r \in Readers |-> NoRequest]

-------------------------------------------------------------------------------
(* Writers: commit, then bump. *)

Commit(w) ==
  /\ pending[w] = 0
  /\ rev < MaxRev
  /\ rev' = rev + 1
  /\ pending' = [pending EXCEPT ![w] = rev + 1]
  /\ UNCHANGED <<lost, acked, ver, cache, evictions, reader>>

(* A score is submitted, cleared, deleted or restored. *)
CommitScores(w) ==
  /\ Commit(w)
  /\ game' = game

(* An admin saves the game form: any new settings, archived or not. *)
CommitGame(w) ==
  /\ Commit(w)
  /\ \E archived \in BOOLEAN : game' = [edited |-> rev + 1, archived |-> archived]

(* Fault: the bump is forgotten. *)
Bump_NoIncr(w) ==
  /\ pending[w] # 0
  /\ acked' = IF pending[w] > acked THEN pending[w] ELSE acked
  /\ pending' = [pending EXCEPT ![w] = 0]
  /\ UNCHANGED <<database, lost, ver, cache, evictions, reader>>

(* INCR of the version key, and the response that acknowledges the change. *)
Bump(w) ==
  /\ pending[w] # 0
  /\ ver' = ver + 1
  /\ acked' = IF pending[w] > acked THEN pending[w] ELSE acked
  /\ pending' = [pending EXCEPT ![w] = 0]
  /\ UNCHANGED <<database, lost, cache, evictions, reader>>

(* The worker dies, or Redis or the database refuses it, after the commit: *)
(* the change stays, the version does not move, nobody is told it worked.  *)
BumpLost(w) ==
  /\ pending[w] # 0
  /\ lost' = lost \cup {pending[w]}
  /\ pending' = [pending EXCEPT ![w] = 0]
  /\ UNCHANGED <<database, acked, ver, cache, evictions, reader>>

-------------------------------------------------------------------------------
(* Readers. *)

(* The handler selects the game row by slug; `settings' is the state of the *)
(* row it got, and stays what the ORM session answers for that row.         *)
Lookup(r, q) ==
  /\ reader[r].at \in {"idle", "done"}
  /\ ~game.archived
  /\ reader' = [reader EXCEPT ![r] =
       [NoRequest EXCEPT !.at = "version", !.query = q, !.floor = acked,
                         !.settings = game.edited]]
  /\ UNCHANGED <<database, writing, ver, cache, evictions>>

LookupNotFound(r) ==
  /\ reader[r].at \in {"idle", "done"}
  /\ game.archived
  /\ reader' = [reader EXCEPT ![r] = NoRequest]
  /\ UNCHANGED <<database, writing, ver, cache, evictions>>

current_game_version(r) ==
  /\ reader[r].at = "version"
  /\ reader' = [reader EXCEPT ![r].at = "entry", ![r].ver = ver]
  /\ UNCHANGED <<database, writing, ver, cache, evictions>>

(* Fault: the version is left out of the entry's key. *)
EntryFor_AnyVersion(e, r) == e.query = reader[r].query

EntryFor(e, r) == e.ver = reader[r].ver /\ e.query = reader[r].query

GetHit(r) ==
  /\ reader[r].at = "entry"
  /\ \E e \in cache :
       /\ EntryFor(e, r)
       /\ reader' = [reader EXCEPT ![r].at = "done", ![r].settings = e.settings,
                                   ![r].total = e.total, ![r].rows = e.rows]
  /\ UNCHANGED <<database, writing, ver, cache, evictions>>

GetMiss(r) ==
  /\ reader[r].at = "entry"
  /\ \A e \in cache : ~EntryFor(e, r)
  /\ reader' = [reader EXCEPT ![r].at = "count"]
  /\ UNCHANGED <<database, writing, ver, cache, evictions>>

(* The loader re-selects the game row, but the row is in the session's     *)
(* identity map, so its attributes stay those of Lookup; then it counts ... *)
LoadCount(r) ==
  /\ reader[r].at = "count"
  /\ reader' = [reader EXCEPT ![r].at = "page", ![r].total = rev]
  /\ UNCHANGED <<database, writing, ver, cache, evictions>>

(* Fault: the version is read again after the loader has begun. *)
LoadPage_LateVersion(r) ==
  /\ reader[r].at = "page"
  /\ reader' = [reader EXCEPT ![r].at = "store", ![r].rows = rev, ![r].ver = ver]
  /\ UNCHANGED <<database, writing, ver, cache, evictions>>

(* ... and reads the page with a second statement. *)
LoadPage(r) ==
  /\ reader[r].at = "page"
  /\ reader' = [reader EXCEPT ![r].at = "store", ![r].rows = rev]
  /\ UNCHANGED <<database, writing, ver, cache, evictions>>

(* Fault: the key is built when the result is stored. *)
EntryOf_LateKey(r) ==
  [ver |-> ver, query |-> reader[r].query, settings |-> reader[r].settings,
   total |-> reader[r].total, rows |-> reader[r].rows]

EntryOf(r) ==
  [ver |-> reader[r].ver, query |-> reader[r].query, settings |-> reader[r].settings,
   total |-> reader[r].total, rows |-> reader[r].rows]

(* SET replaces the entry under the key and gives it a new TTL. *)
Store(r) ==
  /\ reader[r].at = "store"
  /\ cache' = {e \in cache : ~EntryFor(e, r)} \cup {EntryOf(r)}
  /\ reader' = [reader EXCEPT ![r].at = "done"]
  /\ UNCHANGED <<database, writing, ver, evictions>>

-------------------------------------------------------------------------------
(* Redis. *)

(* Fault: entries are stored without a TTL. *)
Expire_Never(v, q) == v # v /\ UNCHANGED vars /\ q # q

(* The entry under key (v, q) reaches its TTL, or is evicted before that. *)
Expire(v, q) ==
  /\ \E e \in cache : e.ver = v /\ e.query = q
  /\ cache' = {e \in cache : ~(e.ver = v /\ e.query = q)}
  /\ UNCHANGED <<database, writing, ver, evictions, reader>>

(* maxmemory-policy allkeys-lru may evict the version key, which has no TTL. *)
EvictVersion ==
  /\ ver # 0
  /\ evictions < MaxEvict
  /\ ver' = 0
  /\ evictions' = evictions + 1
  /\ UNCHANGED <<database, writing, cache, reader>>

-------------------------------------------------------------------------------
Write(w) == CommitScores(w) \/ CommitGame(w) \/ Bump(w) \/ BumpLost(w)

Fill(r) ==
  \/ current_game_version(r)
  \/ GetHit(r)
  \/ GetMiss(r)
  \/ LoadCount(r)
  \/ LoadPage(r)
  \/ Store(r)

Next ==
  \/ \E w \in Writers : Write(w)
  \/ \E r \in Readers : (\E q \in Queries : Lookup(r, q)) \/ LookupNotFound(r) \/ Fill(r)
  \/ \E v \in 0 .. MaxRev, q \in Queries : Expire(v, q)
  \/ EvictVersion

Spec == Init /\ [][Next]_vars

(* A thread that has begun goes on; a key with a TTL does not stay for ever. *)
(* Nothing obliges clients to read or write, or Redis to lose anything.      *)
FairSpec ==
  /\ Spec
  /\ \A r \in Readers : WF_vars(Fill(r))
  /\ \A w \in Writers : WF_vars(Bump(w) \/ BumpLost(w))
  /\ \A v \in 0 .. MaxRev, q \in Queries : WF_vars(Expire(v, q))
-------------------------------------------------------------------------------
(* Properties. *)

Entries == [ver : Nat, query : Queries, settings : Nat, total : Nat, rows : Nat]

(* Type invariant of the module. *)
TypeOK ==
  /\ rev \in Nat
  /\ game \in [edited : Nat, archived : BOOLEAN]
  /\ pending \in [Writers -> Nat]
  /\ lost \in SUBSET Nat
  /\ acked \in Nat
  /\ ver \in Nat
  /\ cache \in SUBSET Entries
  /\ evictions \in Nat
  /\ reader \in [Readers -> [at : Stages, query : Queries, floor : Nat,
                             settings : Nat, ver : Nat, total : Nat, rows : Nat]]

(* The changes that are committed but that no bump has published. *)
Unbumped == lost \cup ({pending[w] : w \in Writers} \ {0})

(* get_or_set never leaves an outdated result reachable: as long as Redis    *)
(* keeps the version key, whatever a result under the current version has    *)
(* not seen is a change whose own bump has not happened, however the reads   *)
(* of the version, the entry and the database interleave with the commits.   *)
Coherent ==
  evictions = 0 =>
    \A e \in cache : e.ver = ver => \A n \in e.total + 1 .. rev : n \in Unbumped

(* The count and the page come from two statements and may disagree, but a   *)
(* disagreeing result is out of reach once every commit has been bumped.     *)
TornResultsUnreachable ==
  (evictions = 0 /\ lost = {} /\ \A w \in Writers : pending[w] = 0) =>
    \A e \in cache : e.ver = ver => e.total = e.rows

(* An answer shows every change acknowledged before the request began.       *)
Fresh(r) == reader[r].floor <= reader[r].total /\ reader[r].total <= reader[r].rows

(* Read-your-writes across threads, for answers from the cache and from the  *)
(* database alike, as long as Redis keeps the version key (cache.py:7-9).    *)
ReadsAreFresh ==
  evictions = 0 => \A r \in Readers : reader[r].at = "done" => Fresh(r)

(* cache.py:9 says the scheme has no race window: with every change bumped,  *)
(* a result under the current version was computed with the current game     *)
(* settings.                                                                 *)
NoRaceWindow ==
  (evictions = 0 /\ lost = {} /\ \A w \in Writers : pending[w] = 0) =>
    \A e \in cache : e.ver = ver => e.settings = game.edited

(* Whatever was lost (a bump, the version key, a reader's race), the TTL     *)
(* heals it: once changes stop, what is reachable becomes and stays current, *)
(* rows and settings (redis.conf:9-11, api.md:213 "fallback TTL").           *)
HealsWithinTTL ==
  <>[](\A e \in cache : e.ver = ver =>
         e.total = rev /\ e.rows = rev /\ e.settings = game.edited)

(* The abstract promise, and how this module's state maps to it. *)
ReadOf(request) ==
  CASE request.at = "idle" -> [state |-> "idle"]
    [] request.at = "done" ->
         [state |-> "answered", floor |-> request.floor,
          total |-> request.total, rows |-> request.rows]
    [] OTHER -> [state |-> "waiting", floor |-> request.floor]

Promise == INSTANCE FreshReads WITH read <- [r \in Readers |-> ReadOf(reader[r])]

(* The cached read path implements the promise of FreshReads: every answer,  *)
(* hit or miss, is one an uncached read could have given.                    *)
ImplementsFreshReads == Promise!Spec
-------------------------------------------------------------------------------
(* The inductive invariant behind Coherent, ReadsAreFresh and the refinement. *)

Versioned(r) == reader[r].at \in {"entry", "count", "page", "store"}
Loaded(r) == reader[r].at \in {"page", "store"}
MissesOnlyUnbumped(total) == \A n \in total + 1 .. rev : n \in Unbumped

(* Each revision has one author: it is pending in at most one thread, or lost. *)
OneAuthor ==
  /\ \A w \in Writers : pending[w] <= rev
  /\ \A n \in lost : n # 0 /\ n <= rev
  /\ \A w \in Writers : pending[w] # 0 =>
       /\ pending[w] \notin lost
       /\ \A x \in Writers : pending[x] = pending[w] => x = w

AckedIsBumped == acked <= rev /\ acked \notin Unbumped

(* The count is never ahead of the page, nor the page of the database. *)
CountBeforePage ==
  /\ \A e \in cache : e.total <= e.rows /\ e.rows <= rev
  /\ \A r \in Readers :
       /\ reader[r].floor <= acked
       /\ reader[r].at = "page" => reader[r].total <= rev
       /\ reader[r].at \in {"store", "done"} =>
            reader[r].total <= reader[r].rows /\ reader[r].rows <= rev

(* No version is in use that INCR has not produced yet. *)
VersionsPast ==
  /\ \A e \in cache : e.ver <= ver
  /\ \A r \in Readers : Versioned(r) => reader[r].ver <= ver

(* What a reader has loaded is as coherent as the entry it will become. *)
CoherentLoads ==
  \A r \in Readers :
    (Loaded(r) /\ reader[r].ver = ver) => MissesOnlyUnbumped(reader[r].total)

CoherentEntries == \A e \in cache : e.ver = ver => MissesOnlyUnbumped(e.total)

(* Everything under the version a reader has read, stored or about to be,    *)
(* shows what that reader is owed, even after the version has moved on.      *)
OwedEntries ==
  \A r \in Readers, e \in cache :
    (Versioned(r) /\ e.ver = reader[r].ver) => reader[r].floor <= e.total

OwedLoads ==
  \A r, x \in Readers :
    (Versioned(r) /\ Loaded(x) /\ reader[x].ver = reader[r].ver) =>
      reader[r].floor <= reader[x].total

OwedAnswers == \A r \in Readers : reader[r].at = "done" => reader[r].floor <= reader[r].total

Strong ==
  /\ VersionsPast
  /\ CoherentLoads
  /\ CoherentEntries
  /\ OwedEntries
  /\ OwedLoads
  /\ OwedAnswers

(* Everything above, the part after CountBeforePage as long as the version   *)
(* key was never lost; no interleaving of the Redis commands breaks it.      *)
IInv ==
  /\ TypeOK
  /\ OneAuthor
  /\ AckedIsBumped
  /\ CountBeforePage
  /\ evictions = 0 => Strong
===============================================================================
