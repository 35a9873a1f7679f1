# Verification of simple_leaderboards

TLA+ models of the parts of this service whose correctness depends on the order
in which concurrent requests, Redis and Postgres do things; TLC configurations
that check them on small instances; and proofs, checked by TLAPS, that the main
results hold for every number of threads, games, scores and for every bound.

Paths below are relative to the repository root unless they end in `.tla` or `.cfg`.

## 1. The system

The service is one Flask application under gunicorn (2 worker processes of 4
threads, `Dockerfile:35-42`), a Postgres database and one Redis. Every request
is served by one thread from start to end; threads share nothing but Postgres
and Redis. Postgres runs READ COMMITTED (nothing sets another level), so each
statement sees what is committed when it starts. Redis executes one command at
a time and may evict any key (`redis.conf:13`), loses what is newer than its
last snapshot when it crashes (`redis.conf:15-19`), and is not part of any
database transaction. So the unit of atomicity everywhere is one Redis command,
one SQL statement or one commit, and everything else interleaves.

### Inventory

| Component | Code | State it keeps | Operations | Hard behaviour | What makes it correct |
|---|---|---|---|---|---|
| Result cache | `app/services/cache.py`, `app/api/leaderboards.py`, `app/api/champions.py` | `lb:game:{id}:ver`, `lb:q:{id}:v{ver}:{h}` in Redis | read version, get entry, load, set with TTL; bump | a fill races with commits and bumps; a lost bump; eviction of the version key; a stale ORM row in the loader | an answer shows every change that was acknowledged before the request; whatever goes wrong heals with the TTL |
| Session tokens and score submission | `app/services/session_tokens.py`, `app/api/sessions.py`, `app/api/scores.py` | `sess:nonce:*` in Redis, `scores` rows | issue; verify, consume, sanitize, insert, bump | one token in two threads; expiry between check and DEL; Redis restart; failure after the commit | a token buys at most one score, of its game, within its lifetime; 201 means stored |
| Admin login | `app/admin/auth.py`, `app/models/user.py` | `failed_login_attempts`, `locked_until` | login, logout | read-modify-write around a slow argon2 check; partial-column UPDATEs | the account locks after the configured number of failures, not before; a success clears it |
| Score moderation | `app/admin/scores.py`, `app/models/admin_action.py` | `scores.deleted_at`, `admin_actions` | delete, restore, clear | decisions on a row loaded earlier; an UPDATE that waits for row locks | the log explains the table; a clear counts what it hides |
| Game administration | `app/admin/games.py`, `app/admin/forms.py`, `app/models/game.py` | `games` rows | create, edit (settings, bounds, archive) | a form filled from one row and written to another; two edits write disjoint columns; slugs that change hands under a token; a bump that fails after the commit | an edit writes what was asked; bounds stay consistent; a token reaches its game; every commit is published |
| Board queries | `app/services/leaderboard_query.py`, `app/services/champions.py` | none | count, page; winners per seed | two or three statements for one result; a count whose conditions are written a second time; rows that are committed late with an early date | ranks, ties, pages and totals agree with the definition of the board; past windows settle |
| Period bounds | `app/services/time_ranges.py` | none | range name to UTC interval | the clock goes back or forward inside or next to a period; month and year ends | half-open periods that contain now and tile the time line |
| Sanity checks | `app/services/sanity.py` | none | bounds, played_at, seed and custom fields of a submission | the order of the checks; declarations the form accepts and the checks do not expect | the verdict is one the documented rules give |
| Player names | `app/services/name_normalize.py` | none | normalise, strip, trim, limit | NFC comes before stripping | equivalent names are one player; stored names are clean |
| Device info, daily seeds | `app/services/device_info.py`, `daily_seed.py` | none | pure functions of a request or a date | 32-bit arithmetic | the seed is the client's |
| Admin accounts | `app/admin/users.py`, `app/cli_commands.py` | `admin_users` rows | create | check-then-insert | unique names (the constraint decides) |
| Dashboard, API test page, public pages | `app/admin/dashboard.py`, `api_test.py`, `app/public/privacy.py` | none | read and render | none of their own | archived games hidden |
| Schemas, errors, wiring | `app/schemas`, `app/api/errors.py`, `app/__init__.py`, `config.py`, `extensions.py`, `security_headers.py` | limiter counters (library) | validate, answer | none of their own | status codes as documented |

How they interact: `POST /sessions` writes a nonce to Redis that `POST /scores`
deletes. Every change to a game or its scores (submission, moderation, game
edit) commits to Postgres and *then* increments the game's version key; reads
get the version first and everything else after. The game row is read by every
public request and written by the admin's edit; the ORM session keeps the row
it first loaded for the rest of the request.

## 2. Modules

| Module | Models | Extends / instantiates |
|---|---|---|
| `FreshReads` | abstract: the promise of the public reads, without a cache | |
| `Publishing` | abstract: the promise of every writer (commit, then one bump, or a failure that says so) | |
| `LeaderboardCache` | the cache, its readers and the writers of one game | instantiates `FreshReads` (`Promise`) |
| `ScoreSubmission` | sessions, tokens, nonces and submissions | |
| `AdminLogin` | one admin account under racing logins | |
| `Moderation` | rows, row locks, audit log and version of one game | instantiates `Publishing` (`P`) |
| `PlayerNames` | the name of a player, as stored | |
| `Sanity` | the checks of a submission, and the documented rules beside them | `PlayerNames` |
| `GameEditing` | the rows of `games`: forms, edits, slugs; clients with tokens | `Sanity`; instantiates `Publishing` (`P(g)`) |
| `TimeRanges` | calendar, zones and the bounds of a period | |
| `Ranking` | what the statements behind boards and champions return | `TimeRanges` |
| `Boards` | one game's scores while they are submitted, moderated and read and time goes by | `Ranking` |
| `MC...` | symmetry sets, and the small calendars, forms and payloads for TLC | the module after `MC` |
| `...Proofs` | theorems and proofs | the module before `Proofs`, `TLAPS` |

`RankingProofs` also has the facts about `TimeRanges`, and `SanityProofs` those
about `PlayerNames`; `BoardsProofs` and `GameEditingProofs` build on them.

Operators whose name ends in a suffix after an underscore and whose comment
begins with "Fault:" (`Bump_NoIncr`, `Verify_DelFirst`, ...) are not part of
any specification. Each is a plausible mistake in the definition that follows
it; putting it in that definition's place makes TLC refute the property it is
paired with in `PROJECT.json`.

Two conventions recur. A nullable column or an omitted field is a set of at most
one value. A request keeps the row it loaded (`seen`, `row`, `settings`), as the
ORM's session does, and a commit writes only the columns that differ from it.

### LeaderboardCache

The database is a counter `rev` of committed changes: a statement that runs at
`rev = n` sees the first n changes. A cached result is the revision its count
saw (`total`), the revision its page saw (`rows`), the edit its game settings
come from (`settings`) and its key (`ver`, `query`). One game is enough, since
every key contains the game id.

* Writers: `CommitScores` (the commits of `submit_score`, `scores_clear`,
  `scores_delete`, `scores_restore`), `CommitGame` (`games_edit`), then `Bump`
  (INCR and the answer) or `BumpLost` (the process, Redis or the refresh of the
  row after the commit fails).
* Readers: `Lookup`/`LookupNotFound`, `current_game_version`, `GetHit` or
  `GetMiss`, `LoadCount`, `LoadPage`, `Store`, in `get_or_set`'s order. The
  champions' two counts are one step, their page the other. `Lookup` fixes
  `settings` for good: the second `SELECT` in the loader finds the row in the
  identity map and leaves its attributes alone.
* Redis: `Expire` (TTL or eviction of an entry), `EvictVersion`.

Left out: the parameters' JSON and hash (a query is one of `Queries`), the
content of a page (`Boards` has it), requests refused by the schema (they touch
nothing), corrupt entries (a miss).

### ScoreSubmission

Time is in whole seconds, as the signed timestamp is. `nonceKey[n]` is the
expiry time of the nonce's key; `tokens` are the signed tokens, with the time
the key was set and the (possibly later) signed time. A thread goes through
`draw`, `sign` for a session and `verify`, `consume`, `sanitize`, `insert`,
`bump` for a submission; any client may present any nonce for any game at any
time, and a nonce without a token stands for one that was never issued. `Fail`
ends a request with 500 wherever it is. `Save` and `Restart` are Redis' RDB, with the
version keys in the snapshot too. The verdict of the sanity checks is open here
(`GameEditing` computes it). `EditGame` archives and unarchives a game at any moment.

The stage of each thread and the sets of rows and tokens are the code's; the
histories (`drawn`, `consumedAt`, `dropped`, `restarts`) are read only by
properties and bounds.

### AdminLogin

`account` is the row's two lockout columns; `thread[t].seen` is the row as the
request loaded it. A failed login takes two steps after its check:
`register_failed_login` computes the lock from the clock it reads (`decided`), and
`CommitFailure` writes the row (`Failure`), so other logins may decide and commit in
between. `register_successful_login` reads no clock that the lockout depends on and
includes its commit. Both write only the columns that differ from `seen`.
`locked_until` is 0 for NULL. The history `raced` is set when a login commits
over a row it has not seen (`Overlapped`) and cleared by a success that has
seen the row it resets. Logout, the cookie, the rehash of an old hash and
`last_login_at` are left out.

### Moderation

`deletedAt[s]` is the column (0 for NULL), `audit` the log, each entry with the id
that its INSERT drew. Entries stand in the order of their commits, but every reader of
the log goes by id, and so does the property. Delete and restore are
`...Load` (the decision), `AuditInsert` (the flush begins with the entry and draws its
id) and `Write` (UPDATE and commit). Clear is `ClearStart` (the UPDATE finds its rows),
`ClearUpdate` (it has waited for locked rows and tested its WHERE again),
`AuditInsert` and `ClearCommit`; from the update to the commit the rows are locked
(`LockedAgainst`). Two deletes of one row that overlap both write and both log. If a
delete and a restore overlap, the first to draw its id may be the last to commit, and
the newest entry then contradicts the row (`Overtaken`); without that
exception TLC finds `AuditExplainsRows` violated by a delete, a second delete and a restore.
`SubmitScore` adds rows; every commit goes through `Bump`. A deadlock of two
clears, which Postgres would break by aborting one, is a `Fail`.

### GameEditing, Sanity, PlayerNames

An edit is two requests. `EditForm` fills the form from the row (`shown`);
`EditPost` gets it back with at most one field changed (`asked`), loads the row
(`seen`) and either refuses (`EditRefused`) or goes on (`EditLoad`); the commit
merges what differs from `seen` into the row as it then is (`Saved`), and either
meets the unique slug (`EditConflict`) or writes row and audit entry
(`EditSave`); `EditBump` publishes. `NewSaved` creates a game, which has no
boards to publish yet. `EditFail` is a failure at any of these points; after
the commit the admin still reads "Could not update game." A client opens a
session by slug (`OpenSession`), keeps the token while games are renamed, and
submits under any slug: `SubmitRefused`, `SubmitChecked` (the row that was
looked up is kept), `SubmitInsert`, `SubmitBump`.

The form's columns are those some property tells apart: slug, the two bounds,
the declaration of custom fields, archived. Name, timezone, direction and the
policy's texts go the way of `archived`. A form is posted with at most one of its
fields changed, and one that was refused is opened anew before it is posted again.

`sanitize_submission` is the sequence of checks with the first refusal deciding;
`Rules` names the rules that `docs/api.md:65-88` and `docs/data_models.md:48-62` state,
`Breaks` says when a payload breaks one and `CodeOf` which code that
gives, written without looking at the order. `NotEnforced` are the three rules the code
leaves out, `OwnRule` the one that only the code has. A name
is a sequence of character classes (letter, combining mark, the character they
compose to, invisible, white space): all that NFC, stripping and trimming
distinguish. Names are of any length, payloads and schemas objects with any
entries: `Names`, `Payload`, `Schema` and `Submission` say what JSON and
pydantic let through, and `PayloadsAssumption` that the constants are taken
from them. `VerdictTable` and `NameTable` hold the judgements on all of the
constants' payloads, so that TLC works each out once.

### TimeRanges, Ranking, Boards

Instants and wall clocks are integers. A zone changes its offset once; a wall
clock carries `fold` as Python's datetime does: `timedelta` clears it and
`replace` keeps it, which is why `start_local` and `end_local` are written
operation by operation. Hours, days, weeks, months and years are constants, so
that TLC gets a calendar of a few ticks and the proofs get any.

`Ranking` holds the two query functions as operators on a table (a searched name
is the set of the players it matches; what `%` and `_` do in it is left to ILIKE): the page's
conditions, the count's (which the code writes down again), the order, the page,
the champions' CTE and its aggregation. `Place` and `PageIsRight` define what a
board is, by counting the rows ahead of a row and not by sorting. `OrderBy` is
`ORDER BY`: any sequence of the rows in which nobody stands behind a row that
comes after it.

`Boards` runs them as the code does: the bounds of the page, then the count with
bounds of its own, then the page; or three statements of the champions, each on
the table as committed when it starts, while scores are committed (with the start of their
transaction as date, `Begin`), deleted and restored, and the clock moves.
`reader.quiet` says that nothing happened between the statements of one result.

## 3. Properties and runs

| Run | Expect | What it shows |
|---|---|---|
| `CacheSafety` | pass | `Coherent`: a result reachable under the current version misses only changes that no bump has published. `TornResultsUnreachable`, `ReadsAreFresh`. `ImplementsFreshReads`: the cached path refines `FreshReads`. |
| `CacheHeals` | pass | `HealsWithinTTL` (liveness): after lost bumps and loss of the version key, what is reachable becomes current and stays so. |
| `CacheStaleSettings` | violation | `NoRaceWindow`: a result computed with the settings before an edit is stored under the version after it. |
| `SubmitSafety` | pass | `SingleUse`, `BoundToGame`, `TokenLifetime`, `LiveUntilUsed`, `AcceptedIsStored`, `NoEarlyBump`. |
| `SubmitReplay` | violation | `TokensAreSingleUse`: a restart from a snapshot makes a used token usable again. |
| `LoginRaces` | pass | `LockoutExact`: with no overlap the counter and the lock are as documented, and a success that saw its row makes them so again whatever raced before. `NoSpuriousLock`, `FailureKeepsLock` under any race. |
| `LoginLostFailure` | violation | `LockedAfterMaxFailures`: racing failures are counted once. |
| `ModerationSafety` | pass | `AuditExplainsRows`, `ClearCountsExactly`; `ImplementsPublishing`: moderation refines `Publishing`. |
| `EditSafety` | pass | `BoundsConsistent`, `PolicyDateAdvances`, `SavesWhatWasAsked` for edits that overlap; `TokenReachesItsGame` while games are renamed; `NamesIdentifyPlayers`, `VerdictsAreDocumented` for what clients send; `ImplementsPublishing` for every game. |
| `SubmissionDocs` | violation | `SomeStatementHolds`: seven statements of the docs about submissions as alternatives, so that a counterexample is one of each. After a rename a token is accepted under a slug it was not issued for; a stored name is not NFC, and differs from an equivalent one; a seed with a line feed, a Boolean for a number, and an absent required field are accepted; a small object with a long key is not. |
| `Boards` | pass | `PeriodsHold`: periods contain the present and tile. `PagesAreRight`, `TalliesAreRight`: undisturbed results are the board's. `DeletePromotes`, `WindowsSettle`. |
| `BoardsDST` | violation | `DstIsHandled`: when the first hour of a day is repeated, the daily board forgets that hour's first pass while the second lasts. The hourly board of such an hour has the same exception in `PeriodsHold`; this run does not show it. |

The passing safety runs also check, as `IInv`, the type invariant and the
inductive invariant that the proofs rest on. The violations are disagreements between the
code and its own documentation, comments or tests; `PROJECT.json` quotes them
under `findings`. Some provisos of passing properties have their unconditional twin among these runs:
`restarts = 0` in `SubmitReplay`, logins that do not overlap (`LockoutExact`) in
`LoginLostFailure`, ordinary periods in `BoardsDST`, the names and rules excepted by
`NamesIdentifyPlayers` and `VerdictsAreDocumented` in `SubmissionDocs`. The others have
none, because no document says anything of the case: edits that raced (`BoundsConsistent`,
`PolicyDateAdvances`), a form older than its row (`SavesWhatWasAsked`), a result whose statements
something came between (`PagesAreRight`, `TalliesAreRight`), an overtaken log entry
(`AuditExplainsRows`), a lock shortened by the time a failed login took
(`FailureKeepsLock`). There the property shows that nothing else goes wrong, and
the hazard says what does.

What the passing properties allow for is behaviour of the code that a reader of its documentation
may not expect:

* If Redis evicts the version key, the count starts again and results of the
  versions used before are reachable; they go with their TTL (`HealsWithinTTL`).
  `docs/api.md:213` and `cache.py:7-8` speak of instant invalidation.
* A submission the schema refuses does not use up its token, one that a sanity
  check refuses does (`docs/api.md:42`).
* A success that raced with the failure that set a lock leaves the lock
  (`docs/data_models.md:21`); the next success clears it.
* Of two failed logins that both set the lock, the earlier may commit last: the lock
  then ends earlier, by at most the time that login spent between reading the
  clock and committing (`FailureKeepsLock`).
* The newest entry of the log about a score may be the opposite of the row, when a delete
  and a restore overlapped. The next clear puts it right, and a next delete or restore
  that overlaps with none.
* NFC comes before the stripping of invisible characters. A letter and a mark that only
  such a character kept apart are stored side by side: the name is not in NFC and
  another than the composed one (`Rejoined`, `SubmissionDocs`). Every other name
  is stored in NFC and equivalent ones as one.
* Three documented rules are not enforced (`NotEnforced`, `SubmissionDocs`): a seed may end with a
  line feed, a Boolean passes for a number, and a submission
  without any `custom_data` is not held to required fields. A key of more than 64
  characters is refused, which no document says. A
  declaration of a custom field that is no object is accepted by the form and
  makes the checks raise.
* Two edits that overlap can leave bounds that contradict each other and move
  the policy's date back, and an edit reverts what another saved while its form
  was open; the next edit that races with none puts the bounds right.

### Bounds

* `CacheSafety`: 2 readers, 2 writers, 1 query, 2 changes, no loss of the
  version key (about 570,000 states). Two readers can fill under one version
  at once and one can hit what the other stored; two writers let a commit fall
  between another's commit and bump. One query suffices: entries of different
  queries never meet in a guard; several are covered by the proof. `CacheHeals`
  adds one loss of the version key. `CacheStaleSettings` uses 3 changes.
* `SubmitSafety`: 2 threads, 2 games, 1 nonce, TTL 2 of 4 seconds, 1 restart,
  1 eviction (about 810,000 states). One nonce is presented by both threads, for
  both games, before, at and after its expiry; the second nonce that the proofs
  allow only adds an independent copy. A nonce is drawn once at most: the code
  draws 128 random bits.
* `LoginRaces`: 3 threads, limit 3, lockout 2, 5 ticks, 5 failures (about
  3.2 million states): enough to lock, let the lock run out, and lock again with
  stale rows and late commits in flight. After `MaxFailures` wrong passwords only right ones are tried.
* `ModerationSafety`: 3 threads, 2 scores, 4 moderation requests (about 1.2 million
  states): a clear waiting for a clear while a third thread deletes or restores, and
  three requests for one row that overtake each other, with one more after them.
* `EditSafety`: 2 games, 2 slugs, 2 admins, 1 client, 3 posted forms, 1 score
  (about 420,000 states): create both games, rename one while an edit of the
  other is open and a token is out; or create one and let two edits overlap.
  Bounds are 1 and 3 with scores 0 to 4, so each bound is met and missed by one.
  Names are all sequences of up to three classes against a limit of two; payloads
  differ from a good one in one or two places, since each check reads one field.
  `SubmissionDocs` has one admin and 4 forms: two games, one renamed, one with custom fields.
* `Boards`: hours of 2 ticks, days of 3 hours, weeks of 2 days, years of months
  of 6 and 12 ticks; zones that skip an hour, repeat half of one, and repeat the
  first of a day, with both score directions; 4 instants on both sides of the changes; 2 rows of 3
  payloads, of which two differ in score on one seed, one has another seed, one lacks
  `played_at`, and any ties with itself sent twice; 2 submitters, whose
  commits can overtake each other; 4 page queries that between them use every sort, page
  2, and sizes that are clamped; 1 windowed tally (about 1.3 million states). Two
  rows decide every comparison; `PeriodsHold` asks about instants 0 to 24, past
  the end of the year.

`Regular`, the assumption on zones, says that no period begins inside the time a
change skips or repeats (it may begin with it). All changes in tzdata from 2024 on are regular but
those of Antarctica/Troll, of two hours, and of Pacific/Chatham, at a quarter to
the hour; what the code gives there is not claimed.

### Deadlock and fairness

In the cache module all threads may be idle with the change bound used up and
the game archived for good or nothing to do; stopping is legitimate, so those
runs do not check for deadlock. The others can always take another request and
do check for it.

Only `CacheHeals` needs fairness (`FairSpec`): weak fairness of each reader's
next step and each writer's bump or failure (a gunicorn thread that has begun
a request finishes or dies, and both outcomes are in the action) and of the
expiry of each entry (Redis expires every key that has a TTL). No client is
obliged to read or write, and nothing obliges Redis to lose anything. That
changes stop is due to the bound `MaxRev` and stands for a quiet period.
Nothing else the code promises is a liveness property: a handler has no loop, no
wait of its own and no retry, and row locks end with their transaction.

## 4. Proofs

Proved with TLAPS for all values of the constants that satisfy the named
assumptions of each module (`Queries`, `Games`, `Nonces` non-empty, `Scores`
finite, the numbers natural, TTL, lockout and limit positive, admins and clients
apart, payloads and schemas that can be sent and stored, rows that the columns
allow, a calendar in which weeks and years are whole days, regular zones). No assumption is
made on the number of threads, readers, writers or submitters. Every invariant and every action property
of the passing runs is proved.

* `LeaderboardCacheProofs`: `TypeCorrect`, `Invariance`, `CacheCoherent`,
  `TornUnreachable`, `AnswersFresh`, and `Refinement`: if the version key is
  never evicted (`MaxEvict = 0`), `Spec` implements `FreshReads`.
  `Coherent` is not inductive: a reader that has loaded but not stored may break
  it in its next step. `IInv` therefore says of loads in flight what it says of
  entries (`CoherentLoads`), that each revision has one author who bumps for it
  (`OneAuthor`, `AckedIsBumped`), that no version is used before INCR produced it
  (`VersionsPast`), and that everything under a version some reader has read,
  stored or in flight, shows what that reader is owed (`OwedEntries`,
  `OwedLoads`), also after the version has moved on. The step that matters is
  `Bump`: it makes all current entries unreachable, and the new version has
  none yet. The refinement maps a request in any middle stage to "waiting", and
  each step to a step of `FreshReads` or a stutter.
* `ScoreSubmissionProofs`: `TypeCorrect`, `Invariance`, `TokenBuysOneScore`,
  `ScoresBoundToGame`, `ConsumedInLifetime`, `AcceptedStored`,
  `RefusedForCause`, `BumpsFollowCommits`. The core of `IInv` is `KeyOf` (a nonce's key, now and in
  the snapshot, is absent or has the one expiry it was given, and is absent only
  with a cause), `Progress` (past each check its fact holds) and, until Redis
  restarts, `OneOwner` (a consumed nonce has no key and one owner: a thread that
  has yet to insert, or a row). `BumpsFollowCommits` has an invariant of its own,
  `Counts`: per game, the version and the threads that owe a bump are together
  at most the rows, and a snapshot's version is not ahead of the live one.
* `AdminLoginProofs`: `TypeCorrect`, `Invariance`, `LockoutIsExact`,
  `NoSpuriousLocks`, `FailuresKeepLock`. `IInv` extends the bound on the count
  to every row in flight, however old, and says that no lock ends later than one
  set now would and no failed login decided in the future; `FailuresKeepLock` follows from these. `LockoutExact` is inductive as it stands: a login that did not
  overlap changes the very row it read.
* `ModerationProofs`: `TypeCorrect`, `Invariance`, `AuditExplained`,
  `ClearsCounted`, `PublishesCommits`: `Spec` implements `Publishing`, and
  `CommitsAccounted`, what follows from it: the version, the bumps that were lost and those
  still owed add up to the commits (`Accounted`). In the order of
  the commits the last entry about a row always says what the row is (`RowsFollowCommits`). Ids
  are drawn once (`IdsAreUnique`). What a clear has updated stays visible to
  the others and belongs to it alone until it commits (`HeldByOne`), so its entry is the
  newest about its rows (`ClearsAreNewest`). A last commit that nobody
  overtook therefore has the highest id, and `AuditExplained` follows.
* `SanityProofs`, about operators, for every name, payload and schema:
  `StoredNames`, `EquivalentNames` and `VerdictsDocumented`. NFC, its inverse and
  the stripping are folds (`FoldLeft`). `FoldExists` shows, by induction on a set of
  sequences ordered by their prefixes, that the `CHOOSE` behind the fold has
  something to choose; from it come the two laws of each fold (`NFCLaws`,
  `StrippedLaws`, `DecomposedLaws`): the empty name, and one more character.
  `EquivalentNames` rests on `NFCOfDecomposed`, that composing a name and composing its
  decomposition give the same; `StoredNames` on `NFCJoins`, that a
  visible name is in NFC exactly when no mark follows a letter, and on `StripKeepsJoined`, that
  stripping puts a mark behind a letter only where nothing but invisible characters stood
  between them (`Rejoined`). For the verdicts
  the first refusal is one of the refusals (`FirstRefusalIs`), and each refusal
  is matched with the rule that it enforces.
* `GameEditingProofs`: `TypeCorrect`, `Invariance`, `BoundsStayConsistent`,
  `TokensReachTheirGame`, `NamesStandForPlayers`, `VerdictsAreAsDocumented`,
  `PolicyDatesAdvance`, `SavesAreAsked`, and
  `PublishesCommits`: seen from any one game, all admins and clients together implement `Publishing`, with `CommitsAccounted` again. `IInv`
  adds to the properties what requests hold on to: a form past its check passes
  it, its stamp is later than the date of the row it loaded, what it was shown is
  what the row then was (`AdminsHoldRows`), a score on
  its way is for the game of its token and has passed the check of its name
  (`ClientsHoldTokens`, then `NamesPassed`), and no date is
  later than the clock (`DatesPast`). An edit that did not race writes its whole
  form, because the row it merges into is the one it loaded.
* `RankingProofs`, about operators. For every calendar
  and every regular zone `PresentInPeriod`, `BoundsArePeriods` and
  `PeriodsDoTile`: one half is about the wall clock alone (`Period`:
  `start_local` and `end_local` enclose the reading and agree for all readings
  between), the other about what a change of offset does to the order of instants and
  readings; `Regular` is what lets the two meet. For every finite table
  `PageRowsAreRight`, `OneWinnerPerSeed` and `ChampionsAreRight`: an order that
  decides between any two elements of a finite set gives them the places 1 to n,
  each once, so `ORDER BY` has a result and it has the element of place `k` at
  position `k`; the orders of boards and champions decide, since ids and
  names break the last ties.
* `BoardsProofs`: `TypeCorrect`, `Invariance`, `PeriodsAreRight`,
  `PastWindowsSettle`, `PagesShowTheBoard`, `TalliesCountTheLeaders` and
  `RunnerUpIsPromoted`. A window's winners depend only on
  the rows dated in it; a score is dated by the start of its transaction, which is past when
  it commits (`TimesArePast`), so one that began after the window ended cannot
  fall in it. A page or tally takes several statements; `ReaderHolds`, the part of
  `IInv` that makes the last one's answer right, says that a reader whom nothing has
  disturbed holds the bounds, count and number of seeds of the present table. A page's rows
  are then the board's because its bounds are its period's (`BoundsArePeriods`).

The provers take no theorem with an operator for a parameter, so induction is
over sets here: of numbers (`Least`, `Induct`), of sequences (`SeqInduct`), and an
order is a set of pairs.

Only model-checked: `HealsWithinTTL`, since liveness under fairness is out of the
prover's reach.

## 5. Not modelled

* Daily seeds (`daily_seed.py`): a hash without state, for the dashboard's calendar. The code
  adds each character (`daily_seed.py:29`), where its docstring
  (`daily_seed.py:10`) and `README.md:177` have an exclusive or. One hash of one date settles
  which it is; a state machine around it would show no more.
* Device info: an overlay of dictionaries over a third-party parser's answer.
* Admin accounts: a check and an insert, which the unique constraint decides.
* The dashboard's choice of a game and its calendar, the API test page, the
  public pages: rendering of rows that other components keep. The dashboard's
  board itself is `ReadPage` in `Boards`.
* Schemas field by field, headers, configuration, rate limiting (a library's
  counters, without an effect on this state), migrations.
* A period that rolls over while its board is cached: the key has no period in
  it (`time_ranges.py:60`), so a hit shows the past period until the TTL. The
  cache model has no calendar and `Boards` no cache.

`PROJECT.json` lists each component with its status and each known hazard with
the property that covers it, or the reason that none does.

## 6. Plan

Done: the cache, submissions, logins and moderation; game editing with the
checks and names; period bounds, ranking and boards; the promise of the writers
(`Publishing`) and its two refinements; the proofs of all safety properties.

Left, in this order:

1. The writers of `LeaderboardCache` as `Publishing`, which would join the
   refinements of the writers with the one of the readers.
2. The period in the cache: queries of `LeaderboardCache` with a period that
   ends, and how long a hit may show the one before.

## 7. Running

In `tla/`: `tlc -config CacheSafety.cfg MCLeaderboardCache.tla` (the other runs
alike; `PROJECT.json` pairs configurations and modules; the longest takes two
minutes) and `tlapm LeaderboardCacheProofs.tla` for the proofs.
