------------------------------ MODULE GameEditing ------------------------------
(***************************************************************************)
(* The rows of the games table: created and edited by admins               *)
(* (app/admin/games.py, app/admin/forms.py, app/models/game.py), looked up *)
(* by slug when a client asks for a token and when it submits a score      *)
(* (app/api/sessions.py, app/api/scores.py).                               *)
(*                                                                         *)
(* An edit is two requests: the GET fills the form, the POST writes what   *)
(* the form says.  The POST loads the row, compares, and at the commit     *)
(* writes only the columns that differ from the row it loaded.  A          *)
(* submission keeps the row it looked up until its own commit.             *)
(***************************************************************************)
EXTENDS Sanity

CONSTANTS
  Games,        \* ids of games
  Slugs,        \* slugs the form accepts
  Admins,       \* admins, each with one form open at a time
  Clients,      \* clients, each with one token at a time
  Bounds,       \* numbers to be had as min_score and max_score
  Schemas,      \* values of metadata.custom_fields
  NewForms,     \* forms that are posted to create a game
  Submissions,  \* payloads that clients send, with the times they are checked against
  Inputs,       \* payloads that the checks are asked about in every state
  MaxPosts,     \* bound: number of forms posted
  MaxScores     \* bound: number of scores after which none are submitted

ASSUME GamesAssumption == Admins \cap Clients = {} /\ Bounds \subseteq Nat
ASSUME PayloadsAssumption == Schemas \subseteq Schema /\ Submissions \cup Inputs \subseteq Submission
ASSUME BoundsAssumption == MaxPosts \in Nat /\ MaxScores \in Nat

VARIABLES
  games,    \* database: the rows of games, by id
  audit,    \* database: admin_actions, in the order of their commits
  scores,   \* database: the rows of scores, with the slug and token they came by
  version,  \* Redis: version[g], how often g's version key was bumped
  clock,    \* datetime.now(), one tick per form posted
  admin,    \* admin[a]: where a is, and what its requests hold on to
  client,   \* client[c]: likewise, with the token it has, if any
  lost,     \* history: lost[g], how many bumps failed
  raced     \* history: raced[g], the last edit committed over a row it had not seen

vars == <<games, audit, scores, version, clock, admin, client, lost, raced>>

Optional(S) == {{}} \cup {{x} : x \in S}

(* The columns the form has.  Those no property tells apart from archived    *)
(* (name, timezone, score_direction, the policy's texts) are left out.       *)
Settings == [slug : Slugs, min : Optional(Bounds), max : Optional(Bounds),
             fields : Schemas, archived : BOOLEAN]
Row == [settings : Settings, privacy_updated_at : Nat]
ASSUME FormsAssumption == NewForms \subseteq Settings

Token == [game : Games, slug : Slugs]
Score == [game : Games, slug : Slugs, token : Token, sub : Submissions]
Entry == [action : {"game.create", "game.update"}, game : Games]

(* shown: the settings the GET put into the form; base: those of the row it  *)
(* read, kept for the properties; asked: those that come back; seen: the row *)
(* the POST loaded; stamp: the time it read.                                 *)
Answers == {"ready", "done", "refused", "failed"}
AdminState ==
  [at : Answers]
  \cup [at : {"form"}, game : Games, base : Settings, shown : Settings]
  \cup [at : {"save"}, game : Games, base : Settings, shown : Settings, asked : Settings,
        seen : Row, stamp : Nat]
  \cup [at : {"bump", "flash"}, game : Games]
ClientState ==
  [at : Answers, token : SUBSET Token]
  \cup [at : {"insert"}, row : Row, score : Score]
  \cup [at : {"bump"}, game : Games]

Init ==
  /\ games = [g \in {} |-> {}]
  /\ audit = <<>>
  /\ scores = <<>>
  /\ version = [g \in Games |-> 0]
  /\ clock = 0
  /\ admin = [a \in Admins |-> [at |-> "ready"]]
  /\ client = [c \in Clients |-> [at |-> "ready", token |-> {}]]
  /\ lost = [g \in Games |-> 0]
  /\ raced = [g \in Games |-> FALSE]

AdminGoes(a, state) == admin' = [admin EXCEPT ![a] = state]
ClientGoes(c, state) == client' = [client EXCEPT ![c] = state]
SetRow(g, row) ==
  games' = [x \in DOMAIN games \cup {g} |-> IF x = g THEN row ELSE games[x]]
Log(action, g) == audit' = Append(audit, [action |-> action, game |-> g])

-------------------------------------------------------------------------------
(* Fault: the form's bounds are not compared. *)
bounds_ok_Any(form) == TRUE

bounds_ok(form) == \A lo \in form.min, hi \in form.max : lo <= hi

(* Fault: slug has no unique index. *)
Taken_Never(slug, g) == FALSE

(* The unique index on slug. *)
Taken(slug, g) == \E h \in DOMAIN games \ {g} : games[h].settings.slug = slug

(* games_new: bounds that contradict each other or a slug in use ...         *)
NewRefused(a, g, form) ==
  /\ admin[a].at \in Answers
  /\ g \notin DOMAIN games
  /\ ~bounds_ok(form) \/ Taken(form.slug, g)
  /\ AdminGoes(a, [at |-> "refused"])
  /\ UNCHANGED <<games, audit, scores, version, clock, client, lost, raced>>

(* ... or the row and its audit entry in one transaction, with no policy     *)
(* date.  What is left to do reads the row again to say so.                  *)
NewSaved(a, g, form) ==
  /\ admin[a].at \in Answers
  /\ clock < MaxPosts
  /\ g \notin DOMAIN games
  /\ bounds_ok(form) /\ ~Taken(form.slug, g)
  /\ SetRow(g, [settings |-> form, privacy_updated_at |-> 0])
  /\ Log("game.create", g)
  /\ clock' = clock + 1
  /\ AdminGoes(a, [at |-> "flash", game |-> g])
  /\ UNCHANGED <<scores, version, client, lost, raced>>

(* Fault: the form is not told that the game is archived. *)
EditForm_Unarchived(a, g) ==
  /\ admin[a].at \in Answers \cup {"form"}
  /\ AdminGoes(a, [at |-> "form", game |-> g, base |-> games[g].settings,
                   shown |-> [games[g].settings EXCEPT !.archived = FALSE]])
  /\ UNCHANGED <<games, audit, scores, version, clock, client, lost, raced>>

(* games_edit, GET; a form that was open is left. *)
EditForm(a, g) ==
  /\ admin[a].at \in Answers \cup {"form"}
  /\ AdminGoes(a, [at |-> "form", game |-> g, base |-> games[g].settings,
                   shown |-> games[g].settings])
  /\ UNCHANGED <<games, audit, scores, version, clock, client, lost, raced>>

(* What an admin makes of a form: one field is changed, or none. *)
Changed(form) ==
  {[form EXCEPT !.slug = x] : x \in Slugs}
  \cup {[form EXCEPT !.min = x] : x \in Optional(Bounds)}
  \cup {[form EXCEPT !.max = x] : x \in Optional(Bounds)}
  \cup {[form EXCEPT !.fields = x] : x \in Schemas}
  \cup {[form EXCEPT !.archived = x] : x \in BOOLEAN}

(* games_edit, POST, up to the commit: the row is loaded, the form checked. *)
EditRefused(a, asked) ==
  /\ ~bounds_ok(asked)
  /\ AdminGoes(a, [at |-> "refused"])
  /\ UNCHANGED <<games, audit, scores, version, clock, client, lost, raced>>

EditLoad(a, asked) ==
  /\ bounds_ok(asked)
  /\ clock < MaxPosts
  /\ clock' = clock + 1
  /\ AdminGoes(a, [at |-> "save", game |-> admin[a].game, base |-> admin[a].base,
                   shown |-> admin[a].shown, asked |-> asked, seen |-> games[admin[a].game],
                   stamp |-> clock + 1])
  /\ UNCHANGED <<games, audit, scores, version, client, lost, raced>>

EditPost(a) ==
  /\ admin[a].at = "form"
  /\ \E asked \in Changed(admin[a].shown) : EditRefused(a, asked) \/ EditLoad(a, asked)

(* The ORM writes a column when its value differs from the loaded one. *)
Written(asked, seen, old) == IF asked # seen THEN asked ELSE old

(* Fault: the policy date stays what it was. *)
Saved_NoStamp(post, old) ==
  [settings |-> post.asked, privacy_updated_at |-> old.privacy_updated_at]

Saved(post, old) ==
  [settings |->
     [slug     |-> Written(post.asked.slug, post.seen.settings.slug, old.settings.slug),
      min      |-> Written(post.asked.min, post.seen.settings.min, old.settings.min),
      max      |-> Written(post.asked.max, post.seen.settings.max, old.settings.max),
      fields   |-> Written(post.asked.fields, post.seen.settings.fields, old.settings.fields),
      archived |-> Written(post.asked.archived, post.seen.settings.archived,
                           old.settings.archived)],
   privacy_updated_at |-> post.stamp]

(* The commit of an edit: a slug in use rolls it back, and "Could not update *)
(* game."; otherwise the row and its audit entry.                            *)
EditConflict(a) ==
  /\ admin[a].at = "save"
  /\ LET g == admin[a].game IN Taken(Saved(admin[a], games[g]).settings.slug, g)
  /\ AdminGoes(a, [at |-> "refused"])
  /\ UNCHANGED <<games, audit, scores, version, clock, client, lost, raced>>

EditSave(a) ==
  LET g == admin[a].game
      row == Saved(admin[a], games[g]) IN
  /\ admin[a].at = "save"
  /\ ~Taken(row.settings.slug, g)
  /\ SetRow(g, row)
  /\ Log("game.update", g)
  /\ raced' = [raced EXCEPT ![g] = admin[a].seen # games[g]]
  /\ AdminGoes(a, [at |-> "bump", game |-> g])
  /\ UNCHANGED <<scores, version, clock, client, lost>>

(* Fault: the answer without the bump. *)
EditBump_Forgotten(a) ==
  /\ admin[a].at = "bump"
  /\ AdminGoes(a, [at |-> "done"])
  /\ UNCHANGED <<games, audit, scores, version, clock, client, lost, raced>>

EditBump(a) ==
  /\ admin[a].at = "bump"
  /\ version' = [version EXCEPT ![admin[a].game] = @ + 1]
  /\ AdminGoes(a, [at |-> "done"])
  /\ UNCHANGED <<games, audit, scores, clock, client, lost, raced>>

NewFlash(a) ==
  /\ admin[a].at = "flash"
  /\ AdminGoes(a, [at |-> "done"])
  /\ UNCHANGED <<games, audit, scores, version, clock, client, lost, raced>>

(* Postgres or Redis fails, or the worker.  Before the commit nothing is     *)
(* saved; after it the answer is the same, "Could not update game." or       *)
(* "Could not create game (slug already in use?)", and everything is.        *)
EditFail(a) ==
  /\ admin[a].at \in {"save", "bump", "flash"}
  /\ lost' = IF admin[a].at = "bump" THEN [lost EXCEPT ![admin[a].game] = @ + 1] ELSE lost
  /\ AdminGoes(a, [at |-> "failed"])
  /\ UNCHANGED <<games, audit, scores, version, clock, client, raced>>

-------------------------------------------------------------------------------
(* The public lookup, by slug, of create_session and submit_score. *)
Found(slug) ==
  {g \in DOMAIN games : games[g].settings.slug = slug /\ ~games[g].settings.archived}

OpenSession(c, slug) ==
  /\ client[c].at \in Answers
  /\ \E g \in Found(slug) :
       ClientGoes(c, [at |-> "done", token |-> {[game |-> g, slug |-> slug]}])
  /\ UNCHANGED <<games, audit, scores, version, clock, admin, lost, raced>>

(* Fault: the token is compared by the slug it was issued for. *)
Genuine_BySlug(token, g, slug) == token.slug = slug

(* verify_and_consume: the token holds the game's id. *)
Genuine(token, g, slug) == token.game = g

(* 404, or 401, and the token is still good; or a check refuses the score    *)
(* and the token is used up.                                                 *)
SubmitRefused(c, slug, sub) ==
  /\ client[c].at \in Answers
  /\ \E token \in client[c].token :
       LET match == {g \in Found(slug) : Genuine(token, g, slug)} IN
       /\ \A g \in match : sanitize_submission(games[g].settings, sub) # "ok"
       /\ ClientGoes(c, [at |-> "refused", token |-> IF match = {} THEN {token} ELSE {}])
  /\ UNCHANGED <<games, audit, scores, version, clock, admin, lost, raced>>

(* All checks pass against the row that was looked up. *)
SubmitChecked(c, slug, sub) ==
  /\ client[c].at \in Answers
  /\ Len(scores) < MaxScores
  /\ \E token \in client[c].token, g \in Found(slug) :
       /\ Genuine(token, g, slug)
       /\ sanitize_submission(games[g].settings, sub) = "ok"
       /\ ClientGoes(c, [at |-> "insert", row |-> games[g],
                         score |-> [game |-> g, slug |-> slug, token |-> token, sub |-> sub]])
  /\ UNCHANGED <<games, audit, scores, version, clock, admin, lost, raced>>

(* The commit of the score, whatever became of the game meanwhile. *)
SubmitInsert(c) ==
  /\ client[c].at = "insert"
  /\ scores' = Append(scores, client[c].score)
  /\ ClientGoes(c, [at |-> "bump", game |-> client[c].score.game])
  /\ UNCHANGED <<games, audit, version, clock, admin, lost, raced>>

SubmitBump(c) ==
  /\ client[c].at = "bump"
  /\ version' = [version EXCEPT ![client[c].game] = @ + 1]
  /\ ClientGoes(c, [at |-> "done", token |-> {}])
  /\ UNCHANGED <<games, audit, scores, clock, admin, lost, raced>>

SubmitFail(c) ==
  /\ client[c].at \in {"insert", "bump"}
  /\ lost' = IF client[c].at = "bump" THEN [lost EXCEPT ![client[c].game] = @ + 1] ELSE lost
  /\ ClientGoes(c, [at |-> "failed", token |-> {}])
  /\ UNCHANGED <<games, audit, scores, version, clock, admin, raced>>

-------------------------------------------------------------------------------
games_new(a) ==
  \/ \E g \in Games, form \in NewForms : NewRefused(a, g, form) \/ NewSaved(a, g, form)
  \/ NewFlash(a)
games_edit(a) ==
  \/ \E g \in DOMAIN games : EditForm(a, g)
  \/ EditPost(a)
  \/ EditConflict(a)
  \/ EditSave(a)
  \/ EditBump(a)
Submit(c) ==
  \/ \E slug \in Slugs :
       \/ OpenSession(c, slug)
       \/ \E sub \in Submissions : SubmitRefused(c, slug, sub) \/ SubmitChecked(c, slug, sub)
  \/ SubmitInsert(c)
  \/ SubmitBump(c)

Next ==
  \/ \E a \in Admins : games_new(a) \/ games_edit(a) \/ EditFail(a)
  \/ \E c \in Clients : Submit(c) \/ SubmitFail(c)

Spec == Init /\ [][Next]_vars

-------------------------------------------------------------------------------
(* Properties. *)

(* Type invariant of the module. *)
TypeOK ==
  /\ DOMAIN games \subseteq Games
  /\ games \in [DOMAIN games -> Row]
  /\ audit \in Seq(Entry)
  /\ scores \in Seq(Score)
  /\ version \in [Games -> Nat]
  /\ clock \in Nat
  /\ admin \in [Admins -> AdminState]
  /\ client \in [Clients -> ClientState]
  /\ lost \in [Games -> Nat]
  /\ raced \in [Games -> BOOLEAN]

(* models/game.py:75 "cross-field consistency is enforced in service code":  *)
(* min_score <= max_score in every row whose last edit saw the row it wrote  *)
(* to.  Two edits that overlap, each with a form that passes, can leave      *)
(* bounds that contradict each other; the next edit that races with none     *)
(* puts that right.                                                          *)
BoundsConsistent ==
  \A g \in DOMAIN games : ~raced[g] =>
    \A lo \in games[g].settings.min, hi \in games[g].settings.max : lo <= hi

(* games.py:132 "Stamp the policy's last updated date whenever a game is     *)
(* edited": every edit that saw the row it wrote to moves the date forward,  *)
(* and only edits that overlap can move it back.                             *)
PolicyDateAdvances ==
  [][\A a \in Admins : admin[a].at = "save" /\ admin'[a].at = "bump" =>
       LET g == admin[a].game IN
       raced'[g] \/ games'[g].privacy_updated_at > games[g].privacy_updated_at]_vars

(* An edit changes what the admin changed in the form.  A field left alone   *)
(* changes only when another edit came between the form and its save, which  *)
(* the form then reverts.                                                    *)
SavesWhatWasAsked ==
  [][\A a \in Admins : admin[a].at = "save" /\ admin'[a].at = "bump" =>
       LET old == games[admin[a].game].settings
           new == games'[admin[a].game].settings
       IN old = admin[a].base => \A column \in DOMAIN old :
            new[column] # old[column] => admin[a].asked[column] # admin[a].shown[column]]_vars

(* Every score is stored for the game its token was issued for, although     *)
(* games are renamed and slugs change hands between token and score.         *)
TokenReachesItsGame == \A i \in DOMAIN scores : scores[i].game = scores[i].token.game

(* data_models.md:74, name_normalize.py:4 "canonically-equivalent codepoints *)
(* compare equal": the name of a stored score is clean, and any payload whose *)
(* name is canonically equivalent to what the client sent gets the same one. *)
NameTable ==
  [sent \in Submissions |->
     LET raw == sent.player_name
         name == normalize_player_name(raw) IN
     /\ CleanName(name)
     /\ NormalName(raw, name)
     /\ \A sub \in Inputs : Decomposed(sub.player_name) = Decomposed(raw) =>
          normalize_player_name(sub.player_name) = name]
NamesIdentifyPlayers == \A i \in DOMAIN scores : NameTable[scores[i].sub]

(* The checks, asked about any payload under the settings of any game that   *)
(* can come about, give the verdict that docs/api.md and docs/data_models.md *)
(* document, but for the three rules that Sanity names as not enforced and   *)
(* the code's own one about long keys.                                       *)
VerdictTable ==
  [min \in Optional(Bounds) |-> [max \in Optional(Bounds) |-> [fields \in Schemas |->
     \A sub \in Inputs :
       VerdictIsDocumented([min |-> min, max |-> max, fields |-> fields], sub)]]]
VerdictsAreDocumented ==
  \A g \in DOMAIN games :
    VerdictTable[games[g].settings.min][games[g].settings.max][games[g].settings.fields]

(* Seven statements of the docs about what is stored and what is accepted.   *)

(* README.md:175 "Tokens are bound to a specific game (by slug)",            *)
(* docs/api.md:67 "Must match the slug the token was issued for".            *)
TokenBoundToSlug == \A i \in DOMAIN scores : scores[i].slug = scores[i].token.slug

(* data_models.md:74 "Normalized: NFC + control/bidi/zero-width stripped".   *)
NamesAreNFC ==
  \A i \in DOMAIN scores :
    LET name == normalize_player_name(scores[i].sub.player_name) IN NFC(name) = name

(* name_normalize.py:4 "canonically-equivalent codepoints compare equal": a  *)
(* stored name and what would be stored of another are equal if equivalent.  *)
EquivalentNamesAreEqual ==
  \A i \in DOMAIN scores, sub \in Inputs :
    LET name == normalize_player_name(scores[i].sub.player_name)
        other == normalize_player_name(sub.player_name)
    IN Decomposed(other) = Decomposed(name) => other = name

(* No payload that breaks the rule is accepted: "newline" (data_models.md:78 *)
(* "[A-Za-z0-9_-]{1,64}"), "boolean" (data_models.md:62 "number (int or      *)
(* float)") and "absent" (data_models.md:57 "required": true, api.md:72).    *)
Enforced(rule) ==
  \A g \in DOMAIN games, sub \in Inputs :
    sanitize_submission(games[g].settings, sub) = "ok" => ~Breaks(rule, games[g].settings, sub)

(* data_models.md:62 "If you omit custom_fields entirely, the API accepts    *)
(* any small JSON object (<=32 keys, <=256 chars per string value)".         *)
SmallObjectsAreAccepted ==
  \A g \in DOMAIN games : games[g].settings.fields = <<>> =>
    \A sub \in Inputs : (\A rule \in Rules : ~Breaks(rule, games[g].settings, sub)) =>
      sanitize_submission(games[g].settings, sub) = "ok"

(* The seven as alternatives: this fails only in a state where each of them  *)
(* does, so that one counterexample answers for all seven.                   *)
SomeStatementHolds ==
  \/ TokenBoundToSlug
  \/ NamesAreNFC
  \/ EquivalentNamesAreEqual
  \/ \E rule \in NotEnforced : Enforced(rule)
  \/ SmallObjectsAreAccepted

(* Every admin and client that changes the boards of game g publishes it.    *)
P(g) == INSTANCE Publishing WITH
  Writers <- Admins \cup Clients,
  committed <- Cardinality({i \in DOMAIN audit : audit[i] = [action |-> "game.update", game |-> g]})
               + Cardinality({i \in DOMAIN scores : scores[i].game = g}),
  owing <- {a \in Admins : admin[a] = [at |-> "bump", game |-> g]}
           \cup {c \in Clients : client[c] = [at |-> "bump", game |-> g]},
  version <- version[g],
  lost <- lost[g]
ImplementsPublishing ==
  (\A g \in Games : P(g)!Init) /\ [][\A g \in Games : [P(g)!Next]_(P(g)!vars)]_vars

-------------------------------------------------------------------------------
(* The inductive invariant behind BoundsConsistent, PolicyDateAdvances,      *)
(* SavesWhatWasAsked, TokenReachesItsGame and NamesIdentifyPlayers: what     *)
(* requests hold on to was checked, or shown, when they took it, and no time *)
(* they hold or wrote is later than the clock.                               *)
UniqueSlugs ==
  \A g, h \in DOMAIN games : games[g].settings.slug = games[h].settings.slug => g = h

AdminsHoldRows ==
  \A a \in Admins :
    /\ admin[a].at \in {"form", "save", "bump", "flash"} => admin[a].game \in DOMAIN games
    /\ admin[a].at \in {"form", "save"} => admin[a].shown = admin[a].base
    /\ admin[a].at = "save" =>
         /\ bounds_ok(admin[a].asked)
         /\ admin[a].stamp <= clock
         /\ admin[a].seen.privacy_updated_at < admin[a].stamp

ClientsHoldTokens ==
  \A c \in Clients : client[c].at = "insert" =>
    /\ client[c].score.game = client[c].score.token.game
    /\ ~InvalidPlayerName(client[c].score.sub.player_name)

NamesPassed == \A i \in DOMAIN scores : ~InvalidPlayerName(scores[i].sub.player_name)

DatesPast == \A g \in DOMAIN games : games[g].privacy_updated_at <= clock

IInv ==
  /\ TypeOK
  /\ UniqueSlugs
  /\ BoundsConsistent
  /\ AdminsHoldRows
  /\ ClientsHoldTokens
  /\ TokenReachesItsGame
  /\ NamesPassed
  /\ DatesPast
===============================================================================
