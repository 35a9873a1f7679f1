-------------------------- MODULE GameEditingProofs --------------------------
(***************************************************************************)
(* Proofs about GameEditing, for any games, slugs, settings and payloads,  *)
(* any number of admins and clients, and any bound.                        *)
(***************************************************************************)
EXTENDS GameEditing, SanityProofs

USE GamesAssumption, BoundsAssumption, FormsAssumption

FormState == [at : {"form"}, game : Games, base : Settings, shown : Settings]
SaveState == [at : {"save"}, game : Games, base : Settings, shown : Settings,
              asked : Settings, seen : Row, stamp : Nat]
LeaveState == [at : {"bump", "flash"}, game : Games]
InsertState == [at : {"insert"}, row : Row, score : Score]

(* Where an admin is tells which record its state is. *)
LEMMA AdminAt ==
  ASSUME TypeOK, NEW a \in Admins
  PROVE  /\ admin[a].at = "form" => admin[a] \in FormState
         /\ admin[a].at = "save" => admin[a] \in SaveState
         /\ admin[a].at \in {"bump", "flash"} => admin[a] \in LeaveState
<1>1. admin[a] \in AdminState
  BY DEF TypeOK
<1>2. QED BY <1>1 DEF AdminState, FormState, SaveState, LeaveState, Answers

LEMMA ClientAt ==
  ASSUME TypeOK, NEW c \in Clients
  PROVE  /\ client[c].at = "insert" => client[c] \in InsertState
         /\ client[c].at = "bump" => client[c] \in [at : {"bump"}, game : Games]
         /\ client[c].at \in Answers => client[c] \in [at : Answers, token : SUBSET Token]
<1>1. client[c] \in ClientState
  BY DEF TypeOK
<1>2. QED BY <1>1 DEF ClientState, InsertState, Answers

LEMMA AdminMoves ==
  ASSUME TypeOK, NEW a \in Admins, NEW state \in AdminState, AdminGoes(a, state)
  PROVE  /\ admin' \in [Admins -> AdminState]
         /\ admin'[a] = state
         /\ \A x \in Admins \ {a} : admin'[x] = admin[x]
BY DEF TypeOK, AdminGoes

LEMMA ClientMoves ==
  ASSUME TypeOK, NEW c \in Clients, NEW state \in ClientState, ClientGoes(c, state)
  PROVE  /\ client' \in [Clients -> ClientState]
         /\ client'[c] = state
         /\ \A x \in Clients \ {c} : client'[x] = client[x]
BY DEF TypeOK, ClientGoes

LEMMA RowIsSet ==
  ASSUME TypeOK, NEW g \in Games, NEW row \in Row, SetRow(g, row)
  PROVE  /\ DOMAIN games' = DOMAIN games \cup {g}
         /\ DOMAIN games' \subseteq Games
         /\ games' \in [DOMAIN games' -> Row]
         /\ games'[g] = row
         /\ \A x \in DOMAIN games \ {g} : games'[x] = games[x]
BY DEF TypeOK, SetRow

LEMMA EntryIsLogged ==
  ASSUME TypeOK, NEW g \in Games, NEW action \in {"game.create", "game.update"}, Log(action, g)
  PROVE  audit' \in Seq(Entry)
<1>1. [action |-> action, game |-> g] \in Entry
  BY DEF Entry
<1>2. QED BY <1>1 DEF TypeOK, Log

(* What a save writes is a row again. *)
LEMMA SavedIsRow ==
  ASSUME NEW post \in SaveState, NEW old \in Row
  PROVE  /\ Saved(post, old) \in Row
         /\ Saved(post, old).privacy_updated_at = post.stamp
         /\ old = post.seen => Saved(post, old).settings = post.asked
BY DEF Saved, Written, SaveState, Row, Settings

LEMMA TypeInit == Init => TypeOK
<1> SUFFICES ASSUME Init PROVE TypeOK
  OBVIOUS
<1>1. admin \in [Admins -> AdminState] /\ client \in [Clients -> ClientState]
  BY DEF Init, AdminState, ClientState, Answers
<1>2. raced \in [Games -> BOOLEAN]
  BY DEF Init
<1>3. DOMAIN games = {} /\ games \in [DOMAIN games -> Row]
  BY DEF Init
<1>4. QED BY <1>1, <1>2, <1>3 DEF Init, TypeOK

(* The steps that leave the tables alone: requests on their way, and answers. *)
Passing(a) ==
  \/ \E g \in Games, form \in NewForms : NewRefused(a, g, form)
  \/ NewFlash(a)
  \/ \E g \in DOMAIN games : EditForm(a, g)
  \/ \E asked \in Changed(admin[a].shown) : admin[a].at = "form" /\ EditRefused(a, asked)
  \/ EditConflict(a)

LEMMA TypeStepAdmin ==
  ASSUME TypeOK, AdminsHoldRows, NEW a \in Admins,
         games_new(a) \/ games_edit(a) \/ EditFail(a)
  PROVE  TypeOK'
<1>1. CASE Passing(a)
  <2>1. \E state \in AdminState : AdminGoes(a, state)
    <3>1. CASE \E g \in DOMAIN games : EditForm(a, g)
      <4>1. PICK g \in DOMAIN games : EditForm(a, g)
        BY <3>1
      <4>2. games[g].settings \in Settings /\ g \in Games
        BY DEF TypeOK, Row
      <4>3. [at |-> "form", game |-> g, base |-> games[g].settings,
             shown |-> games[g].settings] \in AdminState
        BY <4>2 DEF AdminState
      <4>4. QED BY <4>1, <4>3 DEF EditForm
    <3>2. CASE ~\E g \in DOMAIN games : EditForm(a, g)
      <4>1. [at |-> "refused"] \in AdminState /\ [at |-> "done"] \in AdminState
        BY DEF AdminState, Answers
      <4>2. QED BY <1>1, <3>2, <4>1 DEF Passing, NewRefused, NewFlash, EditRefused, EditConflict
    <3>3. QED BY <3>1, <3>2
  <2>2. admin' \in [Admins -> AdminState]
    BY <2>1, AdminMoves
  <2>3. UNCHANGED <<games, audit, scores, version, clock, client, lost, raced>>
    BY <1>1 DEF Passing, NewRefused, NewFlash, EditForm, EditRefused, EditConflict
  <2>4. QED BY <2>2, <2>3 DEF TypeOK
<1>2. ASSUME NEW g \in Games, NEW form \in NewForms, NewSaved(a, g, form) PROVE TypeOK'
  <2>1. [settings |-> form, privacy_updated_at |-> 0] \in Row
    BY DEF Row
  <2>2. [at |-> "flash", game |-> g] \in AdminState
    BY DEF AdminState
  <2>3. /\ SetRow(g, [settings |-> form, privacy_updated_at |-> 0])
        /\ Log("game.create", g)
        /\ AdminGoes(a, [at |-> "flash", game |-> g])
        /\ clock' = clock + 1
        /\ UNCHANGED <<scores, version, client, lost, raced>>
    BY <1>2 DEF NewSaved
  <2>4. audit' \in Seq(Entry)
    BY <2>3, EntryIsLogged
  <2>5. DOMAIN games' \subseteq Games /\ games' \in [DOMAIN games' -> Row]
    BY <2>1, <2>3, RowIsSet
  <2>6. admin' \in [Admins -> AdminState]
    BY <2>2, <2>3, AdminMoves
  <2>7. QED BY <2>3, <2>4, <2>5, <2>6 DEF TypeOK
<1>3. ASSUME admin[a].at = "form", NEW asked \in Changed(admin[a].shown), EditLoad(a, asked)
      PROVE  TypeOK'
  <2>0. admin[a].game \in DOMAIN games
    BY <1>3 DEF AdminsHoldRows
  <2>1. admin[a] \in FormState
    BY <1>3, AdminAt
  <2>2. asked \in Settings /\ games[admin[a].game] \in Row /\ clock + 1 \in Nat
    <3>1. asked \in Settings
      BY <2>1 DEF Changed, FormState, Settings
    <3>2. games[admin[a].game] \in Row /\ clock + 1 \in Nat
      BY <2>0 DEF TypeOK
    <3>3. QED BY <3>1, <3>2
  <2>3. [at |-> "save", game |-> admin[a].game, base |-> admin[a].base,
         shown |-> admin[a].shown, asked |-> asked, seen |-> games[admin[a].game],
         stamp |-> clock + 1] \in AdminState
    BY <2>1, <2>2 DEF AdminState, FormState
  <2>4. QED BY <1>3, <2>2, <2>3, AdminMoves DEF EditLoad, TypeOK
<1>4. CASE EditSave(a)
  <2> DEFINE g == admin[a].game
  <2>1. admin[a] \in SaveState /\ g \in Games /\ games[g] \in Row
    BY <1>4, AdminAt DEF EditSave, SaveState, TypeOK, AdminsHoldRows
  <2>2. Saved(admin[a], games[g]) \in Row
    BY <2>1, SavedIsRow
  <2>3. [at |-> "bump", game |-> g] \in AdminState
    BY <2>1 DEF AdminState
  <2>4. raced' \in [Games -> BOOLEAN]
    BY <1>4 DEF EditSave, TypeOK
  <2>5. /\ SetRow(g, Saved(admin[a], games[g]))
        /\ Log("game.update", g)
        /\ AdminGoes(a, [at |-> "bump", game |-> g])
        /\ UNCHANGED <<scores, version, clock, client, lost>>
    BY <1>4 DEF EditSave
  <2>6. audit' \in Seq(Entry)
    BY <2>1, <2>5, EntryIsLogged
  <2>7. QED BY <2>1, <2>2, <2>3, <2>4, <2>5, <2>6, RowIsSet, AdminMoves DEF TypeOK
<1>5. CASE EditBump(a) \/ EditFail(a)
  <2>1. [at |-> "done"] \in AdminState /\ [at |-> "failed"] \in AdminState
    BY DEF AdminState, Answers
  <2>2. version' \in [Games -> Nat] /\ lost' \in [Games -> Nat]
    BY <1>5 DEF EditBump, EditFail, TypeOK
  <2>3. QED BY <1>5, <2>1, <2>2, AdminMoves DEF EditBump, EditFail, TypeOK
<1>6. QED
  BY <1>1, <1>2, <1>3, <1>4, <1>5 DEF games_new, games_edit, EditPost, Passing

LEMMA TypeStepClient ==
  ASSUME TypeOK, NEW c \in Clients, Submit(c) \/ SubmitFail(c)
  PROVE  TypeOK'
<1>1. ASSUME NEW slug \in Slugs, OpenSession(c, slug) PROVE TypeOK'
  <2>1. PICK g \in Found(slug) :
          ClientGoes(c, [at |-> "done", token |-> {[game |-> g, slug |-> slug]}])
    BY <1>1 DEF OpenSession
  <2>2. g \in Games
    BY DEF Found, TypeOK
  <2>3. [at |-> "done", token |-> {[game |-> g, slug |-> slug]}] \in ClientState
    BY <2>2 DEF ClientState, Answers, Token
  <2>4. QED BY <1>1, <2>1, <2>3, ClientMoves DEF OpenSession, TypeOK
<1>2. ASSUME NEW slug \in Slugs, NEW sub \in Submissions, SubmitRefused(c, slug, sub)
      PROVE  TypeOK'
  <2>1. PICK token \in client[c].token : \E tokens \in {{}, {token}} :
          ClientGoes(c, [at |-> "refused", token |-> tokens])
    BY <1>2 DEF SubmitRefused
  <2>2. token \in Token
    BY <1>2, ClientAt DEF SubmitRefused
  <2>3. \A tokens \in {{}, {token}} : [at |-> "refused", token |-> tokens] \in ClientState
    BY <2>2 DEF ClientState, Answers
  <2>4. QED BY <1>2, <2>1, <2>3, ClientMoves DEF SubmitRefused, TypeOK
<1>3. ASSUME NEW slug \in Slugs, NEW sub \in Submissions, SubmitChecked(c, slug, sub)
      PROVE  TypeOK'
  <2>1. PICK token \in client[c].token, g \in Found(slug) :
          ClientGoes(c, [at |-> "insert", row |-> games[g],
            score |-> [game |-> g, slug |-> slug, token |-> token, sub |-> sub]])
    BY <1>3 DEF SubmitChecked
  <2>2. token \in Token /\ g \in Games /\ games[g] \in Row
    BY <1>3, ClientAt DEF SubmitChecked, Found, TypeOK
  <2>3. [at |-> "insert", row |-> games[g],
         score |-> [game |-> g, slug |-> slug, token |-> token, sub |-> sub]] \in ClientState
    BY <2>2 DEF ClientState, Score
  <2>4. QED BY <1>3, <2>1, <2>3, ClientMoves DEF SubmitChecked, TypeOK
<1>4. CASE SubmitInsert(c)
  <2>1. client[c] \in InsertState
    BY <1>4, ClientAt DEF SubmitInsert
  <2>2. [at |-> "bump", game |-> client[c].score.game] \in ClientState
    BY <2>1 DEF InsertState, Score, ClientState
  <2>3. scores' \in Seq(Score)
    BY <1>4, <2>1 DEF SubmitInsert, InsertState, TypeOK
  <2>4. QED BY <1>4, <2>2, <2>3, ClientMoves DEF SubmitInsert, TypeOK
<1>5. CASE SubmitBump(c) \/ SubmitFail(c)
  <2>1. /\ [at |-> "done", token |-> {}] \in ClientState
        /\ [at |-> "failed", token |-> {}] \in ClientState
    BY DEF ClientState, Answers
  <2>2. version' \in [Games -> Nat] /\ lost' \in [Games -> Nat]
    BY <1>5 DEF SubmitBump, SubmitFail, TypeOK
  <2>3. QED BY <1>5, <2>1, <2>2, ClientMoves DEF SubmitBump, SubmitFail, TypeOK
<1>6. QED BY <1>1, <1>2, <1>3, <1>4, <1>5 DEF Submit

-------------------------------------------------------------------------------
(* The parts of the invariant about the tables alone. *)
Tables == UniqueSlugs /\ BoundsConsistent /\ DatesPast

(* What was checked of the scores in the table. *)
StoredPassed == TokenReachesItsGame /\ NamesPassed

LEMMA TablesKept ==
  ASSUME Tables, UNCHANGED <<games, clock, raced>>
  PROVE  Tables'
BY DEF Tables, UniqueSlugs, BoundsConsistent, DatesPast

LEMMA ClientsKept ==
  ASSUME ClientsHoldTokens, StoredPassed, UNCHANGED <<client, scores>>
  PROVE  ClientsHoldTokens' /\ StoredPassed'
BY DEF ClientsHoldTokens, StoredPassed, TokenReachesItsGame, NamesPassed

(* A row that is written over another or added keeps the table in order when *)
(* its slug is free, its bounds agree unless edits overlapped, and its date  *)
(* is past.                                                                  *)
LEMMA TablesSet ==
  ASSUME TypeOK, Tables, NEW g \in Games, NEW row \in Row, SetRow(g, row),
         ~Taken(row.settings.slug, g),
         ~raced'[g] => bounds_ok(row.settings),
         row.privacy_updated_at <= clock',
         clock' \in Nat, clock <= clock',
         \A x \in Games \ {g} : raced'[x] = raced[x]
  PROVE  Tables'
<1>1. /\ DOMAIN games' = DOMAIN games \cup {g}
      /\ games'[g] = row
      /\ \A x \in DOMAIN games \ {g} : games'[x] = games[x]
      /\ DOMAIN games \subseteq Games
  BY RowIsSet DEF TypeOK
<1>2. UniqueSlugs'
  BY <1>1 DEF Tables, UniqueSlugs, Taken
<1>3. BoundsConsistent'
  BY <1>1 DEF Tables, BoundsConsistent, bounds_ok
<1>4. DatesPast'
  <2>1. \A x \in DOMAIN games : games[x].privacy_updated_at \in Nat /\ clock \in Nat
    BY DEF TypeOK, Row
  <2>2. QED BY <1>1, <2>1 DEF Tables, DatesPast, Row
<1>5. QED BY <1>2, <1>3, <1>4 DEF Tables

(* Of an admin's step, the others' requests see only that rows are added and *)
(* time passes.                                                              *)
LEMMA HoldersKept ==
  ASSUME TypeOK, TypeOK', AdminsHoldRows, NEW a \in Admins,
         \A x \in Admins \ {a} : admin'[x] = admin[x],
         DOMAIN games \subseteq DOMAIN games', clock <= clock',
         admin'[a].at \in {"form", "save", "bump", "flash"} =>
           admin'[a].game \in DOMAIN games',
         admin'[a].at \in {"form", "save"} => admin'[a].shown = admin'[a].base,
         admin'[a].at = "save" =>
           /\ bounds_ok(admin'[a].asked)
           /\ admin'[a].stamp <= clock'
           /\ admin'[a].seen.privacy_updated_at < admin'[a].stamp
  PROVE  AdminsHoldRows'
<1>1. clock \in Nat /\ clock' \in Nat
  BY DEF TypeOK
<1>2. ASSUME NEW x \in Admins \ {a}, admin[x].at = "save"
      PROVE  admin[x].stamp \in Nat
  BY <1>2, AdminAt DEF SaveState
<1>3. QED BY <1>1, <1>2 DEF AdminsHoldRows, bounds_ok

LEMMA InvInit == Init => IInv
BY TypeInit
DEF Init, IInv, UniqueSlugs, BoundsConsistent, AdminsHoldRows, ClientsHoldTokens,
    TokenReachesItsGame, NamesPassed, DatesPast

LEMMA InvStepAdmin ==
  ASSUME IInv, NEW a \in Admins, games_new(a) \/ games_edit(a) \/ EditFail(a)
  PROVE  IInv'
<1>1. /\ TypeOK /\ Tables /\ AdminsHoldRows /\ ClientsHoldTokens /\ StoredPassed
      /\ clock \in Nat
  BY DEF IInv, Tables, StoredPassed, TypeOK
<1>2. TypeOK'
  BY <1>1, TypeStepAdmin
<1>3. CASE Passing(a)
  <2>1. UNCHANGED <<games, audit, scores, version, clock, client, lost, raced>>
    BY <1>3 DEF Passing, NewRefused, NewFlash, EditForm, EditRefused, EditConflict
  <2>2. /\ \A x \in Admins \ {a} : admin'[x] = admin[x]
        /\ admin'[a].at \in Answers \cup {"form"}
        /\ admin'[a].at = "form" =>
             admin'[a].game \in DOMAIN games /\ admin'[a].shown = admin'[a].base
    BY <1>1, <1>3
    DEF Passing, NewRefused, NewFlash, EditForm, EditRefused, EditConflict, AdminGoes, TypeOK,
        Answers
  <2>3. AdminsHoldRows'
    BY <1>1, <1>2, <2>1, <2>2, HoldersKept DEF Answers
  <2>4. QED BY <1>1, <1>2, <2>1, <2>3, TablesKept, ClientsKept DEF IInv, Tables, StoredPassed
<1>4. ASSUME NEW g \in Games, NEW form \in NewForms, NewSaved(a, g, form) PROVE IInv'
  <2> DEFINE row == [settings |-> form, privacy_updated_at |-> 0]
  <2>1. /\ row \in Row
        /\ SetRow(g, row) /\ bounds_ok(form) /\ ~Taken(form.slug, g)
        /\ clock' = clock + 1
        /\ AdminGoes(a, [at |-> "flash", game |-> g])
        /\ UNCHANGED <<scores, client, raced>>
    BY <1>4 DEF NewSaved, Row
  <2>2. Tables'
    BY <1>1, <2>1, TablesSet
  <2>3. DOMAIN games' = DOMAIN games \cup {g}
    BY <1>1, <2>1, RowIsSet
  <2>4. admin'[a] = [at |-> "flash", game |-> g] /\ \A x \in Admins \ {a} : admin'[x] = admin[x]
    BY <1>1, <2>1 DEF AdminGoes, TypeOK
  <2>5. AdminsHoldRows'
    BY <1>1, <1>2, <2>1, <2>3, <2>4, HoldersKept
  <2>6. QED BY <1>1, <1>2, <2>1, <2>2, <2>5, ClientsKept DEF IInv, Tables, StoredPassed
<1>5. ASSUME admin[a].at = "form", NEW asked \in Changed(admin[a].shown), EditLoad(a, asked)
      PROVE  IInv'
  <2> DEFINE g == admin[a].game
  <2>1. /\ UNCHANGED <<games, scores, client, raced>>
        /\ clock' = clock + 1 /\ bounds_ok(asked)
        /\ g \in DOMAIN games
    BY <1>1, <1>5 DEF EditLoad, AdminsHoldRows
  <2>2. /\ admin'[a].at = "save" /\ admin'[a].game = g /\ admin'[a].asked = asked
        /\ admin'[a].seen = games[g] /\ admin'[a].stamp = clock + 1
        /\ admin'[a].shown = admin[a].shown /\ admin'[a].base = admin[a].base
        /\ \A x \in Admins \ {a} : admin'[x] = admin[x]
    BY <1>1, <1>5 DEF EditLoad, AdminGoes, TypeOK
  <2>3. games[g].privacy_updated_at \in Nat /\ games[g].privacy_updated_at <= clock
    BY <1>1, <2>1 DEF Tables, DatesPast, TypeOK, Row
  <2>4. AdminsHoldRows'
    <3>1. /\ bounds_ok(admin'[a].asked)
          /\ admin'[a].stamp <= clock'
          /\ admin'[a].seen.privacy_updated_at < admin'[a].stamp
          /\ admin'[a].shown = admin'[a].base
      BY <1>1, <1>5, <2>1, <2>2, <2>3 DEF AdminsHoldRows
    <3>2. QED BY <1>1, <1>2, <2>1, <2>2, <3>1, HoldersKept
  <2>5. Tables'
    <3>1. \A x \in DOMAIN games : games[x].privacy_updated_at \in Nat
      BY <1>1 DEF TypeOK, Row
    <3>2. QED BY <1>1, <2>1, <3>1 DEF Tables, UniqueSlugs, BoundsConsistent, DatesPast
  <2>6. QED BY <1>1, <1>2, <2>1, <2>4, <2>5, ClientsKept DEF IInv, Tables, StoredPassed
<1>6. CASE EditSave(a)
  <2> DEFINE g == admin[a].game
             row == Saved(admin[a], games[g])
  <2>1. /\ admin[a].at = "save" /\ ~Taken(row.settings.slug, g)
        /\ SetRow(g, row)
        /\ raced' = [raced EXCEPT ![g] = admin[a].seen # games[g]]
        /\ AdminGoes(a, [at |-> "bump", game |-> g])
        /\ UNCHANGED <<scores, clock, client>>
    BY <1>6 DEF EditSave
  <2>2. /\ admin[a] \in SaveState /\ g \in Games /\ g \in DOMAIN games /\ games[g] \in Row
        /\ bounds_ok(admin[a].asked) /\ admin[a].stamp <= clock
    BY <1>1, <2>1, AdminAt DEF SaveState, TypeOK, AdminsHoldRows
  <2>3. /\ row \in Row /\ row.privacy_updated_at = admin[a].stamp
        /\ games[g] = admin[a].seen => row.settings = admin[a].asked
    BY <2>2, SavedIsRow
  <2>4. /\ raced'[g] = (admin[a].seen # games[g])
        /\ \A x \in Games \ {g} : raced'[x] = raced[x]
    BY <1>1, <2>1, <2>2 DEF TypeOK
  <2>5. ~raced'[g] => bounds_ok(row.settings)
    BY <2>2, <2>3, <2>4
  <2>6. Tables'
    BY <1>1, <2>1, <2>2, <2>3, <2>4, <2>5, TablesSet
  <2>7. DOMAIN games' = DOMAIN games \cup {g}
    BY <1>1, <2>1, <2>2, <2>3, RowIsSet
  <2>8. admin'[a] = [at |-> "bump", game |-> g] /\ \A x \in Admins \ {a} : admin'[x] = admin[x]
    BY <1>1, <2>1 DEF AdminGoes, TypeOK
  <2>9. AdminsHoldRows'
    BY <1>1, <1>2, <2>1, <2>7, <2>8, HoldersKept
  <2>10. QED BY <1>1, <1>2, <2>1, <2>6, <2>9, ClientsKept DEF IInv, Tables, StoredPassed
<1>7. CASE EditBump(a) \/ EditFail(a)
  <2>1. UNCHANGED <<games, clock, raced, scores, client>>
    BY <1>7 DEF EditBump, EditFail
  <2>2. admin'[a].at \in {"done", "failed"} /\ \A x \in Admins \ {a} : admin'[x] = admin[x]
    BY <1>1, <1>7 DEF EditBump, EditFail, AdminGoes, TypeOK
  <2>3. AdminsHoldRows'
    BY <1>1, <1>2, <2>1, <2>2, HoldersKept
  <2>4. QED BY <1>1, <1>2, <2>1, <2>3, TablesKept, ClientsKept DEF IInv, Tables, StoredPassed
<1>8. QED
  BY <1>3, <1>4, <1>5, <1>6, <1>7 DEF games_new, games_edit, EditPost, Passing

LEMMA InvStepClient ==
  ASSUME IInv, NEW c \in Clients, Submit(c) \/ SubmitFail(c)
  PROVE  IInv'
<1>1. /\ TypeOK /\ Tables /\ AdminsHoldRows /\ ClientsHoldTokens /\ StoredPassed
      /\ UNCHANGED <<games, clock, raced, admin>>
  BY DEF IInv, Tables, StoredPassed, Submit, OpenSession, SubmitRefused, SubmitChecked, SubmitInsert,
         SubmitBump, SubmitFail
<1>2. TypeOK' /\ Tables' /\ AdminsHoldRows'
  BY <1>1, TypeStepClient, TablesKept DEF AdminsHoldRows, bounds_ok
<1>3. ClientsHoldTokens' /\ StoredPassed'
  <2>1. ASSUME NEW slug \in Slugs, NEW sub \in Submissions,
               SubmitRefused(c, slug, sub)
        PROVE  ClientsHoldTokens' /\ StoredPassed'
    <3>1. /\ scores' = scores
          /\ client'[c].at # "insert"
          /\ \A x \in Clients \ {c} : client'[x] = client[x]
      BY <1>1, <2>1 DEF SubmitRefused, ClientGoes, TypeOK
    <3>2. QED BY <1>1, <3>1 DEF ClientsHoldTokens, StoredPassed, TokenReachesItsGame, NamesPassed
  <2>2. ASSUME SubmitBump(c) \/ SubmitFail(c)
        PROVE  ClientsHoldTokens' /\ StoredPassed'
    <3>1. /\ scores' = scores
          /\ client'[c].at # "insert"
          /\ \A x \in Clients \ {c} : client'[x] = client[x]
      BY <1>1, <2>2 DEF SubmitBump, SubmitFail, ClientGoes, TypeOK
    <3>2. QED BY <1>1, <3>1 DEF ClientsHoldTokens, StoredPassed, TokenReachesItsGame, NamesPassed
  <2>3. ASSUME NEW slug \in Slugs, OpenSession(c, slug)
        PROVE  ClientsHoldTokens' /\ StoredPassed'
    <3>1. /\ scores' = scores
          /\ client'[c].at # "insert"
          /\ \A x \in Clients \ {c} : client'[x] = client[x]
      BY <1>1, <2>3 DEF OpenSession, ClientGoes, TypeOK
    <3>2. QED BY <1>1, <3>1 DEF ClientsHoldTokens, StoredPassed, TokenReachesItsGame, NamesPassed
  <2>4. ASSUME NEW slug \in Slugs, NEW sub \in Submissions, SubmitChecked(c, slug, sub)
        PROVE  ClientsHoldTokens' /\ StoredPassed'
    <3>1. PICK token \in client[c].token, g \in Found(slug) :
            /\ token.game = g
            /\ sanitize_submission(games[g].settings, sub) = "ok"
            /\ ClientGoes(c, [at |-> "insert", row |-> games[g],
                 score |-> [game |-> g, slug |-> slug, token |-> token, sub |-> sub]])
      BY <2>4 DEF SubmitChecked, Genuine
    <3>0. ~InvalidPlayerName(sub.player_name)
      BY <3>1, AcceptedName
    <3>2. /\ scores' = scores
          /\ client'[c].score.game = client'[c].score.token.game
          /\ ~InvalidPlayerName(client'[c].score.sub.player_name)
          /\ \A x \in Clients \ {c} : client'[x] = client[x]
      BY <1>1, <2>4, <3>0, <3>1 DEF SubmitChecked, ClientGoes, TypeOK
    <3>3. QED BY <1>1, <3>2 DEF ClientsHoldTokens, StoredPassed, TokenReachesItsGame, NamesPassed
  <2>5. CASE SubmitInsert(c)
    <3>1. /\ scores' = Append(scores, client[c].score)
          /\ client[c].score \in Score
          /\ client[c].score.game = client[c].score.token.game
          /\ ~InvalidPlayerName(client[c].score.sub.player_name)
          /\ client'[c].at # "insert"
          /\ \A x \in Clients \ {c} : client'[x] = client[x]
      BY <1>1, <2>5, ClientAt
      DEF SubmitInsert, ClientGoes, ClientsHoldTokens, InsertState, TypeOK
    <3>2. ClientsHoldTokens'
      BY <1>1, <3>1 DEF ClientsHoldTokens
    <3>3. /\ scores \in Seq(Score)
          /\ DOMAIN scores' = DOMAIN scores \cup {Len(scores) + 1}
          /\ scores'[Len(scores) + 1] = client[c].score
          /\ \A i \in DOMAIN scores : scores'[i] = scores[i]
      BY <1>1, <3>1 DEF TypeOK
    <3>4. StoredPassed'
      BY <1>1, <3>1, <3>3 DEF StoredPassed, TokenReachesItsGame, NamesPassed
    <3>5. QED BY <3>2, <3>4
  <2>6. QED BY <2>1, <2>2, <2>3, <2>4, <2>5 DEF Submit
<1>4. QED BY <1>2, <1>3 DEF IInv, Tables, StoredPassed

LEMMA InvStep == IInv /\ [Next]_vars => IInv'
<1> SUFFICES ASSUME IInv, [Next]_vars PROVE IInv'
  OBVIOUS
<1>1. CASE UNCHANGED vars
  BY <1>1
  DEF vars, IInv, TypeOK, UniqueSlugs, BoundsConsistent, AdminsHoldRows, ClientsHoldTokens,
      TokenReachesItsGame, NamesPassed, DatesPast, bounds_ok
<1>2. QED BY <1>1, InvStepAdmin, InvStepClient DEF Next

(* The inductive invariant holds in every reachable state. *)
THEOREM Invariance == Spec => []IInv
BY InvInit, InvStep, PTL DEF Spec

(* Every reachable state of the tables and the requests is well typed. *)
THEOREM TypeCorrect == Spec => []TypeOK
BY Invariance, PTL DEF IInv

(* However many edits overlap, min_score <= max_score in every row whose last *)
(* edit saw the row it wrote to.                                              *)
THEOREM BoundsStayConsistent == Spec => []BoundsConsistent
BY Invariance, PTL DEF IInv

(* Whatever games are renamed to, a score reaches the game its token is for.  *)
THEOREM TokensReachTheirGame == Spec => []TokenReachesItsGame
BY Invariance, PTL DEF IInv

(* A stored name is clean, and one for all spellings that are canonically    *)
(* equivalent: it passed the check when it was submitted (NamesPassed), and  *)
(* normalize_player_name does the rest.                                      *)
THEOREM NamesStandForPlayers == Spec => []NamesIdentifyPlayers
<1>1. ASSUME NEW sent \in Submissions, ~InvalidPlayerName(sent.player_name)
      PROVE  NameTable[sent]
  <2>1. sent.player_name \in Names /\ \A sub \in Inputs : sub.player_name \in Names
    BY PayloadsAssumption DEF Submission
  <2>2. /\ CleanName(normalize_player_name(sent.player_name))
        /\ NormalName(sent.player_name, normalize_player_name(sent.player_name))
    BY <1>1, <2>1, StoredNames
  <2>3. \A sub \in Inputs : Decomposed(sub.player_name) = Decomposed(sent.player_name) =>
          normalize_player_name(sub.player_name) = normalize_player_name(sent.player_name)
    BY <2>1, EquivalentNames
  <2>4. QED BY <2>2, <2>3 DEF NameTable
<1>2. IInv => NamesIdentifyPlayers
  <2>1. ASSUME IInv, NEW i \in DOMAIN scores PROVE NameTable[scores[i].sub]
    <3>1. scores[i].sub \in Submissions
      <4>1. scores \in Seq(Score)
        BY <2>1 DEF IInv, TypeOK
      <4>2. scores[i] \in Score
        BY <4>1
      <4>3. QED BY <4>2 DEF Score
    <3>2. QED BY <1>1, <2>1, <3>1 DEF IInv, NamesPassed
  <2>2. QED BY <2>1 DEF NamesIdentifyPlayers
<1>3. QED BY <1>2, Invariance, PTL

(* Under the settings of any game that can come about, any payload gets the  *)
(* verdict that is documented, but for the three rules that are not enforced *)
(* and the code's own one about long keys.                                   *)
THEOREM VerdictsAreAsDocumented == Spec => []VerdictsAreDocumented
<1>1. ASSUME NEW lo \in Optional(Bounds), NEW hi \in Optional(Bounds), NEW fields \in Schemas
      PROVE  VerdictTable[lo][hi][fields]
  <2>1. lo \in SUBSET Nat /\ hi \in SUBSET Nat /\ fields \in Schema
    BY GamesAssumption, PayloadsAssumption DEF Optional
  <2>2. \A sub \in Inputs :
          VerdictIsDocumented([min |-> lo, max |-> hi, fields |-> fields], sub)
    BY <2>1, PayloadsAssumption, VerdictsDocumented
  <2>3. QED BY <2>2 DEF VerdictTable
<1>2. TypeOK => VerdictsAreDocumented
  <2>1. ASSUME TypeOK, NEW g \in DOMAIN games
        PROVE  VerdictTable[games[g].settings.min][games[g].settings.max]
                           [games[g].settings.fields]
    <3>1. games[g].settings \in Settings
      BY <2>1 DEF TypeOK, Row
    <3>2. QED BY <1>1, <3>1 DEF Settings
  <2>2. QED BY <2>1 DEF VerdictsAreDocumented
<1>3. QED BY <1>2, TypeCorrect, PTL

(* Only the save of an edit takes its request from the save to the bump.      *)
LEMMA OnlySaveCommits ==
  ASSUME TypeOK, [Next]_vars, NEW a \in Admins, admin[a].at = "save", admin'[a].at = "bump"
  PROVE  EditSave(a)
<1>1. ASSUME NEW x \in Admins, games_new(x) \/ games_edit(x) \/ EditFail(x), x # a
      PROVE  admin'[a] = admin[a]
  <2>1. \E state : AdminGoes(x, state)
    BY <1>1
    DEF games_new, games_edit, NewRefused, NewSaved, NewFlash, EditForm, EditPost,
        EditRefused, EditLoad, EditConflict, EditSave, EditBump, EditFail
  <2>2. QED BY <1>1, <2>1 DEF AdminGoes, TypeOK
<1>2. ASSUME NEW c \in Clients, Submit(c) \/ SubmitFail(c) PROVE admin' = admin
  BY <1>2
  DEF Submit, OpenSession, SubmitRefused, SubmitChecked, SubmitInsert, SubmitBump, SubmitFail
<1>3. games_new(a) \/ games_edit(a) \/ EditFail(a)
  BY <1>1, <1>2 DEF Next, vars
<1>4. ~games_new(a)
  BY DEF games_new, NewRefused, NewSaved, NewFlash, Answers
<1>5. ~EditPost(a) /\ ~EditBump(a) /\ ~\E h \in DOMAIN games : EditForm(a, h)
  BY DEF EditPost, EditBump, EditForm, Answers
<1>6. ~EditConflict(a) /\ ~EditFail(a)
  BY DEF EditConflict, EditFail, AdminGoes, TypeOK
<1>7. QED BY <1>3, <1>4, <1>5, <1>6 DEF games_edit

(* An edit that saw the row it wrote to moves the policy's date forward.      *)
THEOREM PolicyDatesAdvance == Spec => PolicyDateAdvances
<1> DEFINE Advances ==
      \A a \in Admins : admin[a].at = "save" /\ admin'[a].at = "bump" =>
        LET g == admin[a].game IN
        raced'[g] \/ games'[g].privacy_updated_at > games[g].privacy_updated_at
<1>1. ASSUME IInv, [Next]_vars PROVE [Advances]_vars
  <2> SUFFICES ASSUME NEW a \in Admins, admin[a].at = "save", admin'[a].at = "bump"
               PROVE  LET g == admin[a].game IN
                      raced'[g] \/ games'[g].privacy_updated_at > games[g].privacy_updated_at
    OBVIOUS
  <2> DEFINE g == admin[a].game
  <2>1. TypeOK /\ AdminsHoldRows
    BY <1>1 DEF IInv
  <2>2. EditSave(a)
    BY <1>1, <2>1, OnlySaveCommits
  <2>3. /\ admin[a] \in SaveState /\ g \in Games /\ games[g] \in Row
        /\ admin[a].seen.privacy_updated_at < admin[a].stamp
    BY <2>1, AdminAt DEF SaveState, AdminsHoldRows, TypeOK
  <2>4. /\ Saved(admin[a], games[g]) \in Row
        /\ Saved(admin[a], games[g]).privacy_updated_at = admin[a].stamp
    BY <2>3, SavedIsRow
  <2>5. games'[g].privacy_updated_at = admin[a].stamp
    BY <2>1, <2>2, <2>3, <2>4, RowIsSet DEF EditSave
  <2>6. raced'[g] = (admin[a].seen # games[g])
    BY <2>1, <2>2, <2>3 DEF EditSave, TypeOK
  <2>7. CASE admin[a].seen = games[g]
    BY <2>3, <2>5, <2>7 DEF SaveState, Row
  <2>8. CASE admin[a].seen # games[g]
    BY <2>6, <2>8
  <2>9. QED BY <2>7, <2>8
<1>2. QED BY <1>1, Invariance, PTL DEF Spec, PolicyDateAdvances

(* What a save writes over a row differs from it only where the form differs  *)
(* from the row that was loaded.                                              *)
LEMMA SavedColumns ==
  ASSUME NEW post \in SaveState, NEW old \in Row,
         NEW column \in DOMAIN old.settings,
         Saved(post, old).settings[column] # old.settings[column]
  PROVE  Saved(post, old).settings[column] = post.asked[column]
BY DEF Saved, Written, SaveState, Row, Settings

(* When no edit came between the form and its save, the columns that change   *)
(* are the ones the admin changed in the form.                                *)
THEOREM SavesAreAsked == Spec => SavesWhatWasAsked
<1> DEFINE Asked ==
      \A a \in Admins : admin[a].at = "save" /\ admin'[a].at = "bump" =>
        LET old == games[admin[a].game].settings
            new == games'[admin[a].game].settings
        IN old = admin[a].base => \A column \in DOMAIN old :
             new[column] # old[column] => admin[a].asked[column] # admin[a].shown[column]
<1>1. ASSUME IInv, [Next]_vars PROVE [Asked]_vars
  <2> SUFFICES ASSUME NEW a \in Admins, admin[a].at = "save", admin'[a].at = "bump",
                      games[admin[a].game].settings = admin[a].base,
                      NEW column \in DOMAIN games[admin[a].game].settings,
                      games'[admin[a].game].settings[column]
                        # games[admin[a].game].settings[column]
               PROVE  admin[a].asked[column] # admin[a].shown[column]
    OBVIOUS
  <2> DEFINE g == admin[a].game
             row == Saved(admin[a], games[g])
  <2>1. TypeOK /\ AdminsHoldRows
    BY <1>1 DEF IInv
  <2>2. EditSave(a)
    BY <1>1, <2>1, OnlySaveCommits
  <2>3. /\ admin[a] \in SaveState /\ g \in Games /\ games[g] \in Row
        /\ admin[a].shown = admin[a].base
    BY <2>1, AdminAt DEF SaveState, AdminsHoldRows, TypeOK
  <2>4. games'[g] = row
    BY <2>1, <2>2, <2>3, SavedIsRow, RowIsSet DEF EditSave
  <2>5. row.settings[column] # games[g].settings[column]
    BY <2>4
  <2>6. row.settings[column] = admin[a].asked[column]
    BY <2>3, <2>5, SavedColumns
  <2>7. QED BY <2>3, <2>5, <2>6
<1>2. QED BY <1>1, Invariance, PTL DEF Spec, SavesWhatWasAsked

-------------------------------------------------------------------------------
(* Admins and clients implement Publishing, for every game. *)
Updates(g) == {i \in DOMAIN audit : audit[i] = [action |-> "game.update", game |-> g]}
ScoresOf(g) == {i \in DOMAIN scores : scores[i].game = g}
Owing(g) == {a \in Admins : admin[a] = [at |-> "bump", game |-> g]}
            \cup {c \in Clients : client[c] = [at |-> "bump", game |-> g]}

(* Appending to a sequence adds at most its last place to a set of places.    *)
LEMMA PlacesAppended ==
  ASSUME NEW S, NEW s \in Seq(S), NEW e \in S
  PROVE  /\ DOMAIN Append(s, e) = DOMAIN s \cup {Len(s) + 1}
         /\ Len(s) + 1 \notin DOMAIN s
         /\ Append(s, e)[Len(s) + 1] = e
         /\ \A i \in DOMAIN s : Append(s, e)[i] = s[i]
OBVIOUS

LEMMA CountsFinite ==
  ASSUME TypeOK, NEW g \in Games
  PROVE  /\ IsFiniteSet(Updates(g)) /\ Cardinality(Updates(g)) \in Nat
         /\ IsFiniteSet(ScoresOf(g)) /\ Cardinality(ScoresOf(g)) \in Nat
<1>1. DOMAIN audit = 1 .. Len(audit) /\ Len(audit) \in Nat
  BY DEF TypeOK
<1>2. DOMAIN scores = 1 .. Len(scores) /\ Len(scores) \in Nat
  BY DEF TypeOK
<1>3. IsFiniteSet(DOMAIN audit) /\ IsFiniteSet(DOMAIN scores)
  BY <1>1, <1>2, FS_Interval
<1>4. Updates(g) \subseteq DOMAIN audit /\ ScoresOf(g) \subseteq DOMAIN scores
  BY DEF Updates, ScoresOf
<1>5. QED BY <1>3, <1>4, FS_Subset, FS_CardinalityType

LEMMA UpdateCounted ==
  ASSUME TypeOK, NEW g \in Games, NEW h \in Games, Log("game.update", h)
  PROVE  Cardinality(Updates(g))' = Cardinality(Updates(g)) + (IF g = h THEN 1 ELSE 0)
<1>1. audit \in Seq(Entry) /\ [action |-> "game.update", game |-> h] \in Entry
  BY DEF TypeOK, Entry
<1>2. audit' = Append(audit, [action |-> "game.update", game |-> h])
  BY DEF Log
<1>3. CASE g = h
  <2>1. Updates(g)' = Updates(g) \cup {Len(audit) + 1} /\ Len(audit) + 1 \notin Updates(g)
    BY <1>1, <1>2, <1>3, PlacesAppended DEF Updates
  <2>2. QED BY <1>3, <2>1, CountsFinite, FS_AddElement
<1>4. CASE g # h
  <2>1. Updates(g)' = Updates(g)
    BY <1>1, <1>2, <1>4, PlacesAppended DEF Updates
  <2>2. QED BY <1>4, <2>1, CountsFinite
<1>5. QED BY <1>3, <1>4

LEMMA CreateNotCounted ==
  ASSUME TypeOK, NEW g \in Games, NEW h \in Games, Log("game.create", h)
  PROVE  Updates(g)' = Updates(g)
<1>1. audit \in Seq(Entry) /\ [action |-> "game.create", game |-> h] \in Entry
  BY DEF TypeOK, Entry
<1>2. audit' = Append(audit, [action |-> "game.create", game |-> h])
  BY DEF Log
<1>3. [action |-> "game.create", game |-> h] # [action |-> "game.update", game |-> g]
  OBVIOUS
<1>4. QED BY <1>1, <1>2, <1>3, PlacesAppended DEF Updates

LEMMA ScoreCounted ==
  ASSUME TypeOK, NEW g \in Games, NEW score \in Score, scores' = Append(scores, score)
  PROVE  Cardinality(ScoresOf(g))' = Cardinality(ScoresOf(g)) + (IF g = score.game THEN 1 ELSE 0)
<1>1. scores \in Seq(Score)
  BY DEF TypeOK
<1>2. CASE g = score.game
  <2>1. ScoresOf(g)' = ScoresOf(g) \cup {Len(scores) + 1} /\ Len(scores) + 1 \notin ScoresOf(g)
    BY <1>1, <1>2, PlacesAppended DEF ScoresOf
  <2>2. QED BY <1>2, <2>1, CountsFinite, FS_AddElement
<1>3. CASE g # score.game
  <2>1. ScoresOf(g)' = ScoresOf(g)
    BY <1>1, <1>3, PlacesAppended DEF ScoresOf
  <2>2. QED BY <1>3, <2>1, CountsFinite
<1>4. QED BY <1>2, <1>3

(* Who owes a bump after an admin's, or a client's, step. *)
LEMMA OwingAfterAdmin ==
  ASSUME TypeOK, NEW a \in Admins, NEW state, AdminGoes(a, state), client' = client,
         NEW g \in Games
  PROVE  Owing(g)' = IF state = [at |-> "bump", game |-> g] THEN Owing(g) \cup {a}
                                                          ELSE Owing(g) \ {a}
BY DEF TypeOK, AdminGoes, Owing

LEMMA OwingAfterClient ==
  ASSUME TypeOK, NEW c \in Clients, NEW state, ClientGoes(c, state), admin' = admin,
         NEW g \in Games
  PROVE  Owing(g)' = IF state = [at |-> "bump", game |-> g] THEN Owing(g) \cup {c}
                                                          ELSE Owing(g) \ {c}
BY DEF TypeOK, ClientGoes, Owing

LEMMA NotBump ==
  ASSUME NEW state, NEW g, state.at # "bump"
  PROVE  state # [at |-> "bump", game |-> g]
OBVIOUS

LEMMA PublishInit == Init => \A g \in Games : P(g)!Init
<1> SUFFICES ASSUME Init, NEW g \in Games PROVE P(g)!Init
  OBVIOUS
<1>1. Updates(g) = {} /\ ScoresOf(g) = {} /\ Owing(g) = {}
  BY DEF Init, Updates, ScoresOf, Owing
<1>2. QED BY <1>1, FS_EmptySet DEF Init, P!Init, Updates, ScoresOf, Owing

(* Steps before the commit and answers without a bump are stutters. *)
LEMMA PublishStutter ==
  ASSUME NEW g \in Games, UNCHANGED <<version, lost>>, Owing(g)' = Owing(g),
         Updates(g)' = Updates(g), ScoresOf(g)' = ScoresOf(g)
  PROVE  UNCHANGED P(g)!vars
BY DEF P!vars, Owing, Updates, ScoresOf

LEMMA PublishStepAdmin ==
  ASSUME IInv, NEW a \in Admins, games_new(a) \/ games_edit(a) \/ EditFail(a), NEW g \in Games
  PROVE  [P(g)!Next]_(P(g)!vars)
<1>1. TypeOK /\ version[g] \in Nat /\ lost[g] \in Nat
  BY DEF IInv, TypeOK
<1>2. a \in Owing(g) <=> admin[a] = [at |-> "bump", game |-> g]
  BY DEF Owing
<1>3. CASE \/ Passing(a)
           \/ \E h \in Games, form \in NewForms : NewSaved(a, h, form)
           \/ admin[a].at = "form" /\ \E asked \in Changed(admin[a].shown) : EditLoad(a, asked)
           \/ EditFail(a) /\ admin[a].at # "bump"
  <2>1. admin[a].at # "bump"
    BY <1>3
    DEF Passing, NewRefused, NewFlash, EditForm, EditConflict, NewSaved, Answers
  <2>2. \E state : AdminGoes(a, state) /\ state # [at |-> "bump", game |-> g]
    <3>1. CASE \/ NewFlash(a)
               \/ EditConflict(a)
               \/ EditFail(a)
               \/ \E h \in Games, form \in NewForms : NewRefused(a, h, form)
               \/ \E asked \in Changed(admin[a].shown) : EditRefused(a, asked)
      BY <3>1, \A at \in Answers : [at |-> at] # [at |-> "bump", game |-> g]
      DEF NewFlash, EditConflict, EditFail, NewRefused, EditRefused, Answers
    <3>2. CASE \E h \in Games, form \in NewForms : NewSaved(a, h, form)
      <4>1. PICK h \in Games, form \in NewForms : NewSaved(a, h, form)
        BY <3>2
      <4>2. QED BY <4>1, NotBump DEF NewSaved
    <3>3. CASE \E h \in DOMAIN games : EditForm(a, h)
      <4>1. PICK h \in DOMAIN games : EditForm(a, h)
        BY <3>3
      <4>2. QED BY <4>1, NotBump DEF EditForm
    <3>4. CASE \E asked \in Changed(admin[a].shown) : EditLoad(a, asked)
      <4>1. PICK asked \in Changed(admin[a].shown) : EditLoad(a, asked)
        BY <3>4
      <4>2. QED BY <4>1, NotBump DEF EditLoad
    <3>5. CASE Passing(a)
      BY <3>1, <3>3, <3>5 DEF Passing
    <3>6. QED BY <1>3, <3>1, <3>2, <3>4, <3>5
  <2>3. UNCHANGED <<scores, version, client, lost>>
    BY <1>3
    DEF Passing, NewRefused, NewFlash, EditForm, EditRefused, EditConflict, NewSaved, EditLoad,
        EditFail
  <2>4. Updates(g)' = Updates(g)
    <3>1. CASE \E h \in Games, form \in NewForms : NewSaved(a, h, form)
      BY <1>1, <3>1, CreateNotCounted DEF NewSaved
    <3>2. CASE audit' = audit
      BY <3>2 DEF Updates
    <3>3. QED
      BY <1>3, <3>1, <3>2
      DEF Passing, NewRefused, NewFlash, EditForm, EditRefused, EditConflict, EditLoad, EditFail
  <2>5. Owing(g)' = Owing(g)
    BY <1>1, <1>2, <2>1, <2>2, <2>3, OwingAfterAdmin
  <2>6. QED BY <2>3, <2>4, <2>5, PublishStutter DEF ScoresOf
<1>4. CASE EditSave(a)
  <2> DEFINE h == admin[a].game
  <2>1. /\ admin[a].at = "save" /\ h \in Games
        /\ Log("game.update", h)
        /\ AdminGoes(a, [at |-> "bump", game |-> h])
        /\ UNCHANGED <<scores, version, client, lost>>
    BY <1>1, <1>4, AdminAt DEF EditSave, SaveState
  <2>2. ScoresOf(g)' = ScoresOf(g) /\ a \notin Owing(g)
    BY <1>2, <2>1 DEF ScoresOf
  <2>3. CASE h = g
    <3>1. Owing(g)' = Owing(g) \cup {a}
      BY <1>1, <2>1, <2>3, OwingAfterAdmin
    <3>2. Cardinality(Updates(g))' = Cardinality(Updates(g)) + 1
      BY <1>1, <2>1, <2>3, UpdateCounted
    <3>3. (Cardinality(Updates(g)) + Cardinality(ScoresOf(g)))'
          = Cardinality(Updates(g)) + Cardinality(ScoresOf(g)) + 1
      BY <1>1, <2>2, <3>2, CountsFinite
    <3>4. P(g)!Commit(a)
      BY <2>1, <2>2, <3>1, <3>3 DEF P!Commit, Updates, ScoresOf, Owing
    <3>5. QED BY <3>4 DEF P!Next
  <2>4. CASE h # g
    <3>1. Owing(g)' = Owing(g)
      BY <1>1, <2>1, <2>2, <2>4, OwingAfterAdmin
    <3>2. Cardinality(Updates(g))' = Cardinality(Updates(g))
      BY <1>1, <2>1, <2>4, UpdateCounted, CountsFinite
    <3>3. QED BY <2>1, <2>2, <3>1, <3>2 DEF P!vars, Updates, ScoresOf, Owing
  <2>5. QED BY <2>3, <2>4
<1>5. CASE EditBump(a) \/ (EditFail(a) /\ admin[a].at = "bump")
  <2> DEFINE h == admin[a].game
  <2>1. /\ admin[a] = [at |-> "bump", game |-> h] /\ h \in Games
        /\ UNCHANGED <<audit, scores, client>>
        /\ \E state : AdminGoes(a, state) /\ state # [at |-> "bump", game |-> g]
    BY <1>1, <1>5, AdminAt DEF EditBump, EditFail, LeaveState
  <2>2. Owing(g)' = Owing(g) \ {a} /\ Updates(g)' = Updates(g) /\ ScoresOf(g)' = ScoresOf(g)
    BY <1>1, <2>1, OwingAfterAdmin DEF Updates, ScoresOf
  <2>3. CASE h = g /\ EditBump(a)
    <3>1. version'[g] = version[g] + 1 /\ lost' = lost
      BY <1>1, <2>3 DEF EditBump, TypeOK
    <3>2. P(g)!Bump(a)
      BY <1>2, <2>1, <2>2, <2>3, <3>1 DEF P!Bump, Updates, ScoresOf, Owing
    <3>3. QED BY <3>2 DEF P!Next
  <2>4. CASE h = g /\ EditFail(a)
    <3>1. lost'[g] = lost[g] + 1 /\ version' = version
      BY <1>1, <2>1, <2>4 DEF EditFail, TypeOK
    <3>2. P(g)!Lose(a)
      BY <1>2, <2>1, <2>2, <2>4, <3>1 DEF P!Lose, Updates, ScoresOf, Owing
    <3>3. QED BY <3>2 DEF P!Next
  <2>5. CASE h # g
    <3>1. version'[g] = version[g] /\ lost'[g] = lost[g] /\ Owing(g)' = Owing(g)
      BY <1>1, <1>2, <1>5, <2>1, <2>2, <2>5 DEF EditBump, EditFail, TypeOK
    <3>2. QED BY <2>2, <3>1 DEF P!vars, Updates, ScoresOf, Owing
  <2>6. QED BY <1>5, <2>3, <2>4, <2>5
<1>6. QED
  BY <1>3, <1>4, <1>5 DEF games_new, games_edit, EditPost, Passing, EditFail

LEMMA PublishStepClient ==
  ASSUME IInv, NEW c \in Clients, Submit(c) \/ SubmitFail(c), NEW g \in Games
  PROVE  [P(g)!Next]_(P(g)!vars)
<1>1. TypeOK /\ version[g] \in Nat /\ lost[g] \in Nat
  BY DEF IInv, TypeOK
<1>2. /\ c \in Owing(g) <=> client[c] = [at |-> "bump", game |-> g]
      /\ UNCHANGED <<audit, admin>> /\ Updates(g)' = Updates(g)
  BY DEF Owing, Updates, Submit, OpenSession, SubmitRefused, SubmitChecked, SubmitInsert,
         SubmitBump, SubmitFail
<1>3. ASSUME NEW slug \in Slugs, NEW sub \in Submissions,
             SubmitRefused(c, slug, sub) \/ SubmitChecked(c, slug, sub)
      PROVE  UNCHANGED P(g)!vars
  <2>1. /\ client[c].at # "bump"
        /\ UNCHANGED <<scores, version, lost>>
        /\ \E state : ClientGoes(c, state) /\ state # [at |-> "bump", game |-> g]
    <3>1. CASE SubmitRefused(c, slug, sub)
      <4>1. PICK left :
              ClientGoes(c, [at |-> "refused", token |-> left])
        BY <3>1 DEF SubmitRefused
      <4>2. QED BY <3>1, <4>1, NotBump DEF SubmitRefused, Answers
    <3>2. CASE SubmitChecked(c, slug, sub)
      <4>1. PICK row, score : ClientGoes(c, [at |-> "insert", row |-> row, score |-> score])
        BY <3>2 DEF SubmitChecked
      <4>2. QED BY <3>2, <4>1, NotBump DEF SubmitChecked, Answers
    <3>3. QED BY <1>3, <3>1, <3>2
  <2>2. Owing(g)' = Owing(g)
    BY <1>1, <1>2, <2>1, OwingAfterClient
  <2>3. QED BY <1>2, <2>1, <2>2, PublishStutter DEF ScoresOf
<1>4. ASSUME \/ \E slug \in Slugs : OpenSession(c, slug)
             \/ SubmitFail(c) /\ client[c].at = "insert"
      PROVE  UNCHANGED P(g)!vars
  <2>1. /\ client[c].at # "bump"
        /\ UNCHANGED <<scores, version, lost>>
        /\ \E state : ClientGoes(c, state) /\ state # [at |-> "bump", game |-> g]
    <3>1. CASE \E slug \in Slugs : OpenSession(c, slug)
      <4>1. PICK token : ClientGoes(c, [at |-> "done", token |-> token])
        BY <3>1 DEF OpenSession
      <4>2. QED BY <3>1, <4>1, NotBump DEF OpenSession, Answers
    <3>2. CASE SubmitFail(c) /\ client[c].at = "insert"
      BY <3>2, NotBump DEF SubmitFail
    <3>3. QED BY <1>4, <3>1, <3>2
  <2>2. Owing(g)' = Owing(g)
    BY <1>1, <1>2, <2>1, OwingAfterClient
  <2>3. QED BY <1>2, <2>1, <2>2, PublishStutter DEF ScoresOf
<1>5. CASE SubmitInsert(c)
  <2> DEFINE score == client[c].score
  <2>1. /\ client[c].at = "insert" /\ score \in Score
        /\ scores' = Append(scores, score)
        /\ ClientGoes(c, [at |-> "bump", game |-> score.game])
        /\ UNCHANGED <<version, lost>>
    BY <1>1, <1>5, ClientAt DEF SubmitInsert, InsertState
  <2>2. c \notin Owing(g) /\ score.game \in Games
    BY <1>2, <2>1 DEF Score
  <2> HIDE DEF score
  <2>3. CASE score.game = g
    <3>1. Owing(g)' = Owing(g) \cup {c}
      BY <1>1, <1>2, <2>1, <2>3, OwingAfterClient
    <3>2. Cardinality(ScoresOf(g))' = Cardinality(ScoresOf(g)) + 1
      BY <1>1, <2>1, <2>3, ScoreCounted
    <3>3. Cardinality(Updates(g))' = Cardinality(Updates(g))
      BY <1>2
    <3>4. (Cardinality(Updates(g)) + Cardinality(ScoresOf(g)))'
          = Cardinality(Updates(g)) + Cardinality(ScoresOf(g)) + 1
      BY <1>1, <3>2, <3>3, CountsFinite
    <3>5. P(g)!Commit(c)
      BY <2>1, <2>2, <3>1, <3>4 DEF P!Commit, Updates, ScoresOf, Owing
    <3>6. QED BY <3>5 DEF P!Next
  <2>4. CASE score.game # g
    <3>1. [at |-> "bump", game |-> score.game] # [at |-> "bump", game |-> g]
      BY <2>4
    <3>2. Owing(g)' = Owing(g) \ {c}
      BY <1>1, <1>2, <2>1, <3>1, OwingAfterClient
    <3>3. Cardinality(ScoresOf(g))' = Cardinality(ScoresOf(g))
      BY <1>1, <2>1, <2>4, ScoreCounted, CountsFinite
    <3>4. QED BY <1>2, <2>1, <2>2, <3>2, <3>3 DEF P!vars, Updates, ScoresOf, Owing
  <2>5. QED BY <2>3, <2>4
<1>6. CASE SubmitBump(c) \/ (SubmitFail(c) /\ client[c].at = "bump")
  <2> DEFINE h == client[c].game
  <2>1. /\ client[c] = [at |-> "bump", game |-> h] /\ h \in Games
        /\ scores' = scores
        /\ \E state : ClientGoes(c, state) /\ state # [at |-> "bump", game |-> g]
    BY <1>1, <1>6, ClientAt DEF SubmitBump, SubmitFail
  <2>2. Owing(g)' = Owing(g) \ {c} /\ ScoresOf(g)' = ScoresOf(g)
    BY <1>1, <1>2, <2>1, OwingAfterClient DEF ScoresOf
  <2>3. CASE h = g /\ SubmitBump(c)
    <3>1. version'[g] = version[g] + 1 /\ lost' = lost
      BY <1>1, <2>3 DEF SubmitBump, TypeOK
    <3>2. P(g)!Bump(c)
      BY <1>2, <2>1, <2>2, <2>3, <3>1 DEF P!Bump, Updates, ScoresOf, Owing
    <3>3. QED BY <3>2 DEF P!Next
  <2>4. CASE h = g /\ SubmitFail(c)
    <3>1. lost'[g] = lost[g] + 1 /\ version' = version
      BY <1>1, <2>1, <2>4 DEF SubmitFail, TypeOK
    <3>2. P(g)!Lose(c)
      BY <1>2, <2>1, <2>2, <2>4, <3>1 DEF P!Lose, Updates, ScoresOf, Owing
    <3>3. QED BY <3>2 DEF P!Next
  <2>5. CASE h # g
    <3>1. version'[g] = version[g] /\ lost'[g] = lost[g] /\ Owing(g)' = Owing(g)
      BY <1>1, <1>2, <1>6, <2>1, <2>2, <2>5 DEF SubmitBump, SubmitFail, TypeOK
    <3>2. QED BY <1>2, <2>2, <3>1 DEF P!vars, Updates, ScoresOf, Owing
  <2>6. QED BY <1>6, <2>3, <2>4, <2>5
<1>7. QED
  BY <1>3, <1>4, <1>5, <1>6 DEF Submit, SubmitFail

(* Edits and submissions publish every commit once, after it, unless their   *)
(* request fails in between, for every game.                                 *)
THEOREM PublishesCommits == Spec => ImplementsPublishing
<1> DEFINE Publishes == \A g \in Games : [P(g)!Next]_(P(g)!vars)
<1>1. ASSUME IInv, [Next]_vars PROVE [Publishes]_vars
  <2>1. CASE UNCHANGED vars
    BY <2>1
  <2>2. CASE Next
    BY <1>1, <2>2, PublishStepAdmin, PublishStepClient DEF Next
  <2>3. QED BY <1>1, <2>1, <2>2
<1>2. QED BY <1>1, PublishInit, Invariance, PTL DEF Spec, ImplementsPublishing

(* The consequence, game by game: the version, the bumps that failed and     *)
(* those still owed add up to the commits.                                   *)
Balanced(g) == IsFiniteSet(Owing(g)) /\ P(g)!Accounted

LEMMA SameCardinality == \A g : \A S : P(g)!Cardinality(S) = Cardinality(S)
BY DEF P!Cardinality, P!IsFiniteSet, Cardinality, IsFiniteSet

LEMMA BalanceInit ==
  ASSUME Init, NEW g \in Games
  PROVE  Balanced(g)
<1>1. P(g)!Init
  BY PublishInit
<1>2. Owing(g) = {} /\ version[g] = 0 /\ lost[g] = 0
      /\ Cardinality(Updates(g)) + Cardinality(ScoresOf(g)) = 0
  BY <1>1 DEF P!Init, Owing, Updates, ScoresOf
<1>3. IsFiniteSet(Owing(g)) /\ P(g)!Cardinality(Owing(g)) = 0
  BY <1>2, FS_EmptySet, SameCardinality
<1>4. version[g] + lost[g] + P(g)!Cardinality(Owing(g))
        = Cardinality(Updates(g)) + Cardinality(ScoresOf(g))
  BY <1>2, <1>3
<1>5. QED BY <1>3, <1>4 DEF Balanced, Owing, Updates, ScoresOf, P!Accounted

LEMMA BalanceStep ==
  ASSUME IInv, NEW g \in Games, Balanced(g), [P(g)!Next]_(P(g)!vars)
  PROVE  Balanced(g)'
<1> DEFINE committed == Cardinality(Updates(g)) + Cardinality(ScoresOf(g))
           v == version[g]
           l == lost[g]
<1>1. /\ IsFiniteSet(Owing(g)) /\ Cardinality(Owing(g)) \in Nat
      /\ v \in Nat /\ l \in Nat /\ committed \in Nat
      /\ v + l + Cardinality(Owing(g)) = committed
  <2>1. committed \in Nat /\ v \in Nat /\ l \in Nat
    BY CountsFinite DEF IInv, TypeOK
  <2>2. v + l + P(g)!Cardinality(Owing(g)) = committed /\ IsFiniteSet(Owing(g))
    BY DEF Balanced, Owing, Updates, ScoresOf, P!Accounted
  <2> HIDE DEF v, l, committed
  <2>3. QED BY <2>1, <2>2, FS_CardinalityType, SameCardinality
<1>2. ASSUME IsFiniteSet(Owing(g))', v' + l' + Cardinality(Owing(g)') = committed'
      PROVE  Balanced(g)'
  <2>1. v' + l' + P(g)!Cardinality(Owing(g)') = committed'
    BY <1>2, SameCardinality
  <2>2. QED BY <1>2, <2>1 DEF Balanced, Owing, Updates, ScoresOf, P!Accounted
<1>3. ASSUME NEW w \in Admins \cup Clients, P(g)!Commit(w) PROVE Balanced(g)'
  <2>1. /\ w \notin Owing(g) /\ Owing(g)' = Owing(g) \cup {w}
        /\ committed' = committed + 1 /\ v' = v /\ l' = l
    BY <1>3 DEF P!Commit, Owing, Updates, ScoresOf
  <2>2. IsFiniteSet(Owing(g)') /\ Cardinality(Owing(g)') = Cardinality(Owing(g)) + 1
    BY <1>1, <2>1, FS_AddElement
  <2> HIDE DEF v, l, committed
  <2>3. v' + l' + Cardinality(Owing(g)') = committed'
    BY <1>1, <2>1, <2>2
  <2>4. QED BY <1>2, <2>2, <2>3
<1>4. ASSUME NEW w \in Admins \cup Clients, P(g)!Bump(w) \/ P(g)!Lose(w) PROVE Balanced(g)'
  <2>1. /\ w \in Owing(g) /\ Owing(g)' = Owing(g) \ {w} /\ committed' = committed
        /\ \/ v' = v + 1 /\ l' = l
           \/ v' = v /\ l' = l + 1
    BY <1>4 DEF P!Bump, P!Lose, Owing, Updates, ScoresOf
  <2>2. IsFiniteSet(Owing(g)') /\ Cardinality(Owing(g)') = Cardinality(Owing(g)) - 1
    BY <1>1, <2>1, FS_RemoveElement
  <2> HIDE DEF v, l, committed
  <2>3. v' + l' + Cardinality(Owing(g)') = committed'
    BY <1>1, <2>1, <2>2
  <2>4. QED BY <1>2, <2>2, <2>3
<1>5. ASSUME UNCHANGED P(g)!vars PROVE Balanced(g)'
  <2>1. Owing(g)' = Owing(g) /\ committed' = committed /\ v' = v /\ l' = l
    BY <1>5 DEF P!vars, Owing, Updates, ScoresOf
  <2> HIDE DEF v, l, committed
  <2>2. IsFiniteSet(Owing(g)') /\ v' + l' + Cardinality(Owing(g)') = committed'
    BY <1>1, <2>1
  <2>3. QED BY <1>2, <2>2
<1>6. QED BY <1>3, <1>4, <1>5 DEF P!Next

(* Whatever overlaps and whatever fails, the version of every game is the    *)
(* number of commits to it less the bumps that are owed or were lost.        *)
THEOREM CommitsAccounted == Spec => [](\A g \in Games : P(g)!Accounted)
<1> DEFINE AllBalanced == \A g \in Games : Balanced(g)
<1>1. Init => AllBalanced
  BY BalanceInit
<1>2. IInv /\ AllBalanced /\ [Next]_vars => AllBalanced'
  <2> SUFFICES ASSUME IInv, AllBalanced, [Next]_vars, NEW g \in Games PROVE Balanced(g)'
    OBVIOUS
  <2>1. CASE Next
    <3>1. [P(g)!Next]_(P(g)!vars)
      BY <2>1, PublishStepAdmin, PublishStepClient DEF Next
    <3>2. QED BY <3>1, BalanceStep
  <2>2. CASE UNCHANGED vars
    <3>1. UNCHANGED P(g)!vars
      BY <2>2 DEF vars, P!vars
    <3>2. QED BY <3>1, BalanceStep
  <2>3. QED BY <2>1, <2>2
<1>3. AllBalanced => \A g \in Games : P(g)!Accounted
  BY DEF Balanced
<1> HIDE DEF AllBalanced
<1>4. QED BY <1>1, <1>2, <1>3, Invariance, PTL DEF Spec
===============================================================================
