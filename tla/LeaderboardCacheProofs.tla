------------------------ MODULE LeaderboardCacheProofs ------------------------
(***************************************************************************)
(* Proofs about LeaderboardCache, for every set of readers, writers and    *)
(* queries and every bound.                                                *)
(*                                                                         *)
(* The argument: a result is stored under the version its reader read      *)
(* before the database.  As long as the version key is only ever           *)
(* incremented, a version that is still current when the result becomes    *)
(* reachable was current during the whole load, so no bump happened since: *)
(* whatever the result misses was committed after the count was taken and  *)
(* is still unbumped.                                                      *)
(***************************************************************************)
EXTENDS LeaderboardCache, TLAPS

USE BoundsAssumption, QueriesAssumption

ReaderType == [at : Stages, query : Queries, floor : Nat,
               settings : Nat, ver : Nat, total : Nat, rows : Nat]

(* The idle request is a request. *)
LEMMA NoRequestType == NoRequest \in ReaderType
BY DEF NoRequest, ReaderType, Stages

(* A reader that moves on to a well-typed request leaves the others alone. *)
LEMMA ReaderMoves ==
  ASSUME TypeOK, NEW r \in Readers, NEW new \in ReaderType,
         reader' = [reader EXCEPT ![r] = new]
  PROVE  reader' \in [Readers -> ReaderType]
BY DEF TypeOK, ReaderType

(* Type correctness, step by step. *)
LEMMA TypeInit == Init => TypeOK
BY NoRequestType DEF Init, TypeOK, ReaderType

LEMMA TypeStep == TypeOK /\ [Next]_vars => TypeOK'
<1> SUFFICES ASSUME TypeOK, [Next]_vars PROVE TypeOK'
  OBVIOUS
<1> USE DEF TypeOK
<1>1. ASSUME NEW w \in Writers, Write(w) PROVE TypeOK'
  <2>1. CASE CommitScores(w)
    BY <2>1 DEF CommitScores, Commit
  <2>2. CASE CommitGame(w)
    BY <2>2 DEF CommitGame, Commit
  <2>3. CASE Bump(w)
    BY <2>3 DEF Bump, database
  <2>4. CASE BumpLost(w)
    BY <2>4 DEF BumpLost, database
  <2>5. QED BY <1>1, <2>1, <2>2, <2>3, <2>4 DEF Write
<1>2. ASSUME NEW r \in Readers, NEW q \in Queries, Lookup(r, q) PROVE TypeOK'
  BY <1>2, NoRequestType DEF Lookup, database, writing, ReaderType, Stages
<1>3. ASSUME NEW r \in Readers, LookupNotFound(r) PROVE TypeOK'
  BY <1>3, NoRequestType DEF LookupNotFound, database, writing, ReaderType
<1>4. ASSUME NEW r \in Readers, Fill(r) PROVE TypeOK'
  <2>1. CASE current_game_version(r)
    <3> DEFINE new == [reader[r] EXCEPT !.at = "entry", !.ver = ver]
    <3>1. new \in ReaderType
      BY DEF ReaderType, Stages
    <3>2. reader' = [reader EXCEPT ![r] = new]
      BY <2>1 DEF current_game_version
    <3>3. reader' \in [Readers -> ReaderType]
      BY <3>1, <3>2, ReaderMoves
    <3>4. QED BY <2>1, <3>3 DEF current_game_version, database, writing, ReaderType
  <2>2. CASE GetHit(r)
    <3>1. PICK e \in cache :
            reader' = [reader EXCEPT ![r].at = "done", ![r].settings = e.settings,
                                     ![r].total = e.total, ![r].rows = e.rows]
      BY <2>2 DEF GetHit
    <3>2. e.settings \in Nat /\ e.total \in Nat /\ e.rows \in Nat
      BY <3>1 DEF Entries
    <3> DEFINE answer == [reader[r] EXCEPT !.at = "done", !.settings = e.settings,
                                           !.total = e.total, !.rows = e.rows]
    <3>3. reader' \in [Readers -> ReaderType]
      <4>1. answer \in ReaderType
        BY <3>2 DEF ReaderType, Stages
      <4>2. reader' = [reader EXCEPT ![r] = answer]
        BY <3>1
      <4>3. QED BY <4>1, <4>2 DEF ReaderType
    <3>4. QED BY <2>2, <3>3 DEF GetHit, database, writing, ReaderType
  <2>3. CASE GetMiss(r)
    BY <2>3 DEF GetMiss, database, writing, Stages
  <2>4. CASE LoadCount(r)
    <3> DEFINE new == [reader[r] EXCEPT !.at = "page", !.total = rev]
    <3>1. new \in ReaderType
      BY DEF ReaderType, Stages
    <3>2. reader' = [reader EXCEPT ![r] = new]
      BY <2>4 DEF LoadCount
    <3>3. reader' \in [Readers -> ReaderType]
      BY <3>1, <3>2, ReaderMoves
    <3>4. QED BY <2>4, <3>3 DEF LoadCount, database, writing, ReaderType
  <2>5. CASE LoadPage(r)
    <3> DEFINE new == [reader[r] EXCEPT !.at = "store", !.rows = rev]
    <3>1. new \in ReaderType
      BY DEF ReaderType, Stages
    <3>2. reader' = [reader EXCEPT ![r] = new]
      BY <2>5 DEF LoadPage
    <3>3. reader' \in [Readers -> ReaderType]
      BY <3>1, <3>2, ReaderMoves
    <3>4. QED BY <2>5, <3>3 DEF LoadPage, database, writing, ReaderType
  <2>6. CASE Store(r)
    <3>1. EntryOf(r) \in Entries
      BY DEF EntryOf, Entries
    <3>2. QED BY <2>6, <3>1 DEF Store, database, writing, Stages
  <2>7. QED BY <1>4, <2>1, <2>2, <2>3, <2>4, <2>5, <2>6 DEF Fill
<1>5. ASSUME NEW v, NEW q, Expire(v, q) PROVE TypeOK'
  BY <1>5 DEF Expire, database, writing
<1>6. CASE EvictVersion
  BY <1>6 DEF EvictVersion, database, writing
<1>7. CASE UNCHANGED vars
  BY <1>7 DEF vars
<1>8. QED BY <1>1, <1>2, <1>3, <1>4, <1>5, <1>6, <1>7 DEF Next

(* Every reachable state of the cache, its readers and its writers is well  *)
(* typed, whatever the bounds.                                              *)
THEOREM TypeCorrect == Spec => []TypeOK
BY TypeInit, TypeStep, PTL DEF Spec
-------------------------------------------------------------------------------
(* The inductive invariant. *)

LEMMA InvInit == Init => IInv
<1> SUFFICES ASSUME Init PROVE IInv
  OBVIOUS
<1>1. TypeOK
  BY TypeInit
<1>2. Unbumped = {}
  BY DEF Init, Unbumped
<1>3. \A r \in Readers : reader[r].at = "idle" /\ reader[r].floor = 0
  BY DEF Init, NoRequest
<1>4. OneAuthor /\ AckedIsBumped
  BY <1>2 DEF Init, OneAuthor, AckedIsBumped
<1>5. CountBeforePage
  BY <1>3 DEF Init, CountBeforePage
<1>6. Strong
  BY <1>3 DEF Init, Strong, VersionsPast, CoherentLoads, CoherentEntries, OwedEntries,
              OwedLoads, OwedAnswers, Versioned, Loaded
<1>7. QED BY <1>1, <1>4, <1>5, <1>6 DEF IInv

(* A commit adds its own revision to the unbumped ones, and nothing that was *)
(* loaded misses more than that.                                             *)
LEMMA CommitStep ==
  ASSUME IInv, NEW w \in Writers, Commit(w), game' \in [edited : Nat, archived : BOOLEAN]
  PROVE  IInv'
<1> USE DEF IInv, TypeOK
<1>1. /\ rev' = rev + 1
      /\ pending' = [pending EXCEPT ![w] = rev + 1]
      /\ pending[w] = 0
      /\ UNCHANGED <<lost, acked, ver, cache, evictions, reader>>
  BY DEF Commit
<1>2. TypeOK'
  BY <1>1
<1>3. Unbumped' = Unbumped \cup {rev + 1}
  <2>1. {pending'[x] : x \in Writers} \ {0} = ({pending[x] : x \in Writers} \ {0}) \cup {rev + 1}
    BY <1>1
  <2>2. QED BY <1>1, <2>1 DEF Unbumped
<1>4. OneAuthor'
  BY <1>1 DEF OneAuthor
<1>5. AckedIsBumped'
  BY <1>1, <1>3 DEF AckedIsBumped
<1>6. CountBeforePage'
  <2>1. \A e \in cache : e.total \in Nat /\ e.rows \in Nat
    BY DEF Entries
  <2>2. \A r \in Readers : reader[r].total \in Nat /\ reader[r].rows \in Nat
    OBVIOUS
  <2>3. QED BY <1>1, <2>1, <2>2 DEF CountBeforePage
<1>7. ASSUME NEW total \in Nat, MissesOnlyUnbumped(total) PROVE MissesOnlyUnbumped(total)'
  BY <1>1, <1>3, <1>7 DEF MissesOnlyUnbumped
<1>8. ASSUME evictions' = 0 PROVE Strong'
  <2>1. Strong
    BY <1>1, <1>8
  <2>2. CoherentEntries'
    <3>1. \A e \in cache : e.total \in Nat
      BY DEF Entries
    <3>2. QED BY <1>1, <1>7, <2>1, <3>1 DEF Strong, CoherentEntries
  <2>3. CoherentLoads'
    <3>1. \A r \in Readers : reader[r].total \in Nat
      OBVIOUS
    <3>2. QED BY <1>1, <1>7, <2>1, <3>1 DEF Strong, CoherentLoads, Loaded
  <2>4. QED
    BY <1>1, <2>1, <2>2, <2>3
    DEF Strong, VersionsPast, OwedEntries, OwedLoads, OwedAnswers, Versioned, Loaded
<1>9. QED BY <1>2, <1>4, <1>5, <1>6, <1>8

(* A bump makes the version one that nothing was stored or loaded under. *)
LEMMA BumpStep ==
  ASSUME IInv, NEW w \in Writers, Bump(w)
  PROVE  IInv'
<1> USE DEF IInv, TypeOK
<1>1. /\ pending[w] # 0
      /\ ver' = ver + 1
      /\ acked' = IF pending[w] > acked THEN pending[w] ELSE acked
      /\ pending' = [pending EXCEPT ![w] = 0]
      /\ UNCHANGED <<rev, game, lost, cache, evictions, reader>>
  BY DEF Bump, database
<1>2. TypeOK'
  BY <1>1
<1>3. Unbumped' = Unbumped \ {pending[w]}
  BY <1>1 DEF Unbumped, OneAuthor
<1>4. OneAuthor'
  BY <1>1 DEF OneAuthor
<1>5. AckedIsBumped'
  BY <1>1, <1>3 DEF AckedIsBumped, OneAuthor
<1>6. CountBeforePage'
  <2>1. acked <= acked'
    BY <1>1
  <2>2. \A r \in Readers : reader[r].floor \in Nat
    OBVIOUS
  <2>3. QED BY <1>1, <1>2, <2>1, <2>2 DEF CountBeforePage
<1>7. ASSUME evictions' = 0 PROVE Strong'
  <2>1. Strong
    BY <1>1, <1>7
  <2>2. \A e \in cache : e.ver \in Nat /\ e.ver < ver'
    BY <1>1, <2>1 DEF Strong, VersionsPast, Entries
  <2>3. \A r \in Readers : Versioned(r) => reader[r].ver \in Nat /\ reader[r].ver < ver'
    BY <1>1, <2>1 DEF Strong, VersionsPast
  <2>4. VersionsPast'
    BY <1>1, <2>2, <2>3 DEF VersionsPast, Versioned
  <2>5. CoherentEntries'
    BY <1>1, <2>2 DEF CoherentEntries
  <2>6. CoherentLoads'
    BY <1>1, <2>3 DEF CoherentLoads, Loaded, Versioned
  <2>7. QED
    BY <1>1, <2>1, <2>4, <2>5, <2>6
    DEF Strong, OwedEntries, OwedLoads, OwedAnswers, Versioned, Loaded
<1>8. QED BY <1>2, <1>4, <1>5, <1>6, <1>7

(* A lost bump leaves its revision unbumped. *)
LEMMA BumpLostStep ==
  ASSUME IInv, NEW w \in Writers, BumpLost(w)
  PROVE  IInv'
<1> USE DEF IInv, TypeOK
<1>1. /\ pending[w] # 0
      /\ lost' = lost \cup {pending[w]}
      /\ pending' = [pending EXCEPT ![w] = 0]
      /\ UNCHANGED <<rev, game, acked, ver, cache, evictions, reader>>
  BY DEF BumpLost, database
<1>2. TypeOK'
  BY <1>1
<1>3. Unbumped' = Unbumped
  BY <1>1 DEF Unbumped
<1>4. OneAuthor'
  BY <1>1 DEF OneAuthor
<1>5. AckedIsBumped' /\ CountBeforePage'
  BY <1>1, <1>3 DEF AckedIsBumped, CountBeforePage
<1>6. Strong => Strong'
  BY <1>1, <1>3
  DEF Strong, VersionsPast, CoherentEntries, CoherentLoads, OwedEntries, OwedLoads,
      OwedAnswers, Versioned, Loaded, MissesOnlyUnbumped
<1>7. QED BY <1>1, <1>2, <1>4, <1>5, <1>6
(* A step of a reader or of Redis leaves the account of the revisions alone. *)
LEMMA ReaderFrame ==
  ASSUME IInv, UNCHANGED <<rev, pending, lost, acked>>
  PROVE  /\ OneAuthor' /\ AckedIsBumped'
         /\ Unbumped' = Unbumped
         /\ \A total : MissesOnlyUnbumped(total) <=> MissesOnlyUnbumped(total)'
BY DEF IInv, OneAuthor, AckedIsBumped, Unbumped, MissesOnlyUnbumped

(* The types of a request and of an entry, field by field. *)
LEMMA Fields ==
  ASSUME TypeOK
  PROVE  /\ \A r \in Readers : /\ reader[r].floor \in Nat /\ reader[r].ver \in Nat
                               /\ reader[r].total \in Nat /\ reader[r].rows \in Nat
         /\ \A e \in cache : e.ver \in Nat /\ e.total \in Nat /\ e.rows \in Nat
         /\ rev \in Nat /\ acked \in Nat /\ ver \in Nat
BY DEF TypeOK, Entries

(* A request begins: it is owed what was acknowledged, and holds no version. *)
LEMMA LookupStep ==
  ASSUME IInv, NEW r \in Readers, NEW q \in Queries, Lookup(r, q) \/ LookupNotFound(r), TypeOK'
  PROVE  IInv'
<1>1. /\ UNCHANGED <<rev, pending, lost, acked, ver, cache, evictions>>
      /\ \A x \in Readers \ {r} : reader'[x] = reader[x]
      /\ reader'[r].at \in {"idle", "version"}
      /\ reader'[r].floor \in {0, acked}
  <2>1. PICK new \in {NoRequest, [NoRequest EXCEPT !.at = "version", !.query = q, !.floor = acked,
                                                   !.settings = game.edited]} :
          /\ reader' = [reader EXCEPT ![r] = new]
          /\ UNCHANGED <<rev, pending, lost, acked, ver, cache, evictions>>
    BY DEF Lookup, LookupNotFound, database, writing
  <2>2. new.at \in {"idle", "version"} /\ new.floor \in {0, acked}
    <3>1. NoRequest.at = "idle" /\ NoRequest.floor = 0
      BY DEF NoRequest
    <3>2. [NoRequest EXCEPT !.at = "version", !.query = q, !.floor = acked,
                            !.settings = game.edited].at = "version"
      BY DEF NoRequest
    <3>3. [NoRequest EXCEPT !.at = "version", !.query = q, !.floor = acked,
                            !.settings = game.edited].floor = acked
      BY DEF NoRequest
    <3>4. QED BY <2>1, <3>1, <3>2, <3>3
  <2>3. QED BY <2>1, <2>2 DEF IInv, TypeOK
<1>2. OneAuthor' /\ AckedIsBumped' /\ \A t : MissesOnlyUnbumped(t) <=> MissesOnlyUnbumped(t)'
  BY <1>1, ReaderFrame
<1>3. CountBeforePage'
  BY <1>1, Fields DEF IInv, CountBeforePage
<1>4. Strong => Strong'
  BY <1>1, <1>2
  DEF Strong, VersionsPast, CoherentEntries, CoherentLoads, OwedEntries, OwedLoads,
      OwedAnswers, Versioned, Loaded
<1>5. QED BY <1>1, <1>2, <1>3, <1>4 DEF IInv

(* The version is read: whatever is stored or being loaded under it misses   *)
(* only what is unbumped, and what is acknowledged is not.                   *)
LEMMA VersionStep ==
  ASSUME IInv, NEW r \in Readers, current_game_version(r), TypeOK'
  PROVE  IInv'
<1>1. /\ UNCHANGED <<rev, pending, lost, acked, ver, cache, evictions>>
      /\ \A x \in Readers \ {r} : reader'[x] = reader[x]
      /\ reader'[r].at = "entry" /\ reader'[r].ver = ver
      /\ reader'[r].floor = reader[r].floor
  BY DEF IInv, TypeOK, current_game_version, database, writing
<1>2. OneAuthor' /\ AckedIsBumped' /\ \A t : MissesOnlyUnbumped(t) <=> MissesOnlyUnbumped(t)'
  BY <1>1, ReaderFrame
<1>3. CountBeforePage'
  BY <1>1, Fields DEF IInv, CountBeforePage
<1>4. ASSUME NEW total \in Nat, MissesOnlyUnbumped(total) PROVE reader[r].floor <= total
  <2>1. acked \in Nat /\ acked <= rev /\ acked \notin Unbumped /\ reader[r].floor <= acked
    BY Fields DEF IInv, AckedIsBumped, CountBeforePage
  <2>2. ~(acked \in total + 1 .. rev)
    BY <1>4, <2>1 DEF MissesOnlyUnbumped
  <2>3. QED BY <2>1, <2>2, Fields DEF IInv
<1>5. ASSUME Strong PROVE Strong'
  <2>1. VersionsPast' /\ CoherentEntries' /\ CoherentLoads' /\ OwedAnswers'
    BY <1>1, <1>2, <1>5, Fields
    DEF IInv, Strong, VersionsPast, CoherentEntries, CoherentLoads, OwedAnswers, Versioned, Loaded
  <2>2. OwedEntries'
    <3>1. \A e \in cache : e.ver = ver => reader[r].floor <= e.total
      BY <1>4, <1>5, Fields DEF IInv, Strong, CoherentEntries
    <3>2. QED BY <1>1, <1>5, <3>1 DEF Strong, OwedEntries, Versioned
  <2>3. OwedLoads'
    <3>1. \A x \in Readers : (Loaded(x) /\ reader[x].ver = ver) => reader[r].floor <= reader[x].total
      BY <1>4, <1>5, Fields DEF IInv, Strong, CoherentLoads
    <3>2. QED BY <1>1, <1>5, <3>1 DEF Strong, OwedLoads, Versioned, Loaded
  <2>4. QED BY <2>1, <2>2, <2>3 DEF Strong
<1>6. QED BY <1>1, <1>2, <1>3, <1>5 DEF IInv

(* A hit answers with an entry that shows what the reader is owed. *)
LEMMA HitStep ==
  ASSUME IInv, NEW r \in Readers, GetHit(r), TypeOK'
  PROVE  IInv'
<1>1. PICK e \in cache :
        /\ reader[r].at = "entry" /\ e.ver = reader[r].ver
        /\ UNCHANGED <<rev, pending, lost, acked, ver, cache, evictions>>
        /\ \A x \in Readers \ {r} : reader'[x] = reader[x]
        /\ reader'[r].at = "done" /\ reader'[r].floor = reader[r].floor
        /\ reader'[r].total = e.total /\ reader'[r].rows = e.rows
  BY DEF IInv, TypeOK, GetHit, EntryFor, database, writing
<1>2. OneAuthor' /\ AckedIsBumped' /\ \A t : MissesOnlyUnbumped(t) <=> MissesOnlyUnbumped(t)'
  BY <1>1, ReaderFrame
<1>3. CountBeforePage'
  BY <1>1, Fields DEF IInv, CountBeforePage
<1>4. Strong => Strong'
  BY <1>1, <1>2
  DEF Strong, VersionsPast, CoherentEntries, CoherentLoads, OwedEntries, OwedLoads,
      OwedAnswers, Versioned, Loaded
<1>5. QED BY <1>1, <1>2, <1>3, <1>4 DEF IInv

LEMMA MissStep ==
  ASSUME IInv, NEW r \in Readers, GetMiss(r), TypeOK'
  PROVE  IInv'
<1>1. /\ UNCHANGED <<rev, pending, lost, acked, ver, cache, evictions>>
      /\ \A x \in Readers \ {r} : reader'[x] = reader[x]
      /\ reader[r].at = "entry" /\ reader'[r].at = "count"
      /\ reader'[r].ver = reader[r].ver /\ reader'[r].floor = reader[r].floor
  BY DEF IInv, TypeOK, GetMiss, database, writing
<1>2. OneAuthor' /\ AckedIsBumped' /\ \A t : MissesOnlyUnbumped(t) <=> MissesOnlyUnbumped(t)'
  BY <1>1, ReaderFrame
<1>3. CountBeforePage'
  BY <1>1, Fields DEF IInv, CountBeforePage
<1>4. Strong => Strong'
  BY <1>1, <1>2
  DEF Strong, VersionsPast, CoherentEntries, CoherentLoads, OwedEntries, OwedLoads,
      OwedAnswers, Versioned, Loaded
<1>5. QED BY <1>1, <1>2, <1>3, <1>4 DEF IInv

(* The count reads the current revision, so it misses nothing and owes nobody. *)
LEMMA CountStep ==
  ASSUME IInv, NEW r \in Readers, LoadCount(r), TypeOK'
  PROVE  IInv'
<1>1. /\ UNCHANGED <<rev, pending, lost, acked, ver, cache, evictions>>
      /\ \A x \in Readers \ {r} : reader'[x] = reader[x]
      /\ reader[r].at = "count" /\ reader'[r].at = "page" /\ reader'[r].total = rev
      /\ reader'[r].ver = reader[r].ver /\ reader'[r].floor = reader[r].floor
  BY DEF IInv, TypeOK, LoadCount, database, writing
<1>2. OneAuthor' /\ AckedIsBumped' /\ \A t : MissesOnlyUnbumped(t) <=> MissesOnlyUnbumped(t)'
  BY <1>1, ReaderFrame
<1>3. CountBeforePage'
  BY <1>1, Fields DEF IInv, CountBeforePage
<1>4. MissesOnlyUnbumped(rev)
  BY Fields DEF IInv, MissesOnlyUnbumped
<1>5. \A x \in Readers : reader[x].floor <= rev
  BY Fields DEF IInv, AckedIsBumped, CountBeforePage
<1>6. ASSUME Strong PROVE Strong'
  <2>1. VersionsPast' /\ CoherentEntries' /\ OwedEntries' /\ OwedAnswers'
    BY <1>1, <1>2, <1>6
    DEF Strong, VersionsPast, CoherentEntries, OwedEntries, OwedAnswers, Versioned
  <2>2. CoherentLoads'
    BY <1>1, <1>2, <1>4, <1>6 DEF Strong, CoherentLoads, Loaded
  <2>3. OwedLoads'
    BY <1>1, <1>5, <1>6 DEF Strong, OwedLoads, Versioned, Loaded
  <2>4. QED BY <2>1, <2>2, <2>3 DEF Strong
<1>7. QED BY <1>1, <1>2, <1>3, <1>6 DEF IInv

LEMMA PageStep ==
  ASSUME IInv, NEW r \in Readers, LoadPage(r), TypeOK'
  PROVE  IInv'
<1>1. /\ UNCHANGED <<rev, pending, lost, acked, ver, cache, evictions>>
      /\ \A x \in Readers \ {r} : reader'[x] = reader[x]
      /\ reader[r].at = "page" /\ reader'[r].at = "store" /\ reader'[r].rows = rev
      /\ reader'[r].ver = reader[r].ver /\ reader'[r].floor = reader[r].floor
      /\ reader'[r].total = reader[r].total
  BY DEF IInv, TypeOK, LoadPage, database, writing
<1>2. OneAuthor' /\ AckedIsBumped' /\ \A t : MissesOnlyUnbumped(t) <=> MissesOnlyUnbumped(t)'
  BY <1>1, ReaderFrame
<1>3. CountBeforePage'
  BY <1>1, Fields DEF IInv, CountBeforePage
<1>4. Strong => Strong'
  BY <1>1, <1>2
  DEF Strong, VersionsPast, CoherentEntries, CoherentLoads, OwedEntries, OwedLoads,
      OwedAnswers, Versioned, Loaded
<1>5. QED BY <1>1, <1>2, <1>3, <1>4 DEF IInv

(* The result becomes an entry exactly as coherent as it was when loaded. *)
LEMMA StoreStep ==
  ASSUME IInv, NEW r \in Readers, Store(r), TypeOK'
  PROVE  IInv'
<1> DEFINE e == EntryOf(r)
<1>1. /\ UNCHANGED <<rev, pending, lost, acked, ver, evictions>>
      /\ cache' \subseteq cache \cup {e}
      /\ \A x \in Readers \ {r} : reader'[x] = reader[x]
      /\ reader[r].at = "store" /\ reader'[r].at = "done"
      /\ reader'[r].rows = reader[r].rows /\ reader'[r].floor = reader[r].floor
      /\ reader'[r].total = reader[r].total
      /\ e.ver = reader[r].ver /\ e.total = reader[r].total /\ e.rows = reader[r].rows
  BY DEF IInv, TypeOK, Store, EntryOf, database, writing
<1> HIDE DEF e
<1>2. OneAuthor' /\ AckedIsBumped' /\ \A t : MissesOnlyUnbumped(t) <=> MissesOnlyUnbumped(t)'
  BY <1>1, ReaderFrame
<1>3. CountBeforePage'
  BY <1>1, Fields DEF IInv, CountBeforePage
<1>4. ASSUME Strong PROVE Strong'
  <2> USE DEF Strong, Versioned, Loaded
  <2>1. VersionsPast'
    BY <1>1, <1>4 DEF VersionsPast
  <2>2. CoherentEntries' /\ CoherentLoads'
    BY <1>1, <1>2, <1>4 DEF CoherentEntries, CoherentLoads
  <2>3. OwedEntries'
    BY <1>1, <1>4 DEF OwedEntries, OwedLoads
  <2>4. OwedLoads'
    BY <1>1, <1>4 DEF OwedLoads
  <2>5. OwedAnswers'
    BY <1>1, <1>4 DEF OwedAnswers, OwedLoads
  <2>6. QED BY <2>1, <2>2, <2>3, <2>4, <2>5
<1>5. QED BY <1>1, <1>2, <1>3, <1>4 DEF IInv

(* Fewer entries promise less; a lost version key ends the promise. *)
LEMMA RedisStep ==
  ASSUME IInv, TypeOK', (\E v, q : Expire(v, q)) \/ EvictVersion
  PROVE  IInv'
<1>1. CASE \E v, q : Expire(v, q)
  <2>1. /\ UNCHANGED <<rev, pending, lost, acked, ver, evictions, reader>>
        /\ cache' \subseteq cache
    BY <1>1 DEF Expire, database, writing
  <2>2. OneAuthor' /\ AckedIsBumped' /\ \A t : MissesOnlyUnbumped(t) <=> MissesOnlyUnbumped(t)'
    BY <2>1, ReaderFrame
  <2>3. CountBeforePage' /\ (Strong => Strong')
    BY <2>1, <2>2
    DEF IInv, CountBeforePage, Strong, VersionsPast, CoherentEntries, CoherentLoads,
        OwedEntries, OwedLoads, OwedAnswers, Versioned, Loaded
  <2>4. QED BY <2>1, <2>2, <2>3 DEF IInv
<1>2. CASE EvictVersion
  <2>1. /\ UNCHANGED <<rev, pending, lost, acked, cache, reader>>
        /\ evictions' = evictions + 1
    BY <1>2 DEF EvictVersion, database, writing
  <2>2. OneAuthor' /\ AckedIsBumped'
    BY <2>1, ReaderFrame
  <2>3. CountBeforePage' /\ evictions' # 0
    BY <2>1 DEF IInv, TypeOK, CountBeforePage
  <2>4. QED BY <2>2, <2>3 DEF IInv
<1>3. QED BY <1>1, <1>2

LEMMA InvStep == IInv /\ [Next]_vars => IInv'
<1> SUFFICES ASSUME IInv, [Next]_vars PROVE IInv'
  OBVIOUS
<1>1. TypeOK'
  BY TypeStep DEF IInv
<1>2. ASSUME NEW w \in Writers, Write(w) PROVE IInv'
  <2>1. CASE CommitScores(w)
    BY <2>1, CommitStep DEF CommitScores, IInv, TypeOK
  <2>2. CASE CommitGame(w)
    <3>1. Commit(w) /\ game' \in [edited : Nat, archived : BOOLEAN]
      BY <2>2 DEF CommitGame, IInv, TypeOK
    <3>2. QED BY <3>1, CommitStep
  <2>3. QED BY <1>2, <2>1, <2>2, BumpStep, BumpLostStep DEF Write
<1>3. ASSUME NEW r \in Readers, (\E q \in Queries : Lookup(r, q)) \/ LookupNotFound(r)
      PROVE IInv'
  BY <1>1, <1>3, LookupStep
<1>4. ASSUME NEW r \in Readers, Fill(r) PROVE IInv'
  BY <1>1, <1>4, VersionStep, HitStep, MissStep, CountStep, PageStep, StoreStep DEF Fill
<1>5. CASE (\E v \in 0 .. MaxRev, q \in Queries : Expire(v, q)) \/ EvictVersion
  BY <1>1, <1>5, RedisStep
<1>6. CASE UNCHANGED vars
  BY <1>6
  DEF vars, IInv, TypeOK, OneAuthor, AckedIsBumped, CountBeforePage, Strong, VersionsPast,
      CoherentEntries, CoherentLoads, OwedEntries, OwedLoads, OwedAnswers, Versioned, Loaded,
      MissesOnlyUnbumped, Unbumped
<1>7. QED BY <1>2, <1>3, <1>4, <1>5, <1>6 DEF Next

(* The inductive invariant holds in every reachable state. *)
THEOREM Invariance == Spec => []IInv
BY InvInit, InvStep, PTL DEF Spec

-------------------------------------------------------------------------------
(* What follows from it. *)

(* Whatever a reachable result misses is unbumped, for any number of threads, *)
(* queries and changes, while Redis keeps the version key.                    *)
THEOREM CacheCoherent == Spec => []Coherent
<1>1. IInv => Coherent
  BY DEF IInv, Strong, CoherentEntries, MissesOnlyUnbumped, Coherent
<1>2. QED BY <1>1, Invariance, PTL

(* An answer shows every change acknowledged before its request began.        *)
THEOREM AnswersFresh == Spec => []ReadsAreFresh
<1>1. IInv => ReadsAreFresh
  BY DEF IInv, Strong, OwedAnswers, CountBeforePage, ReadsAreFresh, Fresh
<1>2. QED BY <1>1, Invariance, PTL

(* A result whose count and page disagree is unreachable once every commit    *)
(* has been bumped.                                                           *)
THEOREM TornUnreachable == Spec => []TornResultsUnreachable
<1>1. ASSUME IInv PROVE TornResultsUnreachable
  <2> SUFFICES ASSUME evictions = 0, lost = {}, \A w \in Writers : pending[w] = 0,
                      NEW e \in cache, e.ver = ver
               PROVE  e.total = e.rows
    BY DEF TornResultsUnreachable
  <2>1. MissesOnlyUnbumped(e.total) /\ e.total <= e.rows /\ e.rows <= rev
    BY <1>1 DEF IInv, Strong, CoherentEntries, CountBeforePage
  <2>2. Unbumped = {}
    BY DEF Unbumped
  <2>3. ~(rev \in e.total + 1 .. rev)
    BY <2>1, <2>2 DEF MissesOnlyUnbumped
  <2>4. QED BY <1>1, <2>1, <2>3, Fields DEF IInv
<1>2. QED BY <1>1, Invariance, PTL
-------------------------------------------------------------------------------
(* Refinement: with a version key that is never lost, LeaderboardCache       *)
(* implements FreshReads.                                                    *)

LEMMA EvictionsBounded == Spec => [](evictions <= MaxEvict)
<1>1. Init => evictions <= MaxEvict
  BY DEF Init
<1>2. TypeOK /\ evictions <= MaxEvict /\ [Next]_vars => (evictions <= MaxEvict)'
  <2> SUFFICES ASSUME TypeOK, evictions <= MaxEvict, [Next]_vars PROVE (evictions <= MaxEvict)'
    OBVIOUS
  <2>1. CASE EvictVersion
    BY <2>1 DEF EvictVersion, TypeOK
  <2>2. CASE evictions' = evictions
    BY <2>2
  <2>3. EvictVersion \/ evictions' = evictions
    BY DEF Next, vars, Write, CommitScores, CommitGame, Commit, Bump, BumpLost, Lookup,
           LookupNotFound, Fill, current_game_version, GetHit, GetMiss, LoadCount, LoadPage,
           Store, Expire
  <2>4. QED BY <2>1, <2>2, <2>3
<1>3. QED BY <1>1, <1>2, TypeCorrect, PTL DEF Spec

readBar == [r \in Readers |-> ReadOf(reader[r])]

LEMMA MapInit == Init => Promise!Init
<1>1. NoRequest.at = "idle"
  BY DEF NoRequest
<1>2. QED BY <1>1 DEF Init, Promise!Init, Promise!Idle, ReadOf

(* A step that changes one request changes one abstract read. *)
LEMMA MapOne ==
  ASSUME TypeOK, NEW r \in Readers, \A x \in Readers \ {r} : reader'[x] = reader[x]
  PROVE  readBar' = [readBar EXCEPT ![r] = ReadOf(reader'[r])]
BY DEF readBar

LEMMA MapStutter ==
  ASSUME TypeOK, NEW r \in Readers, UNCHANGED <<rev, acked>>,
         \A x \in Readers \ {r} : reader'[x] = reader[x],
         reader'[r].floor = reader[r].floor,
         reader[r].at \notin {"idle", "done"}, reader'[r].at \notin {"idle", "done"}
  PROVE  UNCHANGED Promise!vars
<1>1. ReadOf(reader'[r]) = ReadOf(reader[r])
  BY DEF ReadOf
<1>2. readBar' = readBar
  BY <1>1, MapOne DEF readBar
<1>3. QED BY <1>2 DEF Promise!vars, readBar

LEMMA MapAnswer ==
  ASSUME IInv, IInv', evictions' = 0, NEW r \in Readers, UNCHANGED <<rev, acked>>,
         \A x \in Readers \ {r} : reader'[x] = reader[x],
         reader'[r].floor = reader[r].floor,
         reader[r].at \notin {"idle", "done"}, reader'[r].at = "done"
  PROVE  Promise!Next
<1>1. /\ reader'[r].total \in reader[r].floor .. rev
      /\ reader'[r].rows \in reader[r].floor .. rev
      /\ reader'[r].total <= reader'[r].rows
  BY Fields DEF IInv, TypeOK, Strong, OwedAnswers, CountBeforePage
<1>2. readBar[r] = [state |-> "waiting", floor |-> reader[r].floor]
  BY DEF readBar, ReadOf
<1>3. ReadOf(reader'[r]) = [state |-> "answered", floor |-> reader[r].floor,
                            total |-> reader'[r].total, rows |-> reader'[r].rows]
  BY DEF ReadOf
<1>4. Promise!Answer(r)
  <2>1. readBar' = [readBar EXCEPT ![r] = ReadOf(reader'[r])]
    BY MapOne DEF IInv
  <2>2. ReadOf(reader'[r]) =
          Promise!Answered(readBar[r].floor, reader'[r].total, reader'[r].rows)
    BY <1>2, <1>3 DEF Promise!Answered
  <2>3. readBar[r].state = "waiting" /\ readBar[r].floor = reader[r].floor
    BY <1>2
  <2>4. \E total, rows \in readBar[r].floor .. rev :
          /\ total <= rows
          /\ readBar' = [readBar EXCEPT ![r] = Promise!Answered(readBar[r].floor, total, rows)]
    <3> HIDE DEF readBar
    <3>1. readBar' = [readBar EXCEPT ![r] =
            Promise!Answered(readBar[r].floor, reader'[r].total, reader'[r].rows)]
      BY <2>1, <2>2
    <3>2. QED BY <1>1, <2>3, <3>1
  <2>5. UNCHANGED <<rev, acked>>
    OBVIOUS
  <2>6. QED BY <2>3, <2>4, <2>5 DEF Promise!Answer, readBar
<1>5. QED BY <1>4 DEF Promise!Next

LEMMA MapStep ==
  ASSUME IInv, IInv', evictions = 0, evictions' = 0, [Next]_vars
  PROVE  [Promise!Next]_(Promise!vars)
<1> USE DEF IInv
<1>1. ASSUME NEW w \in Writers, Write(w) PROVE [Promise!Next]_(Promise!vars)
  <2>1. CASE Commit(w)
    BY <2>1 DEF Commit, Promise!Next, Promise!Commit
  <2>2. CASE Bump(w)
    <3>1. pending[w] \in 1 .. rev
      BY <2>2 DEF Bump, TypeOK, OneAuthor
    <3>2. Promise!Acknowledge(pending[w])
      BY <2>2 DEF Bump, database, Promise!Acknowledge
    <3>3. QED BY <3>1, <3>2 DEF Promise!Next
  <2>3. CASE BumpLost(w)
    BY <2>3 DEF BumpLost, database, Promise!vars
  <2>4. QED BY <1>1, <2>1, <2>2, <2>3 DEF Write, CommitScores, CommitGame
<1>2. ASSUME NEW r \in Readers, NEW q \in Queries, Lookup(r, q)
      PROVE  [Promise!Next]_(Promise!vars)
  <2> DEFINE new == [NoRequest EXCEPT !.at = "version", !.query = q, !.floor = acked,
                                      !.settings = game.edited]
  <2>1. new.at = "version" /\ new.floor = acked
    BY DEF NoRequest
  <2>2. /\ UNCHANGED <<rev, acked>>
        /\ reader[r].at \in {"idle", "done"}
        /\ reader'[r] = new
        /\ \A x \in Readers \ {r} : reader'[x] = reader[x]
    BY <1>2 DEF Lookup, database, writing, TypeOK
  <2> HIDE DEF new
  <2>3. ReadOf(reader'[r]) = [state |-> "waiting", floor |-> acked]
    BY <2>1, <2>2 DEF ReadOf
  <2>4. readBar[r].state # "waiting"
    BY <2>2 DEF readBar, ReadOf
  <2>5. Promise!Begin(r)
    BY <2>2, <2>3, <2>4, MapOne DEF Promise!Begin, Promise!Waiting, readBar
  <2>6. QED BY <2>5 DEF Promise!Next
<1>3. ASSUME NEW r \in Readers, LookupNotFound(r) PROVE [Promise!Next]_(Promise!vars)
  <2>1. /\ UNCHANGED <<rev, acked>>
        /\ reader[r].at \in {"idle", "done"}
        /\ reader'[r] = NoRequest
        /\ \A x \in Readers \ {r} : reader'[x] = reader[x]
    BY <1>3 DEF LookupNotFound, database, writing, TypeOK
  <2>2. ReadOf(reader'[r]) = [state |-> "idle"]
    BY <2>1 DEF ReadOf, NoRequest
  <2>3. readBar[r].state # "waiting"
    BY <2>1 DEF readBar, ReadOf
  <2>4. Promise!Refuse(r)
    BY <2>1, <2>2, <2>3, MapOne DEF Promise!Refuse, Promise!Idle, readBar
  <2>5. QED BY <2>4 DEF Promise!Next
<1>4. ASSUME NEW r \in Readers, Fill(r) PROVE [Promise!Next]_(Promise!vars)
  <2>1. CASE current_game_version(r)
    BY <2>1, MapStutter DEF current_game_version, database, writing, TypeOK
  <2>2. CASE GetHit(r)
    <3>1. /\ UNCHANGED <<rev, acked>>
          /\ \A x \in Readers \ {r} : reader'[x] = reader[x]
          /\ reader'[r].floor = reader[r].floor
          /\ reader[r].at = "entry" /\ reader'[r].at = "done"
      BY <2>2 DEF GetHit, database, writing, TypeOK
    <3>2. QED BY <3>1, MapAnswer
  <2>3. CASE GetMiss(r)
    BY <2>3, MapStutter DEF GetMiss, database, writing, TypeOK
  <2>4. CASE LoadCount(r)
    BY <2>4, MapStutter DEF LoadCount, database, writing, TypeOK
  <2>5. CASE LoadPage(r)
    BY <2>5, MapStutter DEF LoadPage, database, writing, TypeOK
  <2>6. CASE Store(r)
    <3>1. /\ UNCHANGED <<rev, acked>>
          /\ \A x \in Readers \ {r} : reader'[x] = reader[x]
          /\ reader'[r].floor = reader[r].floor
          /\ reader[r].at = "store" /\ reader'[r].at = "done"
      BY <2>6 DEF Store, database, writing, TypeOK
    <3>2. QED BY <3>1, MapAnswer
  <2>7. QED BY <1>4, <2>1, <2>2, <2>3, <2>4, <2>5, <2>6 DEF Fill
<1>5. CASE (\E v \in 0 .. MaxRev, q \in Queries : Expire(v, q)) \/ EvictVersion
  BY <1>5 DEF Expire, EvictVersion, database, writing, Promise!vars
<1>6. CASE UNCHANGED vars
  BY <1>6 DEF vars, Promise!vars
<1>7. QED BY <1>1, <1>2, <1>3, <1>4, <1>5, <1>6 DEF Next

(* Every answer of the cached read path is one an uncached read could give,  *)
(* no older than any change acknowledged before it, for any number of        *)
(* threads, provided Redis never loses the version key.                      *)
THEOREM Refinement == ASSUME MaxEvict = 0 PROVE Spec => ImplementsFreshReads
<1>1. TypeOK /\ evictions <= MaxEvict => evictions = 0
  BY DEF TypeOK
<1>2. IInv /\ IInv' /\ evictions = 0 /\ (evictions = 0)' /\ [Next]_vars
        => [Promise!Next]_(Promise!vars)
  BY MapStep
<1>3. QED
  BY <1>1, <1>2, MapInit, TypeCorrect, EvictionsBounded, Invariance, PTL
  DEF Spec, ImplementsFreshReads, Promise!Spec
===============================================================================
