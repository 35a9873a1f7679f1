-------------------------------- MODULE Sanity --------------------------------
(***************************************************************************)
(* sanitize_submission (app/services/sanity.py): the checks of a           *)
(* submission against the game row the request loaded, in their order, and *)
(* beside them the rules that docs/api.md and docs/data_models.md state.   *)
(*                                                                         *)
(* An optional value (a nullable column, an omitted field) is a set of at  *)
(* most one element.  Strings are classes: a seed is "clean", "newline" (a *)
(* clean one with a line feed at its end) or "bad"; a string is longer     *)
(* than 256 or not, a key longer than 64 or not.  sub is the request's     *)
(* payload with the time its token was issued and the time it is checked.  *)
(***************************************************************************)
EXTENDS PlayerNames

CONSTANTS
  Skew,      \* MAX_PLAYED_AT_SKEW_SECONDS
  MaxKeys,   \* CUSTOM_DATA_MAX_KEYS
  Keys,      \* keys of custom_data and of the schemas
  LongKeys   \* those of more than 64 characters

ASSUME SanityAssumption == Skew \in Nat /\ MaxKeys \in Nat /\ LongKeys \subseteq Keys

(* A JSON object, as the sequence of its entries, has each key once. *)
Objects(Entries) ==
  {d \in Seq(Entries) : \A i, j \in DOMAIN d : d[i].key = d[j].key => i = j}

Item == [key : Keys, value : {"str", "int", "float", "bool", "list"}, long : BOOLEAN]
Field == [key : Keys, type : STRING, required : BOOLEAN]
Payload == Objects(Item)
Schema == Objects(Field)

AtMostOne(S) == \A x, y \in S : x = y
Submission ==
  {sub \in [player_name : Names, score : Int,
             played_at : SUBSET [naive : BOOLEAN, at : Nat],
             seed : SUBSET {"clean", "newline", "bad"},
             custom_data : SUBSET Payload,
             issued : Nat, now : Nat] :
     AtMostOne(sub.played_at) /\ AtMostOne(sub.seed) /\ AtMostOne(sub.custom_data)}

(* Fault: the upper bound is not checked. *)
ScoreInBounds_NoMax(game, score) == \A lo \in game.min : score >= lo

ScoreInBounds(game, score) ==
  (\A lo \in game.min : score >= lo) /\ (\A hi \in game.max : score <= hi)

PlayedAtOk(sub, played) ==
  ~played.naive /\ played.at <= sub.now + Skew /\ played.at >= sub.issued - Skew

(* SEED_RE ends with $, which also matches before a line feed at the end. *)
SeedOk(seed) == seed \in {"clean", "newline"}

(* isinstance(value, CUSTOM_FIELD_TYPES[type]): in Python a bool is an int;  *)
(* a type the schema made up constrains nothing.                             *)
TypeMatches(type, value) ==
  CASE type = "string" -> value = "str"
    [] type = "integer" -> value \in {"int", "bool"}
    [] type = "number" -> value \in {"int", "float", "bool"}
    [] type = "boolean" -> value = "bool"
    [] OTHER -> TRUE

(* A schema is the sequence of the fields it declares.  The form accepts any *)
(* JSON object: a declaration need not be an object itself, and field.get    *)
(* then raises (Malformed: neither an object nor null).                      *)
Malformed(field) == field.type = "malformed"

KeyTooLong(item) == item.key \in LongKeys
ValueTooLong(item) == item.value = "str" /\ item.long

ItemVerdict(schema, item) ==
  LET declared == {i \in DOMAIN schema : schema[i].key = item.key} IN
  CASE KeyTooLong(item) \/ ValueTooLong(item) -> "invalid_custom_data"
    [] schema # <<>> /\ declared = {} -> "invalid_custom_data"
    [] \E i \in declared : Malformed(schema[i]) -> "error"
    [] \E i \in declared : ~TypeMatches(schema[i].type, item.value) -> "invalid_custom_data"
    [] OTHER -> "ok"

FieldVerdict(payload, field) ==
  CASE Malformed(field) -> "error"
    [] field.required /\ \A i \in DOMAIN payload : payload[i].key # field.key
         -> "invalid_custom_data"
    [] OTHER -> "ok"

(* The first check that does not pass decides. *)
FirstRefusal(verdicts) ==
  LET refused == {i \in DOMAIN verdicts : verdicts[i] # "ok"} IN
  IF refused = {} THEN "ok" ELSE verdicts[Min(refused)]

(* Every key and value in its order, then every declared field. *)
CustomVerdict(schema, payload) ==
  IF Len(payload) > MaxKeys THEN "invalid_custom_data"
  ELSE FirstRefusal([i \in DOMAIN payload |-> ItemVerdict(schema, payload[i])]
                    \o [i \in DOMAIN schema |-> FieldVerdict(payload, schema[i])])

Check(passes, code) == IF passes THEN "ok" ELSE code

(* "ok", the code of the first refusal, or "error" for an exception that     *)
(* becomes a 500.  An omitted custom_data is not held against the schema.    *)
sanitize_submission(game, sub) ==
  FirstRefusal(<<
    Check(~InvalidPlayerName(sub.player_name), "invalid_player_name"),
    Check(ScoreInBounds(game, sub.score), "score_out_of_bounds"),
    Check(\A p \in sub.played_at : PlayedAtOk(sub, p), "invalid_played_at"),
    Check(\A s \in sub.seed : SeedOk(s), "invalid_seed"),
    FirstRefusal(SetToSeq({CustomVerdict(game.fields, d) : d \in sub.custom_data}))>>)

-------------------------------------------------------------------------------
(* The rules as documented (docs/api.md:65-88, docs/data_models.md:48-62).   *)

(* The types of data_models.md:55-62 are JSON's, where true is no number. *)
JsonType(type) ==
  CASE type = "string" -> {"str"}
    [] type = "integer" -> {"int"}
    [] type = "number" -> {"int", "float"}
    [] type = "boolean" -> {"bool"}
    [] OTHER -> {"str", "int", "float", "bool", "list"}

Is(field, item) == field.key = item.key
NotNumber(field, item) == field.type \in {"integer", "number"} /\ item.value = "bool"

TooBig(d) == Len(d) > MaxKeys \/ \E i \in DOMAIN d : ValueTooLong(d[i])
Undeclared(schema, d) ==
  schema # <<>> /\ \E i \in DOMAIN d : \A j \in DOMAIN schema : ~Is(schema[j], d[i])
Mistyped(schema, d) ==
  \E i \in DOMAIN d, j \in DOMAIN schema :
    /\ Is(schema[j], d[i]) /\ d[i].value \notin JsonType(schema[j].type)
    /\ ~NotNumber(schema[j], d[i])
BooleanAsNumber(schema, d) ==
  \E i \in DOMAIN d, j \in DOMAIN schema : Is(schema[j], d[i]) /\ NotNumber(schema[j], d[i])
Incomplete(schema, d) ==
  \E j \in DOMAIN schema : schema[j].required /\ \A i \in DOMAIN d : ~Is(schema[j], d[i])

(* The rules one by one.  "newline" is the part of the seed's format, and    *)
(* "boolean" the part of the types, that the code reads otherwise; "absent"  *)
(* is "required" for a submission without custom_data.                       *)
Rules == {"name", "score", "played_at", "seed", "newline", "size", "unknown", "type", "boolean",
          "required", "absent"}

Breaks(rule, game, sub) ==
  LET schema == game.fields IN
  CASE rule = "name" -> ~CleanName(normalize_player_name(sub.player_name))
    [] rule = "score" -> \/ \E lo \in game.min : sub.score < lo
                         \/ \E hi \in game.max : sub.score > hi
    [] rule = "played_at" -> \E p \in sub.played_at :
         p.naive \/ p.at > sub.now + Skew \/ p.at < sub.issued - Skew
    [] rule = "seed" -> "bad" \in sub.seed
    [] rule = "newline" -> "newline" \in sub.seed
    [] rule = "size" -> \E d \in sub.custom_data : TooBig(d)
    [] rule = "unknown" -> \E d \in sub.custom_data : Undeclared(schema, d)
    [] rule = "type" -> \E d \in sub.custom_data : Mistyped(schema, d)
    [] rule = "boolean" -> \E d \in sub.custom_data : BooleanAsNumber(schema, d)
    [] rule = "required" -> \E d \in sub.custom_data : Incomplete(schema, d)
    [] rule = "absent" -> sub.custom_data = {} /\ Incomplete(schema, <<>>)

CodeOf(rule) ==
  CASE rule = "name" -> "invalid_player_name"
    [] rule = "score" -> "score_out_of_bounds"
    [] rule = "played_at" -> "invalid_played_at"
    [] rule \in {"seed", "newline"} -> "invalid_seed"
    [] OTHER -> "invalid_custom_data"

(* Three rules the code does not enforce, and one of its own: no document    *)
(* limits the length of a key.                                               *)
NotEnforced == {"newline", "boolean", "absent"}
OwnRule(sub) == \E d \in sub.custom_data : \E i \in DOMAIN d : KeyTooLong(d[i])

(* The verdict is the documented one: what is accepted breaks no rule that   *)
(* is enforced, a refusal gives the code of one it does break, or follows    *)
(* the code's own rule, and only a declaration that is no JSON object makes  *)
(* the checks raise.                                                         *)
VerdictIsDocumented(game, sub) ==
  LET verdict == sanitize_submission(game, sub)
      broken == {rule \in Rules \ NotEnforced : Breaks(rule, game, sub)} IN
  CASE verdict = "ok" -> broken = {}
    [] verdict = "error" -> sub.custom_data # {} /\ \E i \in DOMAIN game.fields :
                              Malformed(game.fields[i])
    [] OTHER -> \/ \E rule \in broken : verdict = CodeOf(rule)
                \/ verdict = "invalid_custom_data" /\ OwnRule(sub)
===============================================================================
