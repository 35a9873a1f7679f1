---------------------------- MODULE MCGameEditing ----------------------------
(* A small instance of GameEditing, with payloads that differ from a good    *)
(* one in one or two places.                                                 *)
EXTENDS GameEditing

Interchangeable == Permutations(Games) \cup Permutations(Slugs) \cup Permutations(Admins)

Given(key, value, long) == [key |-> key, value |-> value, long |-> long]
Declared(key, type, required) == [key |-> key, type |-> type, required |-> required]

MCSchemas ==
  {<<>>,
   <<Declared("combo", "integer", FALSE), Declared("level", "string", TRUE)>>,
   <<Declared("combo", "malformed", FALSE)>>}

MCNewForms ==
  [slug : Slugs, min : {{1}}, max : {{3}}, fields : {<<>>}, archived : {FALSE}]

GoodSubmission ==
  [player_name |-> <<"letter">>, score |-> 2, played_at |-> {}, seed |-> {}, custom_data |-> {},
   issued |-> 3, now |-> 5]

(* Names that clients send in the state machine: one with two spellings, and *)
(* one with an invisible character between its letter and its mark.          *)
RawNames == {<<"composed">>, <<"letter", "invisible", "mark">>}
MCSubmissions ==
  {[GoodSubmission EXCEPT !.player_name = n] : n \in RawNames}

(* The payloads that are checked against every row. *)
Payloads ==
  {<<>>, <<Given("combo", "bool", FALSE)>>, <<Given("level", "str", TRUE)>>,
   <<Given("level", "str", FALSE), Given("combo", "int", FALSE)>>,
   <<Given("level", "int", FALSE)>>, <<Given("other", "list", FALSE)>>,
   <<Given("level", "str", FALSE), Given("combo", "float", FALSE)>>,
   <<Given("level", "str", FALSE), Given("combo", "bool", FALSE)>>,
   <<Given("level", "bool", FALSE)>>, <<Given("lengthy", "int", FALSE)>>,
   <<Given("level", "str", FALSE), Given("other", "str", FALSE), Given("combo", "int", FALSE)>>}
MCInputs ==
  {[GoodSubmission EXCEPT !.player_name = n] : n \in BoundedSeq(Characters, 3)}
  \cup {[GoodSubmission EXCEPT !.score = x] : x \in 0..4}
  \cup {[GoodSubmission EXCEPT !.played_at = {[naive |-> n, at |-> t]}] :
          n \in BOOLEAN, t \in 1..7}
  \cup {[GoodSubmission EXCEPT !.seed = {s}, !.custom_data = d] :
          s \in {"clean", "newline", "bad"}, d \in Optional(Payloads)}

(* Payloads that are good but for one thing: the line feed, the Boolean, no  *)
(* custom_data (under a composed name), and a key that is long.              *)
MCExceptions ==
  {[GoodSubmission EXCEPT !.seed = {"newline"},
                          !.custom_data = {<<Given("level", "str", FALSE)>>}],
   [GoodSubmission EXCEPT !.custom_data =
      {<<Given("level", "str", FALSE), Given("combo", "bool", FALSE)>>}],
   [GoodSubmission EXCEPT !.player_name = <<"composed">>],
   [GoodSubmission EXCEPT !.custom_data = {<<Given("lengthy", "int", FALSE)>>}]}
===============================================================================
