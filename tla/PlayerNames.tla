------------------------------ MODULE PlayerNames ------------------------------
(***************************************************************************)
(* normalize_player_name (app/services/name_normalize.py).  A name is a    *)
(* sequence of character classes, enough to tell apart what Unicode        *)
(* normalisation, stripping and trimming do: a letter, a combining mark,   *)
(* the character the two compose to, a character that is stripped          *)
(* (control, format, bidi, zero-width), and white space.                   *)
(***************************************************************************)
EXTENDS SequencesExt, Integers

CONSTANT MAX_LEN    \* the longest name that is stored

ASSUME NameAssumption == MAX_LEN \in Nat \ {0}

Characters == {"letter", "mark", "composed", "invisible", "space"}
Names == Seq(Characters)

(* unicodedata.normalize("NFC"): a mark joins the letter right before it.    *)
Compose(name, c) ==
  IF c = "mark" /\ name # <<>> /\ Last(name) = "letter"
  THEN Append(Front(name), "composed")
  ELSE Append(name, c)
NFC(name) == FoldLeft(Compose, <<>>, name)

(* NFD, which the code does not use: two names are canonically equivalent    *)
(* when they decompose to the same characters.                               *)
Decompose(name, c) ==
  IF c = "composed" THEN name \o <<"letter", "mark">> ELSE Append(name, c)
Decomposed(name) == FoldLeft(Decompose, <<>>, name)

(* translate, and the join over categories: both drop characters. *)
Strip(name, c) == IF c = "invisible" THEN name ELSE Append(name, c)
Stripped(name) == FoldLeft(Strip, <<>>, name)

(* str.strip *)
Trimmed(name) ==
  LET shown == {i \in DOMAIN name : name[i] # "space"} IN
  IF shown = {} THEN <<>> ELSE SubSeq(name, Min(shown), Max(shown))

(* Fault: no NFC. *)
normalize_player_name_NoNFC(raw) == Trimmed(Stripped(raw))

normalize_player_name(raw) == Trimmed(Stripped(NFC(raw)))

InvalidPlayerName(raw) == Len(normalize_player_name(raw)) \notin 1..MAX_LEN

-------------------------------------------------------------------------------
(* What data_models.md:74 and name_normalize.py promise of a stored name.    *)

(* Nothing invisible, no white space at either end, and of a legal length. *)
CleanName(name) ==
  /\ Len(name) \in 1..MAX_LEN
  /\ \A i \in DOMAIN name : name[i] # "invisible"
  /\ name[1] # "space" /\ name[Len(name)] # "space"

(* A letter and a mark that only stripped characters keep apart. *)
Rejoined(raw) ==
  \E i, j \in DOMAIN raw :
    /\ i + 1 < j /\ raw[i] = "letter" /\ raw[j] = "mark"
    /\ \A k \in i + 1 .. j - 1 : raw[k] = "invisible"

(* NFC, but for a letter and a mark that became neighbours when what stood   *)
(* between them was stripped: NFC is applied first and not again.            *)
NormalName(raw, name) == NFC(name) = name \/ Rejoined(raw)
===============================================================================
