----------------------------- MODULE OutputRepair -----------------------------
(***************************************************************************)
(* What the output guard (core/output_guard.py) makes of an answer:        *)
(* safe_repair_json, which finds JSON in a text, and OutputGuard, which    *)
(* detects the format and validates.                                       *)
(***************************************************************************)
EXTENDS FiniteSets

(* A text around JSON.  "nested" is an object that holds an array, "one" an*)
(* array of one object, "many" of several, "flat" of none.  Text before or *)
(* after may have braces of its own, which hold no JSON, or brackets, which*)
(* do, as the citation [1].  "open": the closing brace or bracket is       *)
(* missing.                                                                *)
Around == {"none", "words", "braces", "brackets"}
Shape == {"object", "nested", "one", "many", "flat", "scalar"}
JsonText ==
  {t \in [before : Around, shape : Shape, flaw : {"none", "comma", "quotes", "open"}, after : Around] :
     t.shape = "scalar" => t.flaw = "none"}

(* An answer as the guard tells them apart: JSON; a text JSON can be found *)
(* in; a single value; words that hint at code, such as "from" and a blank;*)
(* text with a sign of code.  What is wrapped stands in a fence, after a   *)
(* preamble or, but for a single value, between blanks.                    *)
Output ==
  [ kind    : {"text", "object"},
    form    : {"json", "embedded", "scalar", "plain", "hint", "code"},
    wrapped : BOOLEAN ]
Format == {"none", "json", "xml", "code", "unknown"}

VARIABLES
  handed,    \* the text or answer, and which function it is given to
  returned  \* what comes back, "nothing" before

outvars == <<handed, returned>>

OutInit ==
  /\ handed \in [text : JsonText] \cup [output : Output, format : Format]
  /\ returned = "nothing"

-----------------------------------------------------------------------------
Braced(t) == "braces" \in {t.before, t.after}
Bracketed(t) == "brackets" \in {t.before, t.after}
Alone(t)   == t.before = "none" /\ t.after = "none"

(* From the first brace to the last: all of an array of one object but its *)
(* brackets.                                                               *)
BraceMatch(t) ==
  IF Braced(t) THEN "text"
  ELSE CASE t.shape \in {"object", "nested"} /\ t.flaw = "none" -> t.shape
         [] t.shape = "one" /\ t.flaw \in {"none", "open"} -> "member"
         [] OTHER -> "text"

(* From the first bracket to the last, which an object may hold inside and *)
(* the text around may have too: "cited" is what stands in the brackets of *)
(* the text, when they are the only pair.                                  *)
BracketMatch(t) ==
  CASE ~Bracketed(t) /\ t.shape \in {"one", "many", "flat"} /\ t.flaw = "none" -> t.shape
    [] ~Bracketed(t) /\ t.shape = "nested" -> "inner"
    [] t.before = "brackets" /\ t.after # "brackets" /\ t.shape \in {"one", "many", "flat"} /\ t.flaw = "open" -> "cited"
    [] Bracketed(t) /\ t.before # t.after /\ t.shape \in {"object", "scalar"} -> "cited"
    [] OTHER -> "text"

(* What the fixes leave starts with a brace and ends with one.             *)
CommonFixes(t) ==
  IF Braced(t) \/ t.flaw \notin {"comma", "quotes"} THEN "text"
  ELSE CASE t.shape \in {"object", "nested"} -> t.shape [] t.shape = "one" -> "member" [] OTHER -> "text"

First(a, b) == IF a # "text" THEN a ELSE b

(* For mutation: arrays are looked for first.                              *)
RepairJsonBracketsFirst(t) ==
  IF Alone(t) /\ t.flaw = "none" THEN t.shape ELSE First(BracketMatch(t), First(BraceMatch(t), CommonFixes(t)))

(* safe_repair_json: the value that is returned, or "text" for the text.   *)
RepairJson(t) ==
  IF Alone(t) /\ t.flaw = "none" THEN t.shape ELSE First(BraceMatch(t), First(BracketMatch(t), CommonFixes(t)))

-----------------------------------------------------------------------------
DetectFormat(o) ==
  IF o.form = "json" /\ ~o.wrapped THEN "json"
  ELSE IF o.form \in {"json", "embedded", "hint", "code"} THEN "code" ELSE "text"

(* validate_output finds it valid.                                         *)
FoundValid(o, format) ==
  CASE format = "json" -> o.form \in {"json", "embedded"}
    [] format = "code" -> o.form \in {"json", "embedded", "code"}
    [] format = "xml"  -> FALSE
    [] OTHER -> TRUE

(* What it would return instead.  An object is looked at as its string.    *)
Fixed(o, format) ==
  IF o.kind = "object" THEN "string"
  ELSE CASE format = "json" /\ o.form = "scalar" /\ ~o.wrapped -> "value"
         [] format = "code" /\ o.wrapped -> "unwrapped"
         [] OTHER -> "same"

Expected(o, format) == IF format = "none" /\ o.kind = "text" THEN DetectFormat(o) ELSE format

(* OutputGuard.guard_output: a valid output is returned as it came, whether*)
(* or not it had to be repaired to be found valid.                         *)
GuardOutput(o, format) == IF FoundValid(o, Expected(o, format)) THEN "same" ELSE Fixed(o, Expected(o, format))

SafeJsonOutput ==
  /\ returned = "nothing" /\ "text" \in DOMAIN handed
  /\ returned' = RepairJson(handed.text)
  /\ UNCHANGED handed

SafeOutput ==
  /\ returned = "nothing" /\ "output" \in DOMAIN handed
  /\ returned' = GuardOutput(handed.output, handed.format)
  /\ UNCHANGED handed

OutNext == SafeJsonOutput \/ SafeOutput

OutSpec == OutInit /\ [][OutNext]_outvars

-----------------------------------------------------------------------------
Repairing == returned # "nothing" /\ "text" \in DOMAIN handed
Guarding  == returned # "nothing" /\ "output" \in DOMAIN handed

(* JSON without a flaw, but for a single value, is found whole in a text   *)
(* that has no braces of its own, whatever it holds inside and the text    *)
(* cites; only an array of one object comes back without its brackets.     *)
(* Other arrays the brackets of the text hide.                             *)
IntactJsonComesWhole ==
  /\ Repairing /\ handed.text.flaw = "none" /\ handed.text.shape # "scalar" /\ ~Braced(handed.text)
  /\ handed.text.shape \in {"many", "flat"} => ~Bracketed(handed.text)
  => \/ returned = handed.text.shape
     \/ returned = "member" /\ handed.text.shape = "one" /\ ~Alone(handed.text)

(* The guard hands on what the model said: unless a format was asked for,  *)
(* every object comes back as it is, and of a text only a fence, preamble  *)
(* or blanks may be missing, never the text of JSON or of code.            *)
GuardKeepsAnswers ==
  Guarding /\ handed.format \in {"none", "unknown"} =>
    \/ returned = "same"
    \/ returned = "unwrapped" /\ handed.output.kind = "text" /\ handed.output.form = "hint"

(* Repair does not take sound answers apart.                               *)
AnswersComeWhole == IntactJsonComesWhole /\ GuardKeepsAnswers
=============================================================================
