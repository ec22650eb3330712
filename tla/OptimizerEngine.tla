--------------------------- MODULE OptimizerEngine ---------------------------
(***************************************************************************)
(* One prompt through PromptOptimizer.optimize (core/compiler/             *)
(* optimizer_engine.py): the format lock, the stages of MSDPC and the      *)
(* safety constraints that may undo them, and optimize_tokens, which       *)
(* reports what was saved.                                                 *)
(*                                                                         *)
(* A prompt is a sequence of sentences, a sentence one of words.  Of a word*)
(* matters which stage removes it and which keywords the safety constraints*)
(* find in it; they look for substrings, so "know" counts as a negation.   *)
(***************************************************************************)
EXTENDS Naturals, Integers, Sequences, SequencesExt, FiniteSets

CONSTANTS Prompts \* sequences of sentences

(* "data" stands for a word nothing is known of, "header" for a markdown   *)
(* mark at the start of a line and "mark" for one elsewhere, "decimal" for *)
(* 3.14, "unit" for 5kg and "measure" for 3.5GB; "for", "or", "if" and     *)
(* "any" for words that hold these, like "format" and "classify".          *)
Word ==
  {"data", "header", "mark", "fence", "json", "very", "often", "exactly", "finally", "nonetheless", "short",
   "must", "not", "know", "number", "decimal", "unit", "measure", "only", "required", "standard",
   "if", "or", "for", "any"}

ASSUME PromptsAssumption ==
  \A p \in Prompts : p \in Seq(Seq(Word)) /\ p # <<>> /\ \A i \in DOMAIN p : p[i] # <<>>

VARIABLES
  optCall,   \* the prompt, whether to preserve its format, and the intent and object found in it
  optAt,     \* "detect", "compress", "build", "prune", "shape", "check", "done"
  optText,   \* the prompt as the stages leave it
  reverted,  \* the safety constraints undid them
  optOut,    \* what optimize returned
  optSaved   \* original_tokens - optimized_tokens

optvars == <<optCall, optAt, optText, reverted, optOut, optSaved>>

Template == {"analyze", "debug", "classify", "validate", "generate", "transform"}   \* the intents that differ

Words(p) == FlattenSeq(p)
WordsIn(p) == ToSet(Words(p))

(* A number with a point in it: what stands before it is a number.         *)
Pointed == {"decimal", "measure"}
Rest(w) == IF w = "decimal" THEN "number" ELSE "unit"

(* IntentExtractor._extract_object: a noun it knows, the word after the    *)
(* verb, of which a point is the end, or "content".                        *)
Wordless == {"header", "mark", "fence", "json"}
Spoken(w) == IF w \in Pointed THEN "number" ELSE w
Objects(p) == {"data"} \cup {Spoken(w) : w \in WordsIn(p) \ Wordless}

OptInit ==
  /\ \E p \in Prompts : \E object \in Objects(p) :
       optCall \in [prompt : {p}, preserve : BOOLEAN, intent : Template, object : {object}]
  /\ optAt = "detect"
  /\ optText = optCall.prompt
  /\ reverted = FALSE
  /\ optOut = <<>>
  /\ optSaved = 0

-----------------------------------------------------------------------------
(* Every word gives way to those that f has for it.                        *)
Each(s, f) == FlattenSeq([i \in DOMAIN s |-> f[s[i]]])
Without(ws) == [w \in Word |-> IF w \in ws THEN <<>> ELSE <<w>>]
Nonempty(p) == FlattenSeq([i \in DOMAIN p |-> IF p[i] = <<>> THEN <<>> ELSE <<p[i]>>])

(* FormatLock.detect_structure: JSON only if the whole prompt is.          *)
DetectStructure(p) ==
  IF p = <<<<"json">>>> THEN "json"
  ELSE IF "fence" \in WordsIn(p) THEN "code"
  ELSE IF "header" \in WordsIn(p) THEN "markdown" ELSE "plain"

(* SemanticCompressor.compress splits at whitespace and joins with spaces: *)
(* only the first line keeps its start.                                    *)
Fillers == {"very", "exactly", "finally", "nonetheless"}
Compress(p) ==
  LET kept == [i \in DOMAIN p |-> Each(p[i], Without(Fillers))]
      joined(i, j) == IF kept[i][j] = "header" /\ ~(i = 1 /\ j = 1) THEN "mark" ELSE kept[i][j]
  IN Nonempty([i \in DOMAIN p |-> [j \in DOMAIN kept[i] |-> joined(i, j)]])

(* StructureBuilder: a template of the intent takes the place of the       *)
(* prompt.  Its six words may hold keywords, as REQUIREMENTS and CATEGORIES*)
(* do; it is filled with the object and the constraints that were found,   *)
(* or "standard".                                                          *)
Labels(intent) ==
  CASE intent = "generate"  -> <<"data", "data", "data", "required", "data", "data">>
    [] intent = "classify"  -> <<"data", "if", "data", "or", "data", "if">>
    [] intent = "transform" -> <<"data", "for", "data", "for", "data", "for">>
    [] OTHER -> <<"data", "data", "data", "data", "data", "data">>
Style(p) ==
  CASE {"exactly", "short"} \subseteq WordsIn(p) -> <<"exactly", "short">>
    [] "exactly" \in WordsIn(p) /\ "short" \notin WordsIn(p) -> <<"exactly">>
    [] "short" \in WordsIn(p) /\ "exactly" \notin WordsIn(p) -> <<"short">>
    [] OTHER -> <<"standard">>
BuildStructure(c) == <<Append(Labels(c.intent), c.object) \o Style(c.prompt)>>

(* TokenPruner: modifiers; sentences, which end at the point of 3.14 and of*)
(* 3.5GB too; and of equal sentences all but the first.                    *)
Modifiers == {"very", "often"}
Sentences(s) ==
  LET read[i \in 0..Len(s)] ==
        IF i = 0 THEN [done |-> <<>>, open |-> <<>>]
        ELSE IF s[i] \in Pointed
             THEN [done |-> Append(read[i - 1].done, Append(read[i - 1].open, "number")), open |-> <<Rest(s[i])>>]
             ELSE [done |-> read[i - 1].done, open |-> Append(read[i - 1].open, s[i])]
  IN Append(read[Len(s)].done, read[Len(s)].open)
Distinct(p) == FlattenSeq([i \in DOMAIN p |-> IF \E j \in 1..(i - 1) : p[j] = p[i] THEN <<>> ELSE <<p[i]>>])
Prune(p) ==
  LET kept == [i \in DOMAIN p |-> Each(p[i], Without(Modifiers))]
  IN Distinct(Nonempty(FlattenSeq([i \in DOMAIN p |-> Sentences(kept[i])])))

(* OutputShaper adds a sentence, which may hold keywords itself: "Provide  *)
(* concise analysis", or of a short one "Respond with key insights only",  *)
(* "Brief explanation only", "Brief justification only if required", "Brief*)
(* error description if any", "Generate concise output" and "Provide       *)
(* transformed result only".                                               *)
ShapingFor(c) ==
  CASE c.intent = "analyze" /\ "short" \in WordsIn(c.prompt) -> <<"data", "data", "data", "data", "only">>
    [] c.intent = "analyze" /\ "short" \notin WordsIn(c.prompt) -> <<"data", "data", "data">>
    [] c.intent = "debug"     -> <<"data", "data", "only">>
    [] c.intent = "classify"  -> <<"data", "data", "only", "if", "required">>
    [] c.intent = "validate"  -> <<"data", "or", "data", "if", "any">>
    [] c.intent = "generate"  -> <<"data", "data", "data">>
    [] c.intent = "transform" -> <<"data", "for", "data", "only">>
ShapeOutput(p, c) == Append(p, ShapingFor(c))

-----------------------------------------------------------------------------
(* SafetyConstraints: which keywords occur in the prompt, not how often.   *)
NegationsIn(w) ==
  CASE w = "not" -> {"no", "not"} [] w = "know" -> {"no"} [] w = "nonetheless" -> {"no", "none"} [] OTHER -> {}
ConstraintsIn(w) ==
  CASE w = "exactly" -> {"exactly"} [] w = "must" -> {"must"} [] w = "only" -> {"only"} [] w = "required" -> {"require"}
    [] OTHER -> {}
LogicIn(w) ==
  CASE w = "finally" -> {"all"} [] w = "standard" -> {"and"} [] w = "for" -> {"for", "or"}
    [] w \in {"if", "or", "any"} -> {w} [] OTHER -> {}

Negations(p)   == UNION {NegationsIn(w) : w \in WordsIn(p)}
Constraints(p) == UNION {ConstraintsIn(w) : w \in WordsIn(p)}
Logic(p)       == UNION {LogicIn(w) : w \in WordsIn(p)}

(* 3.14 matches the pattern of a number twice and that of a decimal once;  *)
(* 5kg matches none, since no word ends after its digits, and 3.5GB only   *)
(* that of a number, once.                                                 *)
Matched == [w \in Word |->
  CASE w \in {"number", "measure"} -> <<"number">> [] w = "decimal" -> <<"number", "number", w>> [] OTHER -> <<>>]
Quantities(p) == Len(Each(Words(p), Matched))
Figured == [w \in Word |-> IF w \in {"number", "decimal"} THEN <<w>> ELSE <<>>]
Figures(p) == Each(Words(p), Figured)

Fewer(a, b) == Cardinality(a) < Cardinality(b)

(* For mutations: one of the checks is missing.                            *)
ViolatesButNumbers(p, q) ==
  Fewer(Negations(q), Negations(p)) \/ Fewer(Constraints(q), Constraints(p)) \/ Fewer(Logic(q), Logic(p))

(* check_safety, but for the similarity.                                   *)
Violates(p, q) ==
  \/ Fewer(Negations(q), Negations(p))
  \/ Quantities(q) # Quantities(p)
  \/ Fewer(Constraints(q), Constraints(p))
  \/ Fewer(Logic(q), Logic(p))

-----------------------------------------------------------------------------
(* A token is a run of letters or digits: none in a mark, two in 3.14 and  *)
(* 3.5GB.                                                                  *)
Tokened == [w \in Word |->
  CASE w \in {"header", "mark"} -> <<>> [] w \in Pointed -> <<w, w>> [] OTHER -> <<w>>]
Tokens(p) == Len(Each(Words(p), Tokened))

Structure == DetectStructure(optCall.prompt)
Stage(from, to, change) ==
  /\ optAt = from
  /\ optAt' = to
  /\ optText' = change
  /\ UNCHANGED <<optCall, reverted, optOut, optSaved>>

(* JSON and code are given back at once, with nothing saved.               *)
FormatLocked ==
  /\ optAt = "detect"
  /\ optCall.preserve /\ Structure \in {"json", "code"}
  /\ optAt' = "done" /\ optOut' = optCall.prompt
  /\ UNCHANGED <<optCall, optText, reverted, optSaved>>
Configure ==
  /\ ~(optCall.preserve /\ Structure \in {"json", "code"})
  /\ Stage("detect", "compress", optText)

Building(c) == ~c.preserve \/ DetectStructure(c.prompt) = "plain"
CompressStage == Stage("compress", IF Building(optCall) THEN "build" ELSE "prune", Compress(optText))
BuildStage    == Stage("build", "prune", BuildStructure(optCall))
PruneStage    == Stage("prune", "shape", Prune(optText))
ShapeStage    == Stage("shape", "check", ShapeOutput(optText, optCall))

(* The similarity is a choice: the calibrated floor may be met or missed.  *)
(* The tokens are those of the stages' text, undone or not.                *)
CheckSafety ==
  /\ optAt = "check"
  /\ \E similar \in BOOLEAN : reverted' = (Violates(optCall.prompt, optText) \/ ~similar)
  /\ optOut' = IF reverted' THEN optCall.prompt ELSE optText
  /\ optSaved' = Tokens(optCall.prompt) - Tokens(optText)
  /\ optAt' = "done"
  /\ UNCHANGED <<optCall, optText>>

OptNext ==
  FormatLocked \/ Configure \/ CompressStage \/ BuildStage \/ PruneStage \/ ShapeStage \/ CheckSafety

OptSpec == OptInit /\ [][OptNext]_optvars

-----------------------------------------------------------------------------
Accepted == optAt = "done" /\ ~reverted
Prompt   == optCall.prompt

(* What the stages leave is a text of words, but for the shaping sentence  *)
(* of at most five never longer than the prompt or the filled template;    *)
(* what is returned is the prompt or that text.                            *)
OptTypeOK ==
  /\ optCall.preserve \in BOOLEAN /\ optCall.intent \in Template /\ optCall.object \in Word
  /\ optAt \in {"detect", "compress", "build", "prune", "shape", "check", "done"}
  /\ optText \in Seq(Seq(Word)) /\ \A i \in DOMAIN optText : optText[i] # <<>>
  /\ \E longest \in {Tokens(Prompt), Tokens(BuildStructure(optCall))} : Tokens(optText) <= longest + 5
  /\ reverted \in BOOLEAN /\ optSaved \in Int
  /\ optOut \in {<<>>, Prompt, optText}

(* Every number of a prompt is in what the model is sent, whole, in its    *)
(* place among the numbers and as often: counting matches is enough to     *)
(* undo a decimal taken apart or a sentence dropped as a repetition, and a *)
(* template that keeps a number as its object keeps no other.  A number    *)
(* with letters on it is none the patterns count, and 3.5GB, of which they *)
(* count the 3 alone, may be sent as "3. 5GB" or as 3: nothing is said of  *)
(* prompts that hold one.                                                  *)
NumbersSurvive == Accepted /\ "measure" \notin WordsIn(Prompt) => Figures(optOut) = Figures(Prompt)

(* No negation keyword disappears: no template and no sentence that shaping*)
(* adds holds one that could stand in for it in the count.                 *)
NegationsSurvive == Accepted => Negations(Prompt) \subseteq Negations(optOut)

(* The words the stages bring with them: shaping's, and those of a template*)
(* where one takes the place of the prompt.                                *)
Brought(c) == ToSet(ShapingFor(c)) \cup (IF Building(c) THEN ToSet(Labels(c.intent)) ELSE {})

(* A constraint keyword may disappear, since counting kinds lets a word of *)
(* the template or of the added sentence stand in for it: "required" for a *)
(* lost "must".  Without such a word none does.                            *)
LostConstraintsAreOffset ==
  Accepted =>
    LET lost  == Constraints(Prompt) \ Constraints(optOut)
        added == (UNION {ConstraintsIn(w) : w \in Brought(optCall)}) \ Constraints(Prompt)
    IN Cardinality(lost) <= Cardinality(added)

(* JSON and code come back as they were wherever they stand in the prompt, *)
(* as long as the format is to be preserved.                               *)
LockedTextUntouched ==
  optAt = "done" /\ optCall.preserve /\ (Prompt = <<<<"json">>>> \/ "fence" \in WordsIn(Prompt)) =>
    optOut = Prompt /\ optSaved = 0

(* What a prompt asks survives its optimization.                           *)
MeaningSurvives ==
  OptTypeOK /\ NumbersSurvive /\ NegationsSurvive /\ LostConstraintsAreOffset /\ LockedTextUntouched
=============================================================================
