------------------------------ MODULE PiiStages ------------------------------
(***************************************************************************)
(* The seven stages of the hybrid PII pipeline as operators on texts:      *)
(* core/pii_pipeline/stages and core/pii_pipeline/components/detectors.    *)
(*                                                                         *)
(* A text is a sequence of cells, one per word.  A cell is a plain word, a *)
(* capitalised word (half of a person's name), a value some regular        *)
(* expression recognises, or a mask token.  Confidences are thousandths,   *)
(* rounded down.  The keywords that occur somewhere in the text ("my",     *)
(* "example", ...) are kept beside it as a set, said: they are never       *)
(* masked, and every window the code looks at contains them.               *)
(***************************************************************************)
EXTENDS Integers, Sequences, FiniteSets, SequencesExt, FiniteSetsExt

(* Cells.  form is "raw", or "obf" for an address written "a [at] b".      *)
Word      == [kind |-> "word", type |-> "none", of |-> "word", form |-> "raw"]
Cue       == [kind |-> "word", type |-> "email", of |-> "email", form |-> "raw"]
Cap(n)    == [kind |-> "cap", type |-> "name", of |-> n, form |-> "raw"]
Pii(t, v) == [kind |-> "pii", type |-> t, of |-> v, form |-> "raw"]
Token(t, v, f) == [kind |-> "tok", type |-> t, of |-> v, form |-> f]

Structured == {"email", "phone", "ssn", "credit_card"}
Intents    == <<"teaching", "personal">>
Keywords   == [teaching |-> {"example", "test"},
               personal |-> {"my", "personal", "private"}]

IsExampleEmail(c) == c.kind = "pii" /\ c.of = "user@example.com"
IsEmail(c)   == c.kind = "pii" /\ c.type = "email" /\ c.form = "raw"
Clip(n)      == IF n < 0 THEN 0 ELSE IF n > 1000 THEN 1000 ELSE n
AtLeast(a, b) == IF a > b THEN a ELSE b
First(S)     == IF S = {} THEN {} ELSE {Min(S)}

(* The members of s that satisfy P, and those of S one before the other:   *)
(* what a filtering loop and a sort return.                                *)
Only(s, P(_)) == FlattenSeq([i \in DOMAIN s |-> IF P(s[i]) THEN <<s[i]>> ELSE <<>>])
InOrder(S, before(_, _)) ==
  CHOOSE q \in [1..Cardinality(S) -> S] :
    \A i, j \in DOMAIN q : i < j => before(q[i], q[j])

(* An entity is a span [s, e) of the text with a type and a confidence.    *)
Entity(T, s, e, t, c, d) ==
  [s |-> s, e |-> e, type |-> t, conf |-> c, by |-> d, txt |-> SubSeq(T, s, e - 1)]

-----------------------------------------------------------------------------
(* Stage 1.  The main path undoes bracketed obfuscation and writes numbers *)
(* in one format, both the form "obf" here; the fallback only trims white  *)
(* space.                                                                  *)
Standard(c)  == [c EXCEPT !.form = IF @ = "obf" THEN "raw" ELSE @]
Normalize(T) == [i \in DOMAIN T |-> Standard(T[i])]
BasicCleanup(T) == T

(* Stage 2: the detectors.  Rank is the order their results are collected. *)
Rank == [regex |-> 1, heuristics |-> 2, dictionary |-> 3, contextual |-> 4, ner |-> 5]

RegexWeight == [email |-> 950, phone |-> 900, zip_code |-> 750, credit_card |-> 900]

(* One entity per value: _dedupe_entities keys on (type, text), so of two  *)
(* occurrences of a value only the first is reported.  A value that fails  *)
(* its checksum keeps 45% of its confidence.                               *)
RegexDetect(T, BadSum) ==
  LET hits == {i \in DOMAIN T : /\ T[i].kind = "pii" /\ T[i].form = "raw"
                                /\ ~IsExampleEmail(T[i])}
      firsts == {i \in hits : \A j \in hits : T[j] = T[i] => i <= j}
      conf(c) == LET base == Clip(RegexWeight[c.type] +
                              (IF c.type = "email" /\ Cue \in Range(T) THEN 100 ELSE 0))
                 IN  IF c.of \in BadSum THEN (base * 45) \div 100 ELSE base
  IN  {Entity(T, i, i + 1, T[i].type, conf(T[i]), "regex") : i \in firsts}

(* Two capitalised words in a row, scanning on after each accepted pair.   *)
PersonAt(T, i) == /\ i < Len(T) /\ T[i].kind = "cap" /\ T[i + 1].kind = "cap"
                  /\ "Please" \notin {T[i].of, T[i + 1].of}
HeuristicDetect(T) ==
  LET taken[i \in 0..Len(T)] == i > 0 /\ PersonAt(T, i) /\ ~taken[i - 1]
  IN  {Entity(T, i, i + 2, "name", 600, "heuristics") :
         i \in {j \in DOMAIN T : PersonAt(T, j) /\ taken[j]}}

FirstNames == {"John"}
LastNames  == {"Smith"}
(* A first name before a last name, each pair at its first occurrence, and *)
(* the first address of a text that has the word "email".                  *)
DictionaryDetect(T) ==
  LET pairs == {i \in 1..(Len(T) - 1) : /\ T[i].kind = "cap" /\ T[i].of \in FirstNames
                                     /\ T[i + 1].kind = "cap" /\ T[i + 1].of \in LastNames}
      mails == {i \in DOMAIN T : IsEmail(T[i]) /\ Cue \in Range(T)}
  IN  {Entity(T, i, i + 2, "name", 700, "dictionary") : i \in First(pairs)}
      \cup {Entity(T, i, i + 1, "email", 800, "dictionary") : i \in First(mails)}

(* The first address after "my email", more certain in personal company    *)
(* and less in a teaching one.                                             *)
ContextualDetect(T, said) ==
  LET cues  == {c \in DOMAIN T : T[c] = Cue /\ "my" \in said}
      mails == {i \in DOMAIN T : IsEmail(T[i]) /\ \E c \in First(cues) : i > c}
      conf  == Clip(800 + 100 * Cardinality(said \cap {"personal", "private"})
                        - 200 * Cardinality(said \cap Keywords.teaching))
  IN  {Entity(T, i, i + 1, "email", conf, "contextual") : i \in First(mails)}

NerDetect(T) == {Entity(T, i, i + 2, "name", 650, "ner") :
                   i \in {j \in DOMAIN T : PersonAt(T, j)}}

(* Which detectors a mode leaves enabled.                                  *)
Enabled(mode) ==
  CASE mode = "lite"    -> {"regex"}
    [] mode = "ml_only" -> {"regex", "ner"}
    [] OTHER            -> DOMAIN Rank

(* A detector that raises or runs into the five second timeout is not in   *)
(* on; the results of the others are used.                                 *)
RunDetectors(T, said, BadSum, on) ==
  LET result == [regex |-> RegexDetect(T, BadSum), heuristics |-> HeuristicDetect(T),
                 dictionary |-> DictionaryDetect(T),
                 contextual |-> ContextualDetect(T, said), ner |-> NerDetect(T)]
  IN  UNION {result[d] : d \in on}

(* Two spans overlap by more than half of the shorter, counted with both   *)
(* ends inclusive although e is exclusive.                                 *)
Overlaps(x, y) ==
  LET lo == AtLeast(x.s, y.s)
      hi == IF x.e < y.e THEN x.e ELSE y.e
      shorter == IF x.e - x.s < y.e - y.s THEN x.e - x.s ELSE y.e - y.s
  IN  /\ x.s <= y.e /\ x.e >= y.s
      /\ 2 * (hi - lo + 1) > shorter + 1

ByConfidence(x, y) ==
  \/ x.conf > y.conf
  \/ x.conf = y.conf /\ x.s < y.s
  \/ x.conf = y.conf /\ x.s = y.s /\ x.e < y.e
  \/ x.conf = y.conf /\ x.s = y.s /\ x.e = y.e /\ Rank[x.by] < Rank[y.by]

(* A plausible slip: only a span found twice over counts as a duplicate.   *)
KeepDistinct(kept, x) ==
  IF \E k \in DOMAIN kept : kept[k].s = x.s /\ kept[k].e = x.e THEN kept ELSE Append(kept, x)
KeepBest(kept, x) ==
  LET hits == {k \in DOMAIN kept : Overlaps(x, kept[k])}
  IN  IF hits = {} THEN Append(kept, x)
      ELSE IF x.conf > kept[Min(hits)].conf
           THEN Append(RemoveAt(kept, Min(hits)), x)
           ELSE kept

Deduplicate(found) ==
  LET best == InOrder(found, ByConfidence)
      kept[k \in 0..Len(best)] ==
        IF k = 0 THEN <<>> ELSE KeepBest(kept[k - 1], best[k])
  IN  kept[Len(best)]

(* No entity may touch a teaching address such as user@example.com.        *)
(* A plausible slip: teaching addresses are not looked for.                *)
DropNothing(T, ents) == ents
DropExampleOverlaps(T, ents) ==
  Only(ents, LAMBDA x : ~ \E i \in DOMAIN T :
                          IsExampleEmail(T[i]) /\ T[i].form = "raw"
                          /\ x.s <= i /\ i < x.e)

ByPosition(ents) == InOrder(Range(ents), LAMBDA x, y : x.s < y.s)

-----------------------------------------------------------------------------
(* Stage 3.  Scoring blends a weight per detection method with one per     *)
(* pattern, never below what the detector said.                            *)
Weight(x) ==
  CASE x.by = "regex" -> 900 [] x.by = "heuristics" -> 600
    [] x.by = "ner" -> 800
    [] x.by \in {"dictionary", "contextual"} ->        \* untagged: by the text
         IF x.type = "email" THEN 900 ELSE 700
PatternConfidence(x) ==
  CASE x.type = "email" -> 800 [] x.type = "phone" -> 700
    [] x.type = "name" -> 600 [] OTHER -> 500
BaseConfidence(x) == AtLeast(x.conf, (Weight(x) + PatternConfidence(x)) \div 2)

(* Boosts for personal words anywhere and for cue words near the entity,   *)
(* reductions for teaching words except for structured types.              *)
Booster == [email |-> [words |-> {"my", "personal", "private"}, each |-> 37],
            phone |-> [words |-> {"my", "personal"}, each |-> 37],
            name  |-> [words |-> {"my"}, each |-> 25],
            credit_card |-> [words |-> {"my"}, each |-> 75]]
Contextual(x, c, T, said) ==
  LET up == IF x.type \in DOMAIN Booster
            THEN Booster[x.type].each * Cardinality(said \cap Booster[x.type].words)
            ELSE 0
      cue == IF x.type = "email" /\ Cue \in Range(T) THEN 37 ELSE 0
      down == IF x.type \in Structured THEN 0
              ELSE 41 * Cardinality(said \cap Keywords.teaching)
  IN  Clip(c + up + cue - down)

(* 1000 / (1 + exp(-20 d)) for d thousandths above the mean, in steps.     *)
Sigmoid(d) ==
  IF d >= 200 THEN 990 ELSE IF d >= 125 THEN 950 ELSE IF d >= 75 THEN 880 ELSE IF d >= 25 THEN 730
  ELSE IF d > -25 THEN 500 ELSE IF d > -75 THEN 270 ELSE IF d > -125 THEN 120 ELSE IF d > -200 THEN 50
  ELSE 10

MinConfidence == 550

(* Spread around the mean; a structured value at 750 and a name at the     *)
(* floor keep what they had.                                               *)
Stretch(x, c, mean) ==
  LET blended == (7 * c + 3 * Sigmoid(c - mean)) \div 10
  IN  Clip(IF \/ x.type \in Structured /\ c >= 750
              \/ x.type = "name" /\ c >= MinConfidence
           THEN AtLeast(blended, c) ELSE blended)

Score(ents, T, said) ==
  LET raw  == [k \in DOMAIN ents |-> Contextual(ents[k], BaseConfidence(ents[k]), T, said)]
      mean == FoldLeft(LAMBDA a, b : a + b, 0, raw) \div AtLeast(1, Len(ents))
  IN  [k \in DOMAIN ents |-> [ents[k] EXCEPT !.conf = Stretch(ents[k], raw[k], mean)]]

StopwordName(x)  == x.type = "name" /\ \E c \in Range(x.txt) : c.of = "Please"
PassesFloor(x) ==
  /\ ~(x.type = "email" /\ IsExampleEmail(x.txt[1]))
  /\ x.conf >= MinConfidence
  /\ ~StopwordName(x)
HigherScore(x, y) == x.conf > y.conf \/ (x.conf = y.conf /\ x.s < y.s)
ByScore(ents) == InOrder(Range(ents), HigherScore)

TypeConfidence(x) ==
  CASE x.type = "email" -> 800 [] x.type = "phone" -> 700
    [] x.type = "credit_card" -> 900 [] x.type = "name" -> 600 [] OTHER -> 500
FallbackScore(ents) ==
  [k \in DOMAIN ents |-> [ents[k] EXCEPT !.conf = TypeConfidence(ents[k])]]

-----------------------------------------------------------------------------
(* Stage 4.  The configuration the pipeline hands the stage has two        *)
(* intents and neither relationships nor semantic contexts, so those two   *)
(* adjustments never apply.  The first intent of the highest score wins.   *)
Intent(said) ==
  LET n(w) == Cardinality(said \cap Keywords[w])
  IN  IF n("teaching") > 0 /\ n("teaching") >= n("personal") THEN "teaching"
      ELSE IF n("personal") > 0 THEN "personal" ELSE "neutral"

AdjustForIntent(x, intent) ==
  [x EXCEPT !.conf = Clip(
     CASE intent = "teaching" /\ x.type \in Structured ->
            IF x.type = "email" /\ IsExampleEmail(x.txt[1]) THEN @ - 150 ELSE @
       [] intent = "teaching" /\ x.type \notin Structured -> @ - 150
       [] intent = "personal" -> @ + 150
       [] OTHER -> @)]
ResolveContext(ents, said) ==
  [k \in DOMAIN ents |-> AdjustForIntent(ents[k], Intent(said))]
ValidInContext(x) ==
  /\ ~(x.type = "email" /\ IsExampleEmail(x.txt[1]))
  /\ x.conf >= 300

FallbackContext(ents, said) ==
  [k \in DOMAIN ents |->
     [ents[k] EXCEPT !.conf = Clip(
        IF said \cap Keywords.teaching # {}
        THEN IF ents[k].type \in Structured THEN @ ELSE (@ * 7) \div 10
        ELSE IF said \cap Keywords.personal # {} THEN (@ * 11) \div 10 ELSE @)]]

-----------------------------------------------------------------------------
(* Stage 5.  Fixed labels for phones and cards, labels with a hash of the  *)
(* value for addresses and names, and for other types a mask that depends  *)
(* on the confidence: a partial mask keeps the ends of the value readable. *)
Strategy(x) ==
  CASE x.type \in Structured -> "stable_hash"
    [] x.type = "name" -> "hash"
    [] OTHER -> IF x.conf >= 850 THEN "hash"
                ELSE IF x.conf >= 600 THEN "partial" ELSE "generic"
Mask(x) ==
  CASE Strategy(x) = "hash" \/ x.type = "email" -> Token(x.type, x.txt, "hash")
    [] Strategy(x) = "stable_hash" /\ x.type # "email" -> Token(x.type, <<>>, "stable")
    [] Strategy(x) = "partial" -> Token(x.type, x.txt, "partial")
    [] OTHER -> Token(x.type, <<>>, "generic")
GenericMask(x) == Token(x.type, <<>>, "generic")

RightToLeft(ents) == InOrder(Range(ents), LAMBDA x, y : x.s > y.s)
Maskable(x) == x.conf >= MinConfidence /\ ~StopwordName(x)

Replace(T, x, tok) == SubSeq(T, 1, x.s - 1) \o <<tok>> \o SubSeq(T, x.e, Len(T))
ApplyMasks(T, ents) ==
  LET seq == RightToLeft(ents)
      masked[k \in 0..Len(seq)] ==
        IF k = 0 THEN T
        ELSE IF Maskable(seq[k]) THEN Replace(masked[k - 1], seq[k], Mask(seq[k]))
        ELSE masked[k - 1]
  IN  masked[Len(seq)]

(* token -> value, from the entity mapping of the masking stage: a later   *)
(* entity of the right-to-left order overwrites an earlier one.            *)
MapOf(ents, tok) ==
  LET seq == RightToLeft(ents)
      at(t) == {k \in DOMAIN seq : tok[seq[k]] = t}
  IN  [t \in {tok[seq[k]] : k \in DOMAIN seq} |-> seq[Max(at(t))].txt]
Generic(ents) == [x \in Range(ents) |-> GenericMask(x)]
(* A plausible slip: the map is keyed by the fallback's labels.            *)
MapByLabel(ents) == MapOf(ents, Generic(ents))
MaskingMap(ents)  == MapOf(Only(ents, Maskable), [x \in Range(ents) |-> Mask(x)])
FallbackMap(ents) == MapOf(ents, Generic(ents))

Occurs(t, T) == \E i \in DOMAIN T : i + Len(t) - 1 <= Len(T)
                                    /\ SubSeq(T, i, i + Len(t) - 1) = t
MaskingValid(T, ents) ==
  \A k \in DOMAIN ents : Maskable(ents[k]) => ~Occurs(ents[k].txt, T)

-----------------------------------------------------------------------------
(* Stage 6.  Grammar, coherence (mask density) and impact, in thousandths, *)
(* weighted 3 : 4 : 3; a low score rewrites every bracketed mask.          *)
Bracketed(c) == c.kind = "tok" /\ c.form # "partial"
Count(T, P(_)) == Cardinality({i \in DOMAIN T : P(T[i])})
Grammar == 500                          \* one sentence of ordinary length
Coherence(T) ==
  LET density == (1000 * Count(T, Bracketed)) \div AtLeast(1, Len(T))
  IN  1000 - (IF density > 600 THEN (density - 600) \div 2 ELSE 0)
Impact(T, original) ==                  \* a mask costs 24% whatever it hides
  LET kept == {c \in Range(original) : c \in Range(T)}
  IN  (760 * Cardinality(kept)) \div Cardinality(Range(original))
Integrity(T, original) ==
  (3 * Grammar + 4 * Coherence(T) + 3 * Impact(T, original)) \div 10
MinCoherence == 500

Masked == Token("any", <<>>, "MASKED")
(* [PHONE_HASH] becomes [MASKED]; [EMAIL]_1a2b becomes [MASKED] _1a2b, two *)
(* words; a connector is put between two labels that touch.                *)
RepairCell(T, i) ==
  LET c == T[i]
      joined[j \in Nat] == /\ 0 < j /\ j < Len(T) /\ ~joined[j - 1]
                           /\ Bracketed(T[j]) /\ T[j].form # "hash"
                           /\ Bracketed(T[j + 1])
  IN  IF ~Bracketed(c) THEN <<c>>
      ELSE IF c.form = "hash" \/ joined[i] THEN <<Masked, Word>>
      ELSE <<Masked>>
Repair(T) == FlattenSeq([i \in DOMAIN T |-> RepairCell(T, i)])

FallbackIntegrityOk(T) ==
  LET most == 2 * Count(T, LAMBDA c : c = Masked) > Len(T)
      pair == \E i \in 1..(Len(T) - 1) : T[i] = Masked /\ T[i + 1] = Masked
  IN  (IF most THEN 500 ELSE 800) - (IF pair THEN 200 ELSE 0) >= 500

(* Stage 7.  The configuration the pipeline hands the stage has no leak    *)
(* patterns, so the main check only looks for labels with an underscore    *)
(* inside, as [PHONE_HASH]; the fallback looks for addresses.              *)
ConsistencyOk(T) == ~ \E i \in DOMAIN T :
                        \/ T[i].kind = "tok" /\ T[i].form = "stable"
                        \/ T[i].kind = "tok" /\ T[i].form = "generic" /\ T[i].type = "zip_code"
FallbackLeakFree(T) == ~ \E i \in DOMAIN T : IsEmail(T[i])
=============================================================================
