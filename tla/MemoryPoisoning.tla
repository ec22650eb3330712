----------------------------- MODULE MemoryPoisoning -----------------------------
(***************************************************************************)
(* How a memory write is scored (runtime/anchor/poisoning_classifier.py,   *)
(* memory_guard_lite.py, and the choice between the two in                 *)
(* memory_guard.py): which classifier a guard takes is decided once, by    *)
(* what is installed then; what the chosen one loads is decided when it    *)
(* first answers; the models' numbers are inputs.                          *)
(* Probabilities are in ten-thousandths; NaN stands below them.            *)
(***************************************************************************)
EXTENDS PhraseFilter, FiniteSets

CONSTANTS
  Texts,       \* what may be written: records, see Spelling
  PhraseGrams, \* the trigrams of the shipped phrases
  MaxScored     \* bound: writes scored

(* How a text spells a listed keyword or phrase, if it has one: literally, *)
(* with a zero-width space, with another invisible character or a          *)
(* confusable letter, in leetspeak.                                        *)
Spelling == {"none", "literal", "zerowidth", "folded", "leet"}

One == 10000
NaN == -1

(* A text that has a phrase in its canonical view has a trigram of it.     *)
ASSUME TextsAssumption ==
  /\ PhraseGrams \subseteq Gram
  /\ \A t \in Texts :
       /\ t.keyword \in Spelling /\ t.phrase \in Spelling /\ t.short \in BOOLEAN
       /\ t.rf \in 0..One \cup {NaN} /\ t.centroid \in 0..One \cup {NaN} /\ t.lite \in 0..One
       /\ t.phrase \notin {"none", "leet"} => t.grams \cap PhraseGrams # {}

VARIABLES
  disk,    \* the artifacts installed
  clf,     \* the guard's classifier: none, hardened or lite
  loaded,  \* what that classifier has loaded; Unloaded before its first answer
  asked    \* the texts scored, each with what was known then and the answer

mpvars == <<disk, clf, loaded, asked, pfvars>>

(* The embedding packages, the calibrated forest, the lite classifier's    *)
(* weights, the file of the phrase filter.                                 *)
Artifact == {"stack", "rf", "lite", "filter"}

SeenByHardened == {"literal", "zerowidth"}
SeenByLite == Spelling \ {"none"}

Unloaded == [rf |-> FALSE, lite |-> FALSE, filter |-> FALSE, ready |-> FALSE]

(* A mutant: the lite score first.                                         *)
LiteFirst(a, b) == IF b = NaN \/ a = NaN \/ b <= a THEN b ELSE a
(* Python's min keeps its first argument unless the second is less, and    *)
(* nothing is less than NaN.                                               *)
PyMin(a, b) == IF a = NaN \/ b = NaN \/ a <= b THEN a ELSE b

HardenedBands == [safe_max |-> 5000, block_min |-> 8500]
LiteBands == [safe_max |-> 3890, block_min |-> 9726]
Bucket(p, bands) ==
  IF p = NaN THEN "REVIEW"
  ELSE IF p >= bands.block_min THEN "BLOCK"
  ELSE IF p >= bands.safe_max THEN "REVIEW" ELSE "SAFE"

Fuse(a, b) == One - ((One - a) * (One - b)) \div One

(* The prefilter sees the canonical view only.                             *)
Prefilter(t, filter) == ~filter \/ \E g \in t.grams : InFilter(g)
PatternHit(t, filter) == IF t.phrase # "none" /\ Prefilter(t, filter) THEN 8500 ELSE 0

(* LitePoisoningClassifier.score.  Without weights every text is at one    *)
(* half.                                                                   *)
LiteProbability(t, l) ==
  IF t.keyword \in SeenByLite THEN One
  ELSE Fuse(PatternHit(t, l.filter), IF l.lite THEN t.lite ELSE 5000)
LiteScore(t, l) ==
  IF t.keyword \in SeenByLite THEN "BLOCK" ELSE Bucket(LiteProbability(t, l), LiteBands)

(* What a classifier created now loads.  A filter that cannot be read is   *)
(* left out.                                                               *)
LoadsNow ==
  [ rf |-> "rf" \in disk, lite |-> "lite" \in disk,
    filter |-> "filter" \in disk /\ payload.kind = "whole", ready |-> TRUE ]
Now == IF loaded.ready THEN loaded ELSE LoadsNow

(* PoisoningClassifier.score: where the forest fails the centroids answer; *)
(* a short text is also scored by a lite classifier created for it, if     *)
(* there is one to load.                                                   *)
Embedded(t, l) == IF l.rf /\ t.rf # NaN THEN t.rf ELSE t.centroid
HardenedScore(t, l) ==
  IF t.keyword \in SeenByHardened THEN "BLOCK"
  ELSE Bucket(IF t.short /\ "lite" \in disk
              THEN PyMin(Embedded(t, l), LiteProbability(t, LoadsNow)) ELSE Embedded(t, l),
              HardenedBands)

-----------------------------------------------------------------------------
MpInit ==
  /\ disk \in SUBSET Artifact
  /\ clf = "none" /\ loaded = Unloaded /\ asked = {}
  /\ inserted = PhraseGrams /\ width = Width /\ hashes = Hashes
  /\ bits = UNION {Positions(g, Hashes, Width) : g \in PhraseGrams}
  /\ \E kind \in {"whole", "short"} :
       payload = [kind |-> kind, bits |-> bits, width |-> Width, hashes |-> Hashes, inserted |-> PhraseGrams]

(* Models get downloaded and packages installed while the guard is there.  *)
Install(a) ==
  /\ a \notin disk
  /\ disk' = disk \cup {a}
  /\ UNCHANGED <<clf, loaded, asked, pfvars>>

(* MemoryGuard._classifier.                                                *)
Chosen ==
  IF clf # "none" THEN clf
  ELSE IF {"rf", "stack"} \cap disk # {} THEN "hardened"
  ELSE IF "lite" \in disk THEN "lite" ELSE "none"

Scored(t, answer) ==
  asked' = asked \cup {[text |-> t, clf |-> clf', rf |-> loaded'.rf, lite |-> "lite" \in disk, answer |-> answer]}

(* evaluate_memory of a write, as far as the poisoning score: without a    *)
(* classifier it raises; the hardened one raises where it has to encode    *)
(* and the packages are not there, unless a keyword has answered before.   *)
Score(t) ==
  /\ Cardinality(asked) < MaxScored
  /\ clf' = Chosen
  /\ \/ clf' = "none" /\ UNCHANGED loaded /\ Scored(t, "raise")
     \/ clf' = "lite" /\ loaded' = (IF t.keyword \in SeenByLite THEN loaded ELSE Now)
        /\ Scored(t, LiteScore(t, Now))
     \/ clf' = "hardened" /\ t.keyword \in SeenByHardened /\ UNCHANGED loaded
        /\ Scored(t, HardenedScore(t, Now))
     \/ clf' = "hardened" /\ t.keyword \notin SeenByHardened /\ loaded' = Now
        /\ Scored(t, IF "stack" \in disk THEN HardenedScore(t, Now) ELSE "raise")
  /\ UNCHANGED <<disk, pfvars>>

MpNext ==
  \/ \E a \in Artifact : Install(a)
  \/ \E t \in Texts : Score(t)

MpSpec == MpInit /\ [][MpNext]_mpvars

-----------------------------------------------------------------------------
MpTypeOK ==
  /\ disk \subseteq Artifact /\ clf \in {"none", "hardened", "lite"}
  /\ loaded \in [rf : BOOLEAN, lite : BOOLEAN, filter : BOOLEAN, ready : BOOLEAN]
  /\ \A a \in asked : a.answer \in {"SAFE", "REVIEW", "BLOCK", "raise"}

(* "Uncertain mid-band scores route to REVIEW, not ALLOW"                  *)
(* (memory_guard.py:26), also when the models give no number at all: a     *)
(* score that is not a number stays one through the blend with the lite    *)
(* score, however low that is.                                             *)
NoNumberIsNotSafe ==
  \A a \in asked :
    a.clf = "hardened" /\ a.text.centroid = NaN /\ (a.rf => a.text.rf = NaN) => a.answer # "SAFE"

(* "BLOCK requires agreement" (poisoning_classifier.py:196): that the lite *)
(* weights are there can make the answer to a text milder, never harsher   *)
(* than the same guard's answer without them.                              *)
Rank == [SAFE |-> 0, REVIEW |-> 1, BLOCK |-> 2]
AgreementOnlyRelaxes ==
  \A a, b \in asked :
    /\ a.text = b.text /\ a.clf = "hardened" /\ b.clf = "hardened" /\ a.rf = b.rf
    /\ "raise" \notin {a.answer, b.answer} /\ b.lite /\ ~a.lite
    => Rank[b.answer] <= Rank[a.answer]

(* The lite classifier never calls a phrase it knows SAFE, unless it is    *)
(* in leetspeak: what the filter in front of the scanner lets it skip has  *)
(* none, whichever weights and filter were loaded, and when.               *)
PhrasesAreFound ==
  \A a \in asked : a.clf = "lite" /\ a.text.phrase \notin {"none", "leet"} => a.answer # "SAFE"

(* Whatever is missing, a score errs on the side of caution, and installing*)
(* more makes it no harsher.                                               *)
ScoresErrOnTheSafeSide == PfTypeOK /\ MpTypeOK /\ NoNumberIsNotSafe /\ AgreementOnlyRelaxes /\ PhrasesAreFound
=============================================================================
