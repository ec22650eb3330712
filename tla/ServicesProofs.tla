--------------------------- MODULE ServicesProofs ---------------------------
(* Theorems of the modules for the services that calls use: ModelStore,    *)
(* PhraseFilter, PhraseMatcher, MemoryPoisoning, RunTrace, RequestMetrics  *)
(* and LocalAdvisor, for any threads, texts, patterns, machines and sizes. *)
EXTENDS ModelStore, PhraseMatcher, MemoryPoisoning, RunTrace, RequestMetrics,
        LocalAdvisor, DataLemmas

-----------------------------------------------------------------------------
(* ModelStore                                                              *)

(* Whoever is past the second look has the lock.                           *)
OneCopies == \A t \in Asker : at[t] \in {"entered", "copying", "marking"} => holder = t

(* Files are copied only to a directory without a marker.                  *)
UnmarkedTarget == \A t \in Asker : at[t] \in {"copying", "marking"} => target[t] \notin marked

(* What is no longer to be copied is whole, and what is torn still is.     *)
CopySoFar ==
  \A t \in Asker :
    /\ at[t] \in {"copying", "marking"} =>
         Model \ left[t] \subseteq whole[target[t]] /\ torn[target[t]] \subseteq left[t]
    /\ at[t] = "copying" => filling[t] \subseteq left[t]
    /\ at[t] = "marking" => left[t] = {}

StoreInv ==
  StoreTypeOK /\ DownloadedOnce /\ OneCopies /\ UnmarkedTarget /\ CopySoFar /\ MarkerMeansWhole

LEMMA StoreInitInvariant == StoreInit => StoreInv
<1>. SUFFICES ASSUME StoreInit PROVE StoreInv
  OBVIOUS
<1>1. StoreTypeOK
  BY StoreAssumption DEF StoreInit, StoreTypeOK
<1>2. DownloadedOnce /\ OneCopies /\ UnmarkedTarget /\ CopySoFar /\ MarkerMeansWhole
  BY DEF StoreInit, DownloadedOnce, OneCopies, UnmarkedTarget, CopySoFar, MarkerMeansWhole
<1>. QED BY <1>1, <1>2 DEF StoreInv

-----------------------------------------------------------------------------

(* Types, one action at a time.                                            *)
LEMMA StoreStepTypes == StoreTypeOK /\ [StoreNext]_storevars => StoreTypeOK'
<1>. SUFFICES ASSUME StoreTypeOK, [StoreNext]_storevars PROVE StoreTypeOK'
  OBVIOUS
<1>. USE DEF StoreTypeOK, files
<1>1. CASE Restart
  BY <1>1 DEF Restart
<1>2. ASSUME NEW t \in Asker, NEW d \in Dir, Ensure(t, d) PROVE StoreTypeOK'
  BY <1>2 DEF Ensure
<1>3. ASSUME NEW t \in Asker, Enter(t) PROVE StoreTypeOK'
  BY <1>3 DEF Enter
<1>4. ASSUME NEW t \in Asker, LookAgain(t) PROVE StoreTypeOK'
  <2>. DEFINE d == target[t]
  <2>1. CASE LeaveWith(t, "ready") /\ UNCHANGED <<attempted, downloads, from, left>>
    BY <1>4, <2>1 DEF LookAgain, LeaveWith
  <2>2. CASE LeaveWith(t, "missing") /\ UNCHANGED <<attempted, downloads, from, left>>
    BY <1>4, <2>2 DEF LookAgain, LeaveWith
  <2>3. CASE attempted' = TRUE /\ downloads' = downloads + 1
             /\ Copying(t, "download") /\ UNCHANGED <<holder, told>>
    BY <1>4, <2>3 DEF LookAgain, Copying
  <2>. QED BY <1>4, <2>1, <2>2, <2>3 DEF LookAgain
<1>5. ASSUME NEW t \in Asker, StepFails(t) PROVE StoreTypeOK'
  <2>1. CASE Copying(t, "zip") /\ UNCHANGED <<holder, told>>
    BY <1>5, <2>1 DEF StepFails, Copying
  <2>2. CASE LeaveWith(t, "missing") /\ UNCHANGED <<from, left>>
    BY <1>5, <2>2 DEF StepFails, LeaveWith
  <2>. QED BY <1>5, <2>1, <2>2 DEF StepFails, Fails
<1>6. ASSUME NEW t \in Asker, BeginFile(t) PROVE StoreTypeOK'
  BY <1>6 DEF BeginFile
<1>7. ASSUME NEW t \in Asker, EndFile(t) PROVE StoreTypeOK'
  BY <1>7 DEF EndFile
<1>8. ASSUME NEW t \in Asker, Copied(t) PROVE StoreTypeOK'
  BY <1>8 DEF Copied
<1>9. ASSUME NEW t \in Asker, Mark(t) PROVE StoreTypeOK'
  BY <1>9 DEF Mark, LeaveWith
<1>10. ASSUME NEW t \in Asker, Reply(t) PROVE StoreTypeOK'
  BY <1>10 DEF Reply
<1>11. CASE UNCHANGED storevars
  BY <1>11 DEF storevars
<1>. QED
  BY <1>1, <1>2, <1>3, <1>4, <1>5, <1>6, <1>7, <1>8, <1>9, <1>10, <1>11 DEF StoreNext, StoreStep

-----------------------------------------------------------------------------

(* The lock, what is copied under it, and the marker, one action at a time.*)
Kept == OneCopies /\ UnmarkedTarget /\ CopySoFar /\ MarkerMeansWhole /\ DownloadedOnce

LEMMA KeptByLooking ==
  ASSUME StoreInv, NEW t \in Asker, LookAgain(t)
  PROVE  Kept'
<1>. USE DEF StoreInv, StoreTypeOK, files
<1>1. at[t] = "entered" /\ holder = t /\ \A u \in Asker \ {t} : at[u] \notin {"entered", "copying", "marking"}
  BY DEF LookAgain, OneCopies
<1>2. UNCHANGED <<whole, torn, marked, target, filling, disabled>>
  BY DEF LookAgain
<1>3. CASE at' = [at EXCEPT ![t] = "returned"] /\ left' = left /\ UNCHANGED <<attempted, downloads>>
  <2>1. \A u \in Asker : at'[u] \notin {"entered", "copying", "marking"}
    BY <1>1, <1>3
  <2>. QED BY <1>2, <1>3, <2>1 DEF Kept, OneCopies, UnmarkedTarget, CopySoFar, MarkerMeansWhole, DownloadedOnce
<1>4. CASE /\ ~Populated(target[t]) /\ ~disabled /\ ~attempted
           /\ attempted' = TRUE /\ downloads' = downloads + 1 /\ holder' = holder
           /\ left' = [left EXCEPT ![t] = Model] /\ at' = [at EXCEPT ![t] = "copying"]
  <2>1. at'[t] = "copying" /\ left'[t] = Model /\ \A u \in Asker \ {t} : at'[u] \notin {"entered", "copying", "marking"}
    BY <1>1, <1>4
  <2>2. target[t] \notin marked
    BY <1>4 DEF Populated
  <2>3. OneCopies' /\ UnmarkedTarget'
    BY <1>1, <1>2, <1>4, <2>1, <2>2 DEF OneCopies, UnmarkedTarget
  <2>4. CopySoFar'
    BY <1>2, <2>1 DEF CopySoFar
  <2>5. MarkerMeansWhole'
    BY <1>2 DEF MarkerMeansWhole
  <2>6. DownloadedOnce'
    BY <1>2, <1>4 DEF DownloadedOnce
  <2>. QED BY <2>3, <2>4, <2>5, <2>6 DEF Kept
<1>. QED BY <1>3, <1>4 DEF LookAgain, LeaveWith, Copying

LEMMA KeptByFailing ==
  ASSUME StoreInv, NEW t \in Asker, StepFails(t)
  PROVE  Kept'
<1>. USE DEF StoreInv, StoreTypeOK, files
<1>1. at[t] = "copying" /\ holder = t /\ \A u \in Asker \ {t} : at[u] \notin {"entered", "copying", "marking"}
  BY DEF StepFails, OneCopies
<1>2. UNCHANGED <<whole, torn, marked, target, disabled, attempted, downloads>> /\ filling' = [filling EXCEPT ![t] = {}]
  BY DEF StepFails
<1>3. CASE LeaveWith(t, "missing")
  <2>1. \A u \in Asker : at'[u] \notin {"entered", "copying", "marking"}
    BY <1>1, <1>3 DEF LeaveWith
  <2>. QED BY <1>2, <2>1 DEF Kept, OneCopies, UnmarkedTarget, CopySoFar, MarkerMeansWhole, DownloadedOnce
<1>4. CASE Copying(t, "zip") /\ holder' = holder
  <2>1. at'[t] = "copying" /\ left'[t] = Model /\ \A u \in Asker \ {t} : at'[u] \notin {"entered", "copying", "marking"}
    BY <1>1, <1>4 DEF Copying
  <2>2. OneCopies' /\ UnmarkedTarget'
    BY <1>1, <1>2, <1>4, <2>1 DEF OneCopies, UnmarkedTarget
  <2>3. CopySoFar'
    BY <1>2, <2>1 DEF CopySoFar
  <2>. QED BY <1>2, <2>2, <2>3 DEF Kept, MarkerMeansWhole, DownloadedOnce
<1>. QED BY <1>3, <1>4 DEF StepFails, Fails

LEMMA KeptByCopying ==
  ASSUME StoreInv, NEW t \in Asker, BeginFile(t) \/ EndFile(t) \/ Copied(t)
  PROVE  Kept'
<1>. USE DEF StoreInv, StoreTypeOK, files
<1>1. at[t] = "copying" /\ holder = t /\ \A u \in Asker \ {t} : at[u] \notin {"entered", "copying", "marking"}
  BY DEF BeginFile, EndFile, Copied, OneCopies
<1>2. UNCHANGED <<marked, target, disabled, attempted, downloads, holder>>
  BY DEF BeginFile, EndFile, Copied
<1>3. at'[t] \in {"copying", "marking"} /\ \A u \in Asker \ {t} : at'[u] \notin {"entered", "copying", "marking"}
  BY <1>1 DEF BeginFile, EndFile, Copied
<1>4. target[t] \notin marked
  BY <1>1 DEF UnmarkedTarget
<1>5. OneCopies' /\ UnmarkedTarget' /\ DownloadedOnce'
  BY <1>1, <1>2, <1>3, <1>4 DEF OneCopies, UnmarkedTarget, DownloadedOnce
<1>6. MarkerMeansWhole'
  <2>1. \A d \in Dir \ {target[t]} : whole'[d] = whole[d] /\ torn'[d] = torn[d]
    BY DEF BeginFile, EndFile, Copied
  <2>. QED BY <1>2, <1>4, <2>1 DEF MarkerMeansWhole
<1>7. CopySoFar'
  <2>1. /\ Model \ left'[t] \subseteq whole'[target[t]] /\ torn'[target[t]] \subseteq left'[t]
        /\ at'[t] = "copying" => filling'[t] \subseteq left'[t]
        /\ at'[t] = "marking" => left'[t] = {}
    <3>0. Model \ left[t] \subseteq whole[target[t]] /\ torn[target[t]] \subseteq left[t] /\ filling[t] \subseteq left[t]
      BY <1>1 DEF CopySoFar
    <3>1. CASE BeginFile(t)
      BY <1>1, <3>0, <3>1 DEF BeginFile
    <3>2. CASE EndFile(t)
      BY <1>1, <3>0, <3>2 DEF EndFile
    <3>3. CASE Copied(t)
      BY <1>1, <3>0, <3>3 DEF Copied
    <3>. QED BY <3>1, <3>2, <3>3
  <2>. QED BY <1>2, <1>3, <2>1 DEF CopySoFar
<1>. QED BY <1>5, <1>6, <1>7 DEF Kept

LEMMA KeptByMarking ==
  ASSUME StoreInv, NEW t \in Asker, Mark(t)
  PROVE  Kept'
<1>. USE DEF StoreInv, StoreTypeOK, files
<1>1. at[t] = "marking" /\ \A u \in Asker \ {t} : at[u] \notin {"entered", "copying", "marking"}
  BY DEF Mark, OneCopies
<1>2. UNCHANGED <<whole, torn, disabled, attempted, downloads>> /\ marked' \subseteq marked \cup {target[t]}
  BY DEF Mark
<1>3. \A u \in Asker : at'[u] \notin {"entered", "copying", "marking"}
  BY <1>1 DEF Mark, LeaveWith
<1>4. whole[target[t]] = Model /\ torn[target[t]] = {}
  <2>1. left[t] = {} /\ Model \ left[t] \subseteq whole[target[t]] /\ torn[target[t]] \subseteq left[t]
    BY <1>1 DEF CopySoFar
  <2>2. whole[target[t]] \subseteq Model
    OBVIOUS
  <2>. QED BY <2>1, <2>2
<1>5. MarkerMeansWhole'
  BY <1>2, <1>4 DEF MarkerMeansWhole
<1>6. DownloadedOnce'
  BY <1>2 DEF DownloadedOnce
<1>7. OneCopies' /\ UnmarkedTarget' /\ CopySoFar'
  BY <1>3 DEF OneCopies, UnmarkedTarget, CopySoFar
<1>. QED BY <1>5, <1>6, <1>7 DEF Kept

LEMMA StoreStepKeeps == StoreInv /\ [StoreNext]_storevars => Kept'
<1>. SUFFICES ASSUME StoreInv, [StoreNext]_storevars PROVE Kept'
  OBVIOUS
<1>. USE DEF StoreInv, StoreTypeOK, Kept, files
<1>1. CASE Restart
  BY <1>1 DEF Restart, OneCopies, UnmarkedTarget, CopySoFar, MarkerMeansWhole, DownloadedOnce
<1>2. ASSUME NEW t \in Asker, NEW d \in Dir, Ensure(t, d) PROVE Kept'
  <2>1. at'[t] \notin {"entered", "copying", "marking"}
        /\ \A u \in Asker \ {t} : at'[u] = at[u] /\ target'[u] = target[u]
    BY <1>2 DEF Ensure
  <2>. QED
    BY <1>2, <2>1 DEF Ensure, OneCopies, UnmarkedTarget, CopySoFar, MarkerMeansWhole, DownloadedOnce
<1>3. ASSUME NEW t \in Asker, Enter(t) PROVE Kept'
  <2>1. at'[t] = "entered" /\ holder' = t
        /\ \A u \in Asker \ {t} : at'[u] = at[u] /\ at[u] \notin {"entered", "copying", "marking"}
    BY <1>3, StoreAssumption DEF Enter, OneCopies
  <2>. QED
    BY <1>3, <2>1 DEF Enter, OneCopies, UnmarkedTarget, CopySoFar, MarkerMeansWhole, DownloadedOnce
<1>4. ASSUME NEW t \in Asker, Reply(t) PROVE Kept'
  <2>1. at'[t] = "idle" /\ \A u \in Asker \ {t} : at'[u] = at[u]
    BY <1>4 DEF Reply
  <2>. QED
    BY <1>4, <2>1 DEF Reply, OneCopies, UnmarkedTarget, CopySoFar, MarkerMeansWhole, DownloadedOnce
<1>5. CASE UNCHANGED storevars
  BY <1>5 DEF storevars, OneCopies, UnmarkedTarget, CopySoFar, MarkerMeansWhole, DownloadedOnce
<1>6. ASSUME NEW t \in Asker, StoreStep(t) PROVE Kept'
  BY <1>3, <1>4, <1>6, KeptByLooking, KeptByFailing, KeptByCopying, KeptByMarking DEF StoreStep
<1>. QED BY <1>1, <1>2, <1>5, <1>6 DEF StoreNext

LEMMA StoreInvariance == StoreSpec => []StoreInv
<1>1. StoreInv /\ [StoreNext]_storevars => StoreInv'
  BY StoreStepTypes, StoreStepKeeps DEF StoreInv, Kept
<1>. QED BY StoreInitInvariant, <1>1, PTL DEF StoreSpec

-----------------------------------------------------------------------------

(* The directories, the lock and what each thread is doing stay what they  *)
(* are declared to be, with any number of restarts (model_store.py).       *)
THEOREM StoreTypes == StoreSpec => []StoreTypeOK
<1>1. StoreInv => StoreTypeOK
  BY DEF StoreInv
<1>. QED BY StoreInvariance, <1>1, PTL

(* A process begins at most one download, and none where downloads are     *)
(* disabled, however many threads ask for however many directories ("Safe  *)
(* to call from hot paths (locked, once)", model_store.py:160).            *)
THEOREM DownloadsHappenOnce == StoreSpec => []DownloadedOnce
<1>1. StoreInv => DownloadedOnce
  BY DEF StoreInv
<1>. QED BY StoreInvariance, <1>1, PTL

(* A marker is never left on a directory that lacks a file, whichever copy *)
(* fails and whenever the process dies (_write_marker after _merge_tree).  *)
THEOREM MarkersAreTrue == StoreSpec => []MarkerMeansWhole
<1>1. StoreInv => MarkerMeansWhole
  BY DEF StoreInv
<1>. QED BY StoreInvariance, <1>1, PTL

(* model_store.py: a process downloads once, and a marker is never on a    *)
(* directory that lacks a model, through failures and restarts.            *)
THEOREM StoreSound == StoreSpec => []StoreIsSound
BY StoreTypes, DownloadsHappenOnce, MarkersAreTrue, PTL DEF StoreIsSound

-----------------------------------------------------------------------------
(* PhraseFilter                                                            *)

(* The file is one that this program wrote, and what was in the filter when*)
(* it was written can be found with what the file says.                    *)
FileOfOurs ==
  /\ payload \in [ kind : {"none", "whole", "short"}, bits : SUBSET (0..(Width - 1)), width : {0, Width},
                   hashes : {0, Hashes}, inserted : SUBSET Gram ]
  /\ payload.kind # "none" => payload.width = Width /\ payload.hashes = Hashes
  /\ payload.kind # "none" => \A g \in payload.inserted : Positions(g, Hashes, Width) \subseteq payload.bits

PfInv == PfTypeOK /\ FileOfOurs /\ NoFalseNegatives

LEMMA WidthInBytes == 8 * (Width \div 8) = Width
BY FilterAssumption

LEMMA PositionsInWidth ==
  ASSUME NEW g \in Gram
  PROVE  Positions(g, Hashes, Width) \subseteq 0..(Width - 1)
<1>1. ASSUME NEW i \in 0..(Hashes - 1)
      PROVE (Hash1[g] + i * Hash2[g]) % Width \in 0..(Width - 1)
  <2>1. Hash1[g] \in Nat /\ Hash2[g] \in Nat /\ i \in Nat /\ Width \in Nat /\ Width > 0
    BY FilterAssumption
  <2>2. i * Hash2[g] \in Nat
    BY <2>1
  <2>3. PICK n \in Nat : n = Hash1[g] + i * Hash2[g]
    BY <2>1, <2>2
  <2>4. n % Width \in 0..(Width - 1)
    BY <2>1
  <2>. QED BY <2>3, <2>4
<1>. QED BY <1>1 DEF Positions

LEMMA PfInitInvariant == PfInit => PfInv
<1>. SUFFICES ASSUME PfInit PROVE PfInv
  OBVIOUS
<1>1. PfTypeOK
  BY DEF PfInit, PfTypeOK, Filter, NoFile
<1>2. FileOfOurs
  BY DEF PfInit, FileOfOurs, NoFile
<1>3. NoFalseNegatives
  BY DEF PfInit, NoFalseNegatives
<1>. QED BY <1>1, <1>2, <1>3 DEF PfInv

LEMMA FilterFields ==
  ASSUME PfTypeOK
  PROVE  bits \subseteq 0..(Width - 1) /\ width = Width /\ hashes = Hashes /\ inserted \subseteq Gram
BY DEF PfTypeOK, Filter

LEMMA PfStepInvariant == PfInv /\ [PfNext]_pfvars => PfInv'
<1>. SUFFICES ASSUME PfInv, [PfNext]_pfvars PROVE PfInv'
  OBVIOUS
<1>. USE DEF PfInv
<1>1. bits \subseteq 0..(Width - 1) /\ width = Width /\ hashes = Hashes /\ inserted \subseteq Gram
  BY FilterFields
<1>2. ASSUME NEW g \in Gram, Insert(g) PROVE PfInv'
  <2>1. bits' = bits \cup Positions(g, Hashes, Width) /\ inserted' = inserted \cup {g}
        /\ width' = Width /\ hashes' = Hashes /\ payload' = payload
    BY <1>1, <1>2 DEF Insert
  <2>2. bits' \subseteq 0..(Width - 1)
    BY <1>1, <2>1, PositionsInWidth
  <2>3. PfTypeOK'
    BY <1>1, <2>1, <2>2 DEF PfTypeOK, Filter
  <2>4. FileOfOurs'
    BY <2>1 DEF FileOfOurs
  <2>5. NoFalseNegatives'
    BY <1>1, <2>1 DEF NoFalseNegatives, InFilter
  <2>. QED BY <2>3, <2>4, <2>5
<1>3. CASE ToBytes
  <2>1. payload' = [kind |-> "whole", bits |-> bits, width |-> Width, hashes |-> Hashes, inserted |-> inserted]
        /\ bits' = bits /\ width' = width /\ hashes' = hashes /\ inserted' = inserted
    BY <1>1, <1>3 DEF ToBytes
  <2>2. PfTypeOK'
    BY <1>1, <2>1 DEF PfTypeOK, Filter
  <2>3. NoFalseNegatives' /\ \A g \in inserted : Positions(g, Hashes, Width) \subseteq bits
    BY <1>1, <2>1 DEF NoFalseNegatives, InFilter
  <2>4. FileOfOurs'
    BY <1>1, <2>1, <2>3 DEF FileOfOurs
  <2>. QED BY <2>2, <2>3, <2>4
<1>4. CASE CutShort
  <2>1. payload' = [payload EXCEPT !.kind = "short"] /\ payload.kind = "whole"
        /\ bits' = bits /\ width' = width /\ hashes' = hashes /\ inserted' = inserted
    BY <1>4 DEF CutShort
  <2>2. payload' \in [ kind : {"none", "whole", "short"}, bits : SUBSET (0..(Width - 1)), width : {0, Width},
                       hashes : {0, Hashes}, inserted : SUBSET Gram ]
        /\ payload'.kind = "short" /\ payload'.bits = payload.bits /\ payload'.width = payload.width
        /\ payload'.hashes = payload.hashes /\ payload'.inserted = payload.inserted
    BY <2>1 DEF FileOfOurs
  <2>3. FileOfOurs'
    BY <2>1, <2>2 DEF FileOfOurs
  <2>4. PfTypeOK'
    BY <2>1, <2>2 DEF PfTypeOK
  <2>5. NoFalseNegatives'
    BY <2>1 DEF NoFalseNegatives, InFilter
  <2>. QED BY <2>3, <2>4, <2>5
<1>5. CASE FromBytes
  <2>1. payload.kind = "whole" /\ bits' = payload.bits /\ width' = Width /\ hashes' = Hashes
        /\ inserted' = payload.inserted /\ payload' = payload
    BY <1>5, WidthInBytes DEF FromBytes, FileOfOurs
  <2>2. PfTypeOK'
    BY <2>1 DEF PfTypeOK, Filter, FileOfOurs
  <2>3. NoFalseNegatives'
    BY <2>1 DEF NoFalseNegatives, InFilter, FileOfOurs
  <2>4. FileOfOurs'
    BY <2>1 DEF FileOfOurs
  <2>. QED BY <2>2, <2>3, <2>4
<1>6. CASE UNCHANGED pfvars
  BY <1>6 DEF pfvars, PfTypeOK, FileOfOurs, NoFalseNegatives, InFilter
<1>. QED BY <1>2, <1>3, <1>4, <1>5, <1>6 DEF PfNext

-----------------------------------------------------------------------------

LEMMA PfInvariance == PfSpec => []PfInv
BY PfInitInvariant, PfStepInvariant, PTL DEF PfSpec

(* A filter keeps its width and its number of hashes, and every position it*)
(* sets is in range, through any number of additions, files and readings   *)
(* (bloom_filter.py).                                                      *)
THEOREM FilterTypes == PfSpec => []PfTypeOK
<1>1. PfInv => PfTypeOK
  BY DEF PfInv
<1>. QED BY PfInvariance, <1>1, PTL

(* A filter never denies an item that was added to it, whatever the items, *)
(* the width, the number of hashes and the two hash functions: the scanner *)
(* skips a text only when no phrase can be in it (bloom_filter.py).        *)
THEOREM NothingAddedIsDenied == PfSpec => []NoFalseNegatives
<1>1. PfInv => NoFalseNegatives
  BY DEF PfInv
<1>. QED BY PfInvariance, <1>1, PTL

-----------------------------------------------------------------------------
(* MemoryPoisoning                                                         *)

(* The filter is the shipped one.                                          *)
ShippedFilter ==
  /\ inserted = PhraseGrams /\ width = Width /\ hashes = Hashes
  /\ bits = UNION {Positions(g, Hashes, Width) : g \in PhraseGrams}
  /\ payload \in [kind : {"whole", "short"}, bits : {bits}, width : {Width}, hashes : {Hashes}, inserted : {PhraseGrams}]

(* What an answer was made of.                                             *)
ForestOrCentroid(t, rf) == IF rf /\ t.rf # NaN THEN t.rf ELSE t.centroid

(* What an answer was made of.                                             *)
HardenedAnswer(t, rf, lite, answer) ==
  IF t.keyword \in SeenByHardened THEN answer = "BLOCK"
  ELSE \E p \in Int : answer = Bucket(IF t.short /\ lite THEN PyMin(ForestOrCentroid(t, rf), p) ELSE ForestOrCentroid(t, rf),
                                      HardenedBands)

(* What was asked, and how the hardened classifier came to its answer.     *)
AskedOfTexts ==
  \A a \in asked :
    /\ a.text \in Texts /\ a.rf \in BOOLEAN /\ a.lite \in BOOLEAN
    /\ a.clf = "hardened" => a.answer = "raise" \/ HardenedAnswer(a.text, a.rf, a.lite, a.answer)

MpInv == ShippedFilter /\ MpTypeOK /\ AskedOfTexts /\ PhrasesAreFound

(* Which bands there are, and which one a score without a number is in.    *)
LEMMA BandOfScore ==
  ASSUME NEW p \in Int
  PROVE  /\ Bucket(p, HardenedBands) \in {"SAFE", "REVIEW", "BLOCK"}
         /\ Bucket(p, LiteBands) \in {"SAFE", "REVIEW", "BLOCK"}
         /\ p >= 8500 => Bucket(p, LiteBands) # "SAFE"
         /\ Bucket(NaN, HardenedBands) = "REVIEW"
BY DEF Bucket, HardenedBands, LiteBands, NaN

(* A lower score is not judged more harshly.                               *)
LEMMA LowerIsMilder ==
  ASSUME NEW p \in Int, NEW q \in Int, p <= q, p # NaN, q # NaN
  PROVE  Rank[Bucket(p, HardenedBands)] <= Rank[Bucket(q, HardenedBands)]
<1>1. Rank["SAFE"] = 0 /\ Rank["REVIEW"] = 1 /\ Rank["BLOCK"] = 2
  BY DEF Rank
<1>2. /\ Bucket(p, HardenedBands) = IF p >= 8500 THEN "BLOCK" ELSE IF p >= 5000 THEN "REVIEW" ELSE "SAFE"
      /\ Bucket(q, HardenedBands) = IF q >= 8500 THEN "BLOCK" ELSE IF q >= 5000 THEN "REVIEW" ELSE "SAFE"
  BY DEF Bucket, HardenedBands
<1>. QED BY <1>1, <1>2

(* The scores of a text are numbers.                                       *)
LEMMA NumbersOfText ==
  ASSUME NEW t \in Texts, NEW rf \in BOOLEAN
  PROVE  ForestOrCentroid(t, rf) \in Int /\ t.lite \in 0..One /\ t.short \in BOOLEAN
<1>1. /\ t.rf \in 0..One \cup {NaN} /\ t.centroid \in 0..One \cup {NaN}
      /\ t.lite \in 0..One /\ t.short \in BOOLEAN
  BY TextsAssumption
<1>2. \A x \in 0..One \cup {NaN} : x \in Int
  BY DEF NaN
<1>3. t.rf \in Int /\ t.centroid \in Int
  BY <1>1, <1>2
<1>. QED BY <1>1, <1>3 DEF ForestOrCentroid

(* What fuses two scores is not below the first.                           *)
LEMMA FusedIsHigher ==
  ASSUME NEW a \in {0, 8500}, NEW b \in 0..One
  PROVE  Fuse(a, b) \in Int /\ a <= Fuse(a, b)
<1>1. CASE a = 0
  <2>1. (One * (One - b)) \div One = One - b
    BY DEF One
  <2>. QED BY <1>1, <2>1 DEF Fuse, One
<1>2. CASE a = 8500
  <2>1. (1500 * (One - b)) \div One <= 1500 /\ (1500 * (One - b)) \div One \in Int
    BY DEF One
  <2>. QED BY <1>2, <2>1 DEF Fuse, One
<1>. QED BY <1>1, <1>2

(* The filter never lets a phrase of the canonical view go unscanned.      *)
LEMMA PhraseIsScanned ==
  ASSUME ShippedFilter, NEW t \in Texts, NEW filter \in BOOLEAN
  PROVE  /\ PatternHit(t, filter) \in {0, 8500}
         /\ t.phrase \notin {"none", "leet"} => PatternHit(t, filter) = 8500
<1>1. ASSUME t.phrase \notin {"none", "leet"} PROVE Prefilter(t, filter)
  <2>1. PICK g \in t.grams : g \in PhraseGrams
    BY <1>1, TextsAssumption
  <2>2. Positions(g, Hashes, Width) \subseteq bits
    BY <2>1 DEF ShippedFilter
  <2>. QED BY <2>2 DEF Prefilter, InFilter, ShippedFilter
<1>. QED BY <1>1 DEF PatternHit

(* The lite score is a number, and of a listed phrase it is not SAFE.      *)
LEMMA LiteIsANumber ==
  ASSUME ShippedFilter, NEW t \in Texts, NEW l, l.filter \in BOOLEAN, l.lite \in BOOLEAN
  PROVE  /\ LiteProbability(t, l) \in Int
         /\ t.phrase \notin {"none", "leet"} => LiteProbability(t, l) >= 8500
<1>1. PICK f \in BOOLEAN : f = l.filter
  OBVIOUS
<1>2. PICK h \in {0, 8500} : h = PatternHit(t, f) /\ (t.phrase \notin {"none", "leet"} => h = 8500)
  BY <1>1, PhraseIsScanned
<1>3. PICK w \in 0..One : w = IF l.lite THEN t.lite ELSE 5000
  <2>1. t.lite \in 0..One /\ 5000 \in 0..One
    BY NumbersOfText, SMTT(30) DEF One
  <2>. QED BY <2>1
<1>4. LiteProbability(t, l) = IF t.keyword \in SeenByLite THEN One ELSE Fuse(h, w)
  <2>1. LiteProbability(t, l) =
          IF t.keyword \in SeenByLite THEN One
          ELSE Fuse(PatternHit(t, l.filter), IF l.lite THEN t.lite ELSE 5000)
    BY DEF LiteProbability
  <2>. QED BY <1>1, <1>2, <1>3, <2>1
<1>5. Fuse(h, w) \in Int /\ h <= Fuse(h, w)
  BY FusedIsHigher
<1>. QED BY <1>2, <1>4, <1>5 DEF One

(* The shipped filter has its types.                                       *)
LEMMA ShippedTypes == ShippedFilter => PfTypeOK
<1>. SUFFICES ASSUME ShippedFilter PROVE PfTypeOK
  OBVIOUS
<1>1. PhraseGrams \subseteq Gram
  BY TextsAssumption
<1>2. bits \subseteq 0..(Width - 1)
  BY <1>1, PositionsInWidth DEF ShippedFilter
<1>. QED BY <1>1, <1>2 DEF ShippedFilter, PfTypeOK, Filter

(* The invariant holds of the classifiers as they are shipped.             *)
LEMMA MpInitInvariant == MpInit => MpInv
<1>. SUFFICES ASSUME MpInit PROVE MpInv
  OBVIOUS
<1>1. ShippedFilter
  BY DEF MpInit, ShippedFilter
<1>2. MpTypeOK
  BY DEF MpInit, MpTypeOK, Unloaded
<1>3. AskedOfTexts /\ PhrasesAreFound
  BY DEF MpInit, AskedOfTexts, PhrasesAreFound
<1>. QED BY <1>1, <1>2, <1>3 DEF MpInv

(* A filter that is loaded is the shipped one.                             *)
LEMMA LoadedNow ==
  ASSUME MpTypeOK
  PROVE  /\ LoadsNow \in [rf : BOOLEAN, lite : BOOLEAN, filter : BOOLEAN, ready : BOOLEAN]
         /\ Now \in [rf : BOOLEAN, lite : BOOLEAN, filter : BOOLEAN, ready : BOOLEAN]
BY DEF MpTypeOK, Now, LoadsNow

(* What the hardened classifier's answer was made of.                      *)
LEMMA HardenedAnswers ==
  ASSUME ShippedFilter, MpTypeOK, NEW t \in Texts, NEW rf \in BOOLEAN, NEW answer,
         answer = HardenedScore(t, Now), t.keyword \notin SeenByHardened => rf = Now.rf
  PROVE  /\ HardenedAnswer(t, rf, "lite" \in disk, answer)
         /\ answer \in {"SAFE", "REVIEW", "BLOCK"}
<1>1. CASE t.keyword \in SeenByHardened
  BY <1>1 DEF HardenedScore, HardenedAnswer
<1>2. CASE t.keyword \notin SeenByHardened
  <2>1. PICK e \in Int : e = ForestOrCentroid(t, rf)
    BY NumbersOfText
  <2>2. Embedded(t, Now) = e
    BY <1>2, <2>1 DEF Embedded, ForestOrCentroid
  <2>3. PICK l : l = LoadsNow /\ l.filter \in BOOLEAN /\ l.lite \in BOOLEAN
    BY LoadedNow
  <2>4. PICK p \in Int : p = LiteProbability(t, LoadsNow)
    BY <2>3, LiteIsANumber
  <2>5. answer = Bucket(IF t.short /\ "lite" \in disk THEN PyMin(e, p) ELSE e, HardenedBands)
    BY <1>2, <2>2, <2>4 DEF HardenedScore
  <2>6. PyMin(e, p) \in Int
    BY DEF PyMin
  <2>7. answer \in {"SAFE", "REVIEW", "BLOCK"}
    BY <2>5, <2>6, BandOfScore
  <2>. QED BY <1>2, <2>1, <2>5, <2>7 DEF HardenedAnswer
<1>. QED BY <1>1, <1>2

(* Scoring a text keeps the invariant.                                     *)
LEMMA Scores ==
  ASSUME MpInv, NEW t \in Texts, Score(t)
  PROVE  MpInv'
<1>. USE DEF MpInv
<1>. DEFINE L == [rf : BOOLEAN, lite : BOOLEAN, filter : BOOLEAN, ready : BOOLEAN]
<1>1. /\ UNCHANGED <<disk, bits, width, hashes, inserted, payload>> /\ clf' \in {"none", "lite", "hardened"}
      /\ loaded' \in L
  BY LoadedNow DEF Score, pfvars, MpTypeOK
<1>2. PICK answer :
        /\ asked' = asked \cup {[text |-> t, clf |-> clf', rf |-> loaded'.rf, lite |-> "lite" \in disk, answer |-> answer]}
        /\ \/ answer = "raise"
           \/ clf' = "lite" /\ answer = LiteScore(t, Now)
           \/ clf' = "hardened" /\ answer = HardenedScore(t, Now) /\ (t.keyword \notin SeenByHardened => loaded' = Now)
        /\ clf' = "lite" => answer = LiteScore(t, Now)
  <2>1. \/ clf' = "none" /\ Scored(t, "raise")
        \/ clf' = "lite" /\ Scored(t, LiteScore(t, Now))
        \/ clf' = "hardened" /\ t.keyword \in SeenByHardened /\ Scored(t, HardenedScore(t, Now))
        \/ clf' = "hardened" /\ t.keyword \notin SeenByHardened /\ loaded' = Now /\ Scored(t, HardenedScore(t, Now))
        \/ clf' = "hardened" /\ Scored(t, "raise")
    BY DEF Score
  <2>. QED BY <2>1 DEF Scored
<1>3. PICK rf \in BOOLEAN : rf = loaded'.rf
  BY <1>1
<1>3a. PICK lite \in BOOLEAN : lite = ("lite" \in disk)
  <2>1. ("lite" \in disk) \in BOOLEAN
    OBVIOUS
  <2>. QED BY <2>1, Zenon
<1>. DEFINE a == [text |-> t, clf |-> clf', rf |-> rf, lite |-> lite, answer |-> answer]
<1>4. /\ asked' = asked \cup {a}
      /\ a.text = t /\ a.clf = clf' /\ a.rf = rf /\ a.lite = lite /\ a.answer = answer
  BY <1>2, <1>3, <1>3a
<1>. HIDE DEF a
<1>5. clf' = "lite" => answer \in {"SAFE", "REVIEW", "BLOCK"} /\ (t.phrase \notin {"none", "leet"} => answer # "SAFE")
  <2>1. PICK l : l = Now /\ l.filter \in BOOLEAN /\ l.lite \in BOOLEAN
    BY LoadedNow
  <2>2. PICK p \in Int : p = LiteProbability(t, Now) /\ (t.phrase \notin {"none", "leet"} => p >= 8500)
    BY <2>1, LiteIsANumber
  <2>3. LiteScore(t, Now) = IF t.keyword \in SeenByLite THEN "BLOCK" ELSE Bucket(p, LiteBands)
    BY <2>2 DEF LiteScore
  <2>. QED BY <1>2, <2>2, <2>3, BandOfScore
<1>6. clf' = "hardened" => answer = "raise"
                           \/ (HardenedAnswer(t, rf, lite, answer) /\ answer \in {"SAFE", "REVIEW", "BLOCK"})
  BY <1>2, <1>3, <1>3a, HardenedAnswers
<1>7. answer \in {"SAFE", "REVIEW", "BLOCK", "raise"}
  BY <1>2, <1>5, <1>6
<1>8. ShippedFilter'
  BY <1>1 DEF ShippedFilter
<1>9. MpTypeOK'
  BY <1>1, <1>4, <1>7 DEF MpTypeOK
<1>10. AskedOfTexts'
  BY <1>4, <1>6 DEF AskedOfTexts
<1>11. PhrasesAreFound'
  BY <1>4, <1>5 DEF PhrasesAreFound
<1>. QED BY <1>8, <1>9, <1>10, <1>11

(* So does every step.                                                     *)
LEMMA MpStep == MpInv /\ [MpNext]_mpvars => MpInv'
<1>. SUFFICES ASSUME MpInv, [MpNext]_mpvars PROVE MpInv'
  OBVIOUS
<1>1. CASE UNCHANGED mpvars
  BY <1>1 DEF mpvars, pfvars, MpInv, ShippedFilter, MpTypeOK, AskedOfTexts, PhrasesAreFound
<1>2. ASSUME NEW a \in Artifact, Install(a) PROVE MpInv'
  BY <1>2 DEF Install, pfvars, MpInv, ShippedFilter, MpTypeOK, AskedOfTexts, PhrasesAreFound
<1>. QED BY <1>1, <1>2, Scores DEF MpNext

(* Whatever is installed, and whenever: a score without a number is never  *)
(* SAFE, the lite weights make no answer harsher, and no listed phrase that*)
(* the lite classifier can see is SAFE to it.                              *)
THEOREM ScoresAreCautious == MpSpec => []ScoresErrOnTheSafeSide
<1>1. MpInv => ScoresErrOnTheSafeSide
  <2>. SUFFICES ASSUME MpInv PROVE ScoresErrOnTheSafeSide
    OBVIOUS
  <2>. USE DEF MpInv
  <2>1. NoNumberIsNotSafe
    <3>. SUFFICES ASSUME NEW a \in asked, a.clf = "hardened", a.text.centroid = NaN, a.rf => a.text.rf = NaN
                  PROVE  a.answer # "SAFE"
      BY DEF NoNumberIsNotSafe
    <3>1. ForestOrCentroid(a.text, a.rf) = NaN
      BY DEF ForestOrCentroid
    <3>2. \A p : PyMin(NaN, p) = NaN
      BY DEF PyMin
    <3>3. a.answer = "raise" \/ HardenedAnswer(a.text, a.rf, a.lite, a.answer)
      BY DEF AskedOfTexts
    <3>4. Bucket(NaN, HardenedBands) = "REVIEW"
      BY DEF Bucket
    <3>. QED BY <3>1, <3>2, <3>3, <3>4 DEF HardenedAnswer
  <2>2. AgreementOnlyRelaxes
    <3>. SUFFICES ASSUME NEW a \in asked, NEW b \in asked, a.text = b.text, a.clf = "hardened", b.clf = "hardened",
                         a.rf = b.rf, a.answer # "raise", b.answer # "raise", b.lite, ~a.lite
                  PROVE  Rank[b.answer] <= Rank[a.answer]
      BY DEF AgreementOnlyRelaxes
    <3>1. PICK t \in Texts, rf \in BOOLEAN : t = a.text /\ rf = a.rf
      BY DEF AskedOfTexts
    <3>2. HardenedAnswer(t, rf, FALSE, a.answer) /\ HardenedAnswer(t, rf, TRUE, b.answer)
      BY <3>1 DEF AskedOfTexts
    <3>3. CASE t.keyword \in SeenByHardened
      BY <3>2, <3>3 DEF HardenedAnswer, Rank
    <3>4. CASE t.keyword \notin SeenByHardened
      <4>1. PICK e \in Int : e = ForestOrCentroid(t, rf)
        BY NumbersOfText
      <4>2. a.answer = Bucket(e, HardenedBands)
        BY <3>2, <3>4, <4>1 DEF HardenedAnswer
      <4>3. PICK p \in Int : b.answer = Bucket(IF t.short THEN PyMin(e, p) ELSE e, HardenedBands)
        BY <3>2, <3>4, <4>1 DEF HardenedAnswer
      <4>4. PICK q \in Int : b.answer = Bucket(q, HardenedBands) /\ (q = e \/ (q # NaN /\ e # NaN /\ q <= e))
        BY <4>3 DEF PyMin
      <4>5. CASE q = e
        <5>1. Bucket(e, HardenedBands) \in {"SAFE", "REVIEW", "BLOCK"}
          BY BandOfScore
        <5>. QED BY <4>2, <4>4, <4>5, <5>1 DEF Rank
      <4>. QED BY <4>2, <4>4, <4>5, LowerIsMilder
    <3>. QED BY <3>3, <3>4
  <2>. QED BY <2>1, <2>2, ShippedTypes DEF ScoresErrOnTheSafeSide
<1>. QED BY <1>1, MpInitInvariant, MpStep, PTL DEF MpSpec

-----------------------------------------------------------------------------
(* RunTrace                                                                *)

(* The stages, what they do to a text, and what is noted of one.           *)
Stages == {"security", "compile", "optimize"}

Done == Stages \cup {"placeholder"}

Note == [name : Stages, input : Seq(Done), output : Seq(Done)]

(* Every stage has a place, and every place a stage.                       *)
LEMMA Places ==
  /\ \A k \in 1..3 : StageName[k] \in Stages /\ Place(StageName[k]) = k
  /\ \A n \in Stages : Place(n) \in 1..3 /\ StageName[Place(n)] = n
BY DEF StageName, Stages, Place

(* Types, and how many stages are traced.                                  *)
RtShape ==
  /\ run.trace \in BOOLEAN /\ run.stages \subseteq Stages
  /\ step \in 0..3 /\ ended \in {"running", "finished", "raised"}
  /\ working \in Seq(Done) /\ traced \in Seq(Note) /\ Len(traced) <= step
  /\ ended = "finished" => step = 3

(* The open stage is the one that is due, and has the text so far.         *)
OpenStage ==
  current = NoStage \/ (run.trace /\ step < 3 /\ Name \in run.stages /\ current = [name |-> Name, input |-> working])

(* What is traced of the stages that are over.                             *)
TracedSoFar ==
  /\ ~run.trace => traced = <<>>
  /\ run.trace =>
       /\ {traced[i].name : i \in DOMAIN traced} = run.stages \cap {StageName[k] : k \in 1..step}
       /\ \A i, j \in DOMAIN traced : i < j => Place(traced[i].name) < Place(traced[j].name)
       /\ \A i \in DOMAIN traced : traced[i].input = IF i = 1 THEN <<>> ELSE traced[i - 1].output
       /\ FinalOutput = working

RtInv == RtShape /\ OpenStage /\ TracedSoFar

(* The invariant holds of an engine before its first stage.                *)
LEMMA RtInitInvariant == RtInit => RtInv
<1>. SUFFICES ASSUME RtInit PROVE RtInv
  OBVIOUS
<1>1. RtShape
  BY DEF RtInit, RtShape, Stages
<1>2. OpenStage /\ TracedSoFar
  BY DEF RtInit, OpenStage, TracedSoFar, FinalOutput
<1>. QED BY <1>1, <1>2 DEF RtInv

(* A stage that is skipped leaves the trace to the stages that are over.   *)
LEMMA SkipsStage ==
  ASSUME RtInv, SkipStage
  PROVE  RtInv'
<1>. USE DEF RtInv
<1>1. /\ step \in 0..2 /\ ended = "running" /\ step' = step + 1 /\ Name \notin run.stages
      /\ UNCHANGED <<run, current, traced, working, ended>>
  BY DEF SkipStage, Ongoing, RtShape
<1>2. RtShape'
  <2>1. Len(traced) \in Nat
    BY DEF RtShape
  <2>. QED BY <1>1, <2>1 DEF RtShape
<1>3. current = NoStage
  BY <1>1 DEF OpenStage
<1>4. TracedSoFar'
  <2>1. run.stages \cap {StageName[k] : k \in 1..step'} = run.stages \cap {StageName[k] : k \in 1..step}
    BY <1>1 DEF Name
  <2>2. FinalOutput' = FinalOutput
    BY <1>1 DEF FinalOutput
  <2>3. CASE ~run.trace
    BY <1>1, <2>3 DEF TracedSoFar
  <2>4. CASE run.trace
    BY <1>1, <2>1, <2>2, <2>4 DEF TracedSoFar
  <2>. QED BY <2>3, <2>4
<1>. QED BY <1>1, <1>2, <1>3, <1>4 DEF OpenStage

(* Starting a stage keeps it.                                              *)
LEMMA StartsStage ==
  ASSUME RtInv, StartStage
  PROVE  RtInv'
<1>. USE DEF RtInv
<1>1. /\ step \in 0..2 /\ run.trace /\ current' = [name |-> Name, input |-> working]
      /\ UNCHANGED <<run, traced, working, step, ended>>
  BY DEF StartStage, Ongoing, RtShape, LogStageStart
<1>2. RtShape' /\ TracedSoFar'
  BY <1>1, ZenonT(30) DEF RtShape, TracedSoFar, FinalOutput
<1>3. OpenStage'
  <2>1. Name \in run.stages
    BY DEF StartStage
  <2>. QED BY <1>1, <2>1 DEF OpenStage, Name
<1>. QED BY <1>2, <1>3

(* A stage that ends is traced with the text it was given and the one it   *)
(* leaves.                                                                 *)
LEMMA EndsStage ==
  ASSUME RtInv, Due, NEW output \in Seq(Done), EndStage(output)
  PROVE  RtInv'
<1>. USE DEF RtInv
<1>1. /\ step \in 0..2 /\ ended = "running" /\ step' = step + 1 /\ Name \in run.stages
      /\ UNCHANGED <<run, ended>> /\ working' = output
      /\ run.trace => current # NoStage
      /\ run.trace \in BOOLEAN /\ Len(traced) \in Nat /\ traced \in Seq(Note) /\ Len(traced) <= step
      /\ run.stages \subseteq Stages
  BY DEF Due, Ongoing, EndStage, RtShape
<1>2. CASE ~run.trace
  <2>1. UNCHANGED <<traced, current>> /\ current = NoStage
    BY <1>1, <1>2 DEF EndStage, LogStageEnd, OpenStage
  <2>. QED BY <1>1, <1>2, <2>1 DEF RtShape, OpenStage, TracedSoFar
<1>3. CASE run.trace
  <2>. DEFINE note == [name |-> Name, input |-> working, output |-> output]
  <2>1. traced' = Append(traced, note) /\ current' = NoStage
    BY <1>1, <1>3 DEF EndStage, LogStageEnd, OpenStage
  <2>2. note \in Note /\ note.name = Name /\ note.input = working /\ note.output = output
    BY <1>1 DEF Note, RtShape
  <2>. HIDE DEF note
  <2>3. /\ traced' \in Seq(Note) /\ Len(traced') = Len(traced) + 1
        /\ DOMAIN traced = 1..Len(traced) /\ DOMAIN traced' = 1..(Len(traced) + 1)
        /\ \A i \in 1..Len(traced) : traced'[i] = traced[i]
        /\ traced'[Len(traced) + 1] = note
    BY <1>1, <2>1, <2>2
  <2>4. RtShape' /\ OpenStage'
    BY <1>1, <1>3, <2>1, <2>3 DEF RtShape, OpenStage
  <2>5. Place(Name) = step + 1 /\ Name = StageName[step + 1]
    BY <1>1, Places DEF Name
  <2>6. \A i \in 1..Len(traced) : traced[i].name \in Stages /\ Place(traced[i].name) \in 1..step
    <3>1. ASSUME NEW i \in 1..Len(traced) PROVE Place(traced[i].name) \in 1..step
      <4>1. traced[i].name \in {StageName[k] : k \in 1..step}
        BY <1>3, <2>3, <3>1 DEF TracedSoFar
      <4>. QED BY <1>1, <4>1, Places
    <3>2. \A i \in 1..Len(traced) : traced[i] \in Note
      BY <1>1
    <3>. QED BY <3>1, <3>2 DEF Note
  <2>7. {traced'[i].name : i \in DOMAIN traced'} = run.stages \cap {StageName[k] : k \in 1..step'}
    <3>1. {traced'[i].name : i \in DOMAIN traced'} = {traced[i].name : i \in DOMAIN traced} \cup {Name}
      BY <1>1, <2>2, <2>3
    <3>2. {StageName[k] : k \in 1..step'} = {StageName[k] : k \in 1..step} \cup {Name}
      BY <1>1, <2>5
    <3>. QED BY <1>1, <1>3, <3>1, <3>2 DEF TracedSoFar
  <2>8. \A i, j \in DOMAIN traced' : i < j => Place(traced'[i].name) < Place(traced'[j].name)
    <3>. SUFFICES ASSUME NEW i \in 1..(Len(traced) + 1), NEW j \in 1..(Len(traced) + 1), i < j
                  PROVE  Place(traced'[i].name) < Place(traced'[j].name)
      BY <2>3
    <3>1. i \in 1..Len(traced) /\ traced'[i] = traced[i]
      BY <1>1, <2>3
    <3>2. CASE j = Len(traced) + 1
      BY <1>1, <2>2, <2>3, <2>5, <2>6, <3>1, <3>2
    <3>3. CASE j \in 1..Len(traced)
      BY <1>3, <2>3, <3>1, <3>3 DEF TracedSoFar
    <3>. QED BY <1>1, <3>2, <3>3
  <2>9. \A i \in DOMAIN traced' : traced'[i].input = IF i = 1 THEN <<>> ELSE traced'[i - 1].output
    <3>. SUFFICES ASSUME NEW i \in 1..(Len(traced) + 1)
                  PROVE  traced'[i].input = IF i = 1 THEN <<>> ELSE traced'[i - 1].output
      BY <2>3
    <3>1. CASE i \in 1..Len(traced)
      <4>1. i # 1 => i - 1 \in 1..Len(traced)
        BY <1>1, <3>1
      <4>. QED BY <1>3, <2>3, <3>1, <4>1 DEF TracedSoFar
    <3>2. CASE i = Len(traced) + 1
      <4>1. FinalOutput = working
        BY <1>3 DEF TracedSoFar
      <4>2. CASE traced = <<>>
        BY <2>2, <2>3, <3>2, <4>1, <4>2 DEF FinalOutput
      <4>3. CASE traced # <<>>
        <5>1. Len(traced) \in 1..Len(traced) /\ i # 1 /\ i - 1 = Len(traced)
          BY <1>1, <3>2, <4>3
        <5>. QED BY <2>2, <2>3, <3>2, <4>1, <4>3, <5>1 DEF FinalOutput, Last
      <4>. QED BY <4>2, <4>3
    <3>. QED BY <1>1, <3>1, <3>2
  <2>10. FinalOutput' = working'
    <3>1. traced' # <<>>
      BY <1>1, <2>3
    <3>. QED BY <1>1, <2>2, <2>3, <3>1 DEF FinalOutput, Last
  <2>11. TracedSoFar'
    BY <1>1, <1>3, <2>7, <2>8, <2>9, <2>10 DEF TracedSoFar
  <2>. QED BY <2>4, <2>11
<1>. QED BY <1>1, <1>2, <1>3

(* Steps that leave the trace and the text as they are.                    *)
LEMMA SameTrace ==
  ASSUME RtInv, UNCHANGED <<run, current, traced, working, step>>,
         ended' \in {"running", "finished", "raised"}, ended' = "finished" => step = 3
  PROVE  RtInv'
<1>. USE DEF RtInv
<1>1. RtShape' /\ OpenStage'
  BY DEF RtShape, OpenStage, Name
<1>2. FinalOutput' = FinalOutput
  BY DEF FinalOutput
<1>3. TracedSoFar'
  BY <1>2 DEF TracedSoFar
<1>. QED BY <1>1, <1>3

(* So does every step.                                                     *)
LEMMA RtStep == RtInv /\ [RtNext]_rtvars => RtInv'
<1>. SUFFICES ASSUME RtInv, [RtNext]_rtvars PROVE RtInv'
  OBVIOUS
<1>. USE DEF RtInv
<1>1. CASE UNCHANGED rtvars
  BY <1>1, SameTrace DEF rtvars, RtShape
<1>2. CASE StageWorks
  <2>1. Due /\ EndStage(Append(working, Name)) /\ working \in Seq(Done)
    BY <1>2 DEF StageWorks, RtShape
  <2>2. Name \in Stages
    BY <2>1 DEF Due, RtShape
  <2>4. Append(working, Name) \in Seq(Done)
    BY <2>1, <2>2 DEF Done
  <2>. QED BY <2>1, <2>4, EndsStage
<1>3. CASE StageFails
  <2>1. CASE ended' = "raised" /\ UNCHANGED <<run, current, traced, working, step>>
    BY <2>1, SameTrace
  <2>2. CASE EndStage(<<"placeholder">>)
    <3>1. <<"placeholder">> \in Seq(Done) /\ Due
      BY <1>3 DEF StageFails, Done
    <3>. QED BY <2>2, <3>1, EndsStage
  <2>3. CASE EndStage(working)
    BY <1>3, <2>3, EndsStage DEF StageFails, RtShape
  <2>. QED BY <1>3, <2>1, <2>2, <2>3 DEF StageFails
<1>4. CASE Finish
  BY <1>4, SameTrace DEF Finish
<1>. QED BY <1>1, <1>2, <1>3, <1>4, SkipsStage, StartsStage DEF RtNext

(* Whichever stages were asked for and whatever they did: the trace names  *)
(* the stages that ran in their order, each with what the one before handed*)
(* on, and ends with the text that the engines return.                     *)
THEOREM TracesTellTheirRuns == RtSpec => []TracesAreSound
<1>1. RtInv => TracesAreSound
  <2>. SUFFICES ASSUME RtInv PROVE TracesAreSound
    OBVIOUS
  <2>. USE DEF RtInv
  <2>1. RtTypeOK
    <3>1. step < 3 => Name \in Stages
      BY Places DEF Name, RtShape
    <3>. QED BY <3>1 DEF RtTypeOK, RtShape, OpenStage, NoStage, Stages
  <2>2. TraceTellsTheRun
    <3>. SUFFICES ASSUME ended = "finished", run.trace PROVE {StageName[k] : k \in 1..step} = Stages
      BY DEF TraceTellsTheRun, RtShape, OpenStage, TracedSoFar
    <3>. QED BY DEF RtShape, StageName, Stages
  <2>. QED BY <2>1, <2>2 DEF TracesAreSound
<1>. QED BY <1>1, RtInitInvariant, RtStep, PTL DEF RtSpec

-----------------------------------------------------------------------------
(* RequestMetrics                                                          *)

(* How many events of a kind there are from a place on, and by how much    *)
(* requests are ahead of outcomes.                                         *)
Outcome == {"success", "error"}

Count(s, n, k) == Cardinality({i \in n..Len(s) : s[i] = k})

Gap(s, n) == Count(s, n, "request") - (Count(s, n, "success") + Count(s, n, "error"))

Weight(k) == IF k = "request" THEN 1 ELSE IF k \in Outcome THEN -1 ELSE 0

(* Events of a kind are countable.                                         *)
LEMMA Counts ==
  ASSUME NEW s \in Seq(Kind), NEW n \in 1..(Len(s) + 1), NEW k
  PROVE  /\ Count(s, n, k) \in Nat
         /\ IsFiniteSet({i \in n..Len(s) : s[i] = k})
         /\ n = Len(s) + 1 => Count(s, n, k) = 0
<1>. DEFINE C == {i \in n..Len(s) : s[i] = k}
<1>1. Len(s) \in Nat /\ n \in Int
  OBVIOUS
<1>2. IsFiniteSet(n..Len(s)) /\ C \in SUBSET (n..Len(s))
  BY <1>1, FS_Interval
<1>3. IsFiniteSet(C)
  BY <1>2, FS_Subset
<1>4. Cardinality(C) \in Nat
  BY <1>3, FS_CardinalityType
<1>5. n = Len(s) + 1 => C = {}
  BY <1>1
<1>. QED BY <1>3, <1>4, <1>5, FS_EmptySet DEF Count

(* One more event counts once, where it is of the kind.                    *)
LEMMA CountsOneMore ==
  ASSUME NEW s \in Seq(Kind), NEW e \in Kind, NEW n \in 1..(Len(s) + 1), NEW k
  PROVE  Count(Append(s, e), n, k) = Count(s, n, k) + (IF e = k THEN 1 ELSE 0)
<1>. DEFINE C == {i \in n..Len(s) : s[i] = k}
            D == {i \in n..Len(Append(s, e)) : Append(s, e)[i] = k}
            last == Len(s) + 1
<1>1. IsFiniteSet(C) /\ Cardinality(C) \in Nat
  BY Counts DEF Count
<1>2. D = IF e = k THEN C \cup {last} ELSE C
  <2>1. /\ Len(s) \in Nat /\ Len(Append(s, e)) = last /\ Append(s, e)[last] = e
        /\ \A i \in 1..Len(s) : Append(s, e)[i] = s[i]
    OBVIOUS
  <2>2. \A i \in n..last : i \in n..Len(s) \/ i = last
    BY <2>1
  <2>3. last \in n..last /\ \A i \in n..Len(s) : i \in 1..Len(s) /\ i \in n..last
    BY <2>1
  <2>. HIDE DEF last
  <2>4. ASSUME NEW i PROVE i \in D <=> i \in C \/ (i = last /\ e = k)
    BY <2>1, <2>2, <2>3
  <2>. HIDE DEF C, D
  <2>. QED BY <2>4
<1>3. last \notin C
  OBVIOUS
<1>. HIDE DEF C, D, last
<1>4. Cardinality(D) = Cardinality(C) + (IF e = k THEN 1 ELSE 0)
  <2>1. Cardinality(C \cup {last}) = Cardinality(C) + 1
    BY <1>1, <1>3, FS_AddElement
  <2>. QED BY <1>1, <1>2, <2>1
<1>. QED BY <1>4 DEF Count, C, D

(* Without the first event of a window it is one less, where that was of   *)
(* the kind.                                                               *)
LEMMA CountsOneLess ==
  ASSUME NEW s \in Seq(Kind), s # <<>>, NEW n \in 1..Len(s), NEW k
  PROVE  Count(Tail(s), n, k) = Count(s, n + 1, k)
<1>. DEFINE C == {i \in n..Len(Tail(s)) : Tail(s)[i] = k}
            D == {i \in (n + 1)..Len(s) : s[i] = k}
            f == [i \in C |-> i + 1]
<1>1. /\ Tail(s) \in Seq(Kind) /\ Len(s) \in Nat /\ Len(Tail(s)) = Len(s) - 1
      /\ \A i \in 1..(Len(s) - 1) : Tail(s)[i] = s[i + 1]
  OBVIOUS
<1>2. IsFiniteSet(C)
  <2>1. IsFiniteSet(n..(Len(s) - 1)) /\ C \in SUBSET (n..(Len(s) - 1))
    <3>1. C \subseteq n..(Len(s) - 1)
      BY <1>1
    <3>2. n \in Int /\ Len(s) - 1 \in Int
      BY <1>1
    <3>. HIDE DEF C
    <3>. QED BY <3>1, <3>2, FS_Interval
  <2>. HIDE DEF C
  <2>. QED BY <2>1, FS_Subset
<1>3. f \in Bijection(C, D)
  <2>1. \A i \in C : i \in n..(Len(s) - 1) /\ i + 1 \in D
    BY <1>1
  <2>2. \A j \in D : j - 1 \in C /\ j = (j - 1) + 1
    BY <1>1
  <2>3. \A i \in C : i \in Int
    BY <2>1
  <2>. HIDE DEF C, D
  <2>4. f \in Injection(C, D)
    BY <2>1, <2>3 DEF Injection, IsInjective
  <2>5. f \in Surjection(C, D)
    BY <2>1, <2>2 DEF Surjection
  <2>. QED BY <2>4, <2>5 DEF Bijection
<1>4. Cardinality(C) = Cardinality(D)
  BY <1>2, <1>3, FS_Bijection DEF ExistsBijection
<1>. QED BY <1>1, <1>4 DEF Count

(* By how much an event moves the gap.                                     *)
LEMMA Gaps ==
  ASSUME NEW s \in Seq(Kind), NEW n \in 1..(Len(s) + 1)
  PROVE  /\ Gap(s, n) \in Int
         /\ n = Len(s) + 1 => Gap(s, n) = 0
         /\ \A e \in Kind : Gap(Append(s, e), n) = Gap(s, n) + Weight(e)
         /\ s # <<>> /\ n \in 1..Len(s) => Gap(Tail(s), n) = Gap(s, n + 1)
<1>1. Gap(s, n) \in Int /\ (n = Len(s) + 1 => Gap(s, n) = 0)
  <2>1. \A k : Count(s, n, k) \in Nat /\ (n = Len(s) + 1 => Count(s, n, k) = 0)
    BY Counts
  <2>. QED BY <2>1 DEF Gap
<1>2. ASSUME NEW e \in Kind PROVE Gap(Append(s, e), n) = Gap(s, n) + Weight(e)
  <2>1. \A k : Count(s, n, k) \in Nat
    BY Counts
  <2>2. \A k : Count(Append(s, e), n, k) = Count(s, n, k) + (IF e = k THEN 1 ELSE 0)
    BY CountsOneMore
  <2>. QED BY <2>1, <2>2 DEF Gap, Weight, Outcome
<1>3. s # <<>> /\ n \in 1..Len(s) => Gap(Tail(s), n) = Gap(s, n + 1)
  BY CountsOneLess DEF Gap
<1>. QED BY <1>1, <1>2, <1>3

-----------------------------------------------------------------------------

(* What a thread has yet to append, and who is between a request and its   *)
(* outcome.                                                                *)
Unappended(r) == IF read[r] = -1 THEN pending[r] ELSE Tail(pending[r])

(* Threads whose next event is the outcome of a request already recorded.  *)
Awaiting == {r \in Recorder : Unappended(r) # <<>> /\ Head(Unappended(r)) \in Outcome}

(* The events of a request: the outcome follows the request, and nothing   *)
(* else of the kind.                                                       *)
OneOutcome(p) ==
  /\ p \in Seq(Kind)
  /\ \A i \in DOMAIN p :
       /\ p[i] = "request" => i = 1 /\ Len(p) > 1 /\ p[2] \in Outcome
       /\ p[i] \in Outcome => i = 1 \/ (i = 2 /\ p[1] = "request")

(* What is still to be recorded of each thread.                            *)
Recordings ==
  /\ DOMAIN pending = Recorder /\ DOMAIN read = Recorder
  /\ \A r \in Recorder :
       /\ OneOutcome(pending[r])
       /\ read[r] # -1 => pending[r] # <<>> /\ read[r] < given[Head(pending[r])]

(* What a window is off by was open when the window began, or is open now. *)
WindowsOff(s, o) ==
  \A n \in 1..(Len(s) + 1) : o - Cardinality(Recorder) <= Gap(s, n) /\ Gap(s, n) <= o

MdInv ==
  /\ MdTypeOK /\ CountersNeverOverstate /\ Recordings
  /\ events \in Seq(Kind) /\ dropped \in BOOLEAN
  /\ WindowsOff(events, Cardinality(Awaiting))
  /\ ~dropped => Gap(events, 1) = Cardinality(Awaiting)

(* Threads are finitely many.                                              *)
LEMMA AwaitingIsFinite ==
  /\ IsFiniteSet(Awaiting) /\ Cardinality(Awaiting) \in Nat /\ Cardinality(Awaiting) <= Cardinality(Recorder)
  /\ Cardinality(Recorder) \in Nat
<1>1. IsFiniteSet(Recorder) /\ Awaiting \in SUBSET Recorder
  BY DashboardAssumption DEF Awaiting
<1>. QED BY <1>1, FS_Subset, FS_CardinalityType

(* An event moves the gap of a window by at most one.                      *)
LEMMA WindowsGrow ==
  ASSUME NEW s \in Seq(Kind), NEW e \in Kind, NEW o \in Nat, WindowsOff(s, o),
         o + Weight(e) \in Nat, o + Weight(e) <= Cardinality(Recorder)
  PROVE  WindowsOff(Append(s, e), o + Weight(e))
<1>1. Cardinality(Recorder) \in Nat /\ Weight(e) \in Int /\ Len(s) \in Nat /\ Append(s, e) \in Seq(Kind)
      /\ Len(Append(s, e)) = Len(s) + 1
  BY AwaitingIsFinite DEF Weight
<1>2. ASSUME NEW n \in 1..(Len(s) + 1)
      PROVE  /\ (o + Weight(e)) - Cardinality(Recorder) <= Gap(Append(s, e), n)
             /\ Gap(Append(s, e), n) <= o + Weight(e)
  <2>1. Gap(s, n) \in Int /\ Gap(Append(s, e), n) = Gap(s, n) + Weight(e)
    BY Gaps
  <2>2. o - Cardinality(Recorder) <= Gap(s, n) /\ Gap(s, n) <= o
    BY DEF WindowsOff
  <2>. QED BY <1>1, <2>1, <2>2
<1>3. Gap(Append(s, e), Len(s) + 2) = 0
  <2>1. PICK t \in Seq(Kind) : t = Append(s, e)
    BY <1>1
  <2>2. Len(s) + 2 = Len(t) + 1 /\ Len(s) + 2 \in 1..(Len(t) + 1)
    BY <1>1, <2>1
  <2>3. Gap(t, Len(s) + 2) = 0
    BY <2>2, Gaps
  <2>. QED BY <2>1, <2>3
<1>4. \A n \in 1..(Len(Append(s, e)) + 1) : n \in 1..(Len(s) + 1) \/ n = Len(s) + 2
  BY <1>1
<1>. QED BY <1>1, <1>2, <1>3, <1>4 DEF WindowsOff

(* So does the event that drops out at its start.                          *)
LEMMA WindowsMove ==
  ASSUME NEW s \in Seq(Kind), s # <<>>, NEW o \in Nat, WindowsOff(s, o)
  PROVE  WindowsOff(Tail(s), o)
<1>1. Len(s) \in Nat /\ Len(Tail(s)) = Len(s) - 1
  OBVIOUS
<1>2. ASSUME NEW n \in 1..(Len(Tail(s)) + 1)
      PROVE  o - Cardinality(Recorder) <= Gap(Tail(s), n) /\ Gap(Tail(s), n) <= o
  <2>1. n \in 1..Len(s) /\ n \in 1..(Len(s) + 1) /\ n + 1 \in 1..(Len(s) + 1)
    BY <1>1
  <2>2. Gap(Tail(s), n) = Gap(s, n + 1)
    BY <2>1, Gaps
  <2>. QED BY <2>1, <2>2 DEF WindowsOff
<1>. QED BY <1>2 DEF WindowsOff

(* The invariant holds before anything is recorded.                        *)
LEMMA MdInitInvariant == MdInit => MdInv
<1>. SUFFICES ASSUME MdInit PROVE MdInv
  OBVIOUS
<1>1. Awaiting = {}
  BY DEF MdInit, Awaiting, Unappended
<1>2. Cardinality(Awaiting) = 0
  BY <1>1, FS_EmptySet
<1>3. events = <<>> /\ events \in Seq(Kind) /\ Len(events) = 0
  BY DEF MdInit
<1>4. Gap(events, 1) = 0
  <2>1. events \in Seq(Kind) /\ 1 = Len(events) + 1 /\ 1 \in 1..(Len(events) + 1)
    BY <1>3
  <2>. QED BY <2>1, Gaps
<1>5. WindowsOff(events, 0)
  BY <1>3, <1>4, AwaitingIsFinite DEF WindowsOff
<1>6. MdTypeOK /\ CountersNeverOverstate
  BY <1>3, DashboardAssumption DEF MdInit, MdTypeOK, CountersNeverOverstate
<1>7. Recordings
  BY DEF MdInit, Recordings, OneOutcome
<1>. QED BY <1>2, <1>3, <1>4, <1>5, <1>6, <1>7 DEF MdInit, MdInv

(* The events of a request begin with it and have one outcome, its second. *)
LEMMA EventsOfRequest ==
  ASSUME NEW success \in BOOLEAN, NEW threats \in Nat
  PROVE  /\ OneOutcome(EventsOf(success, threats)) /\ EventsOf(success, threats) # <<>>
         /\ Head(EventsOf(success, threats)) = "request"
<1>. DEFINE a == <<"request", IF success THEN "success" ELSE "error", "latency">>
            b == [i \in 1..threats |-> "threat_blocked"]
            e == EventsOf(success, threats)
<1>1. a \in Seq(Kind) /\ Len(a) = 3 /\ a[1] = "request" /\ a[2] \in Outcome /\ a[3] = "latency"
  BY DEF Kind, Outcome
<1>2. b \in Seq(Kind) /\ Len(b) = threats /\ \A i \in 1..threats : b[i] = "threat_blocked"
  <2>1. b \in [1..threats -> Kind]
    BY DEF Kind
  <2>. QED BY <2>1
<1>. HIDE DEF a, b
<1>3. e = a \o b
  BY DEF EventsOf, a, b
<1>. HIDE DEF e
<1>4. /\ e \in Seq(Kind) /\ Len(e) = 3 + threats /\ DOMAIN e = 1..(3 + threats)
      /\ \A i \in 1..3 : e[i] = a[i]
      /\ \A i \in 4..(3 + threats) : e[i] = b[i - 3]
  <2>0. /\ a \o b \in Seq(Kind) /\ Len(a \o b) = Len(a) + Len(b)
        /\ \A i \in 1..(Len(a) + Len(b)) : (a \o b)[i] = IF i <= Len(a) THEN a[i] ELSE b[i - Len(a)]
    BY <1>1, <1>2, ConcatProperties, ZenonT(30)
  <2>1. e \in Seq(Kind) /\ Len(e) = 3 + threats
    BY <1>1, <1>2, <1>3, <2>0
  <2>2. \A i \in 1..(3 + threats) : e[i] = IF i <= 3 THEN a[i] ELSE b[i - 3]
    BY <1>1, <1>2, <1>3, <2>0
  <2>. QED BY <2>1, <2>2
<1>5. e[1] = "request" /\ e[2] \in Outcome /\ e[3] = "latency"
      /\ \A i \in 4..(3 + threats) : e[i] = "threat_blocked"
  <2>1. \A i \in 4..(3 + threats) : i - 3 \in 1..threats
    OBVIOUS
  <2>. QED BY <1>1, <1>2, <1>4, <2>1
<1>6. \A i \in DOMAIN e : i \in {1, 2, 3} \/ i \in 4..(3 + threats)
  BY <1>4
<1>7. OneOutcome(e)
  BY <1>4, <1>5, <1>6 DEF OneOutcome, Outcome
<1>. QED BY <1>4, <1>5, <1>7 DEF e

(* Recording a call keeps it.                                              *)
LEMMA Records ==
  ASSUME MdInv, NEW r \in Recorder, RecordRequest(r)
  PROVE  MdInv'
<1>. USE DEF MdInv
<1>1. /\ pending[r] = <<>> /\ UNCHANGED <<events, counters, read, given, dropped>>
  BY DEF RecordRequest
<1>2. PICK p : pending' = [pending EXCEPT ![r] = p] /\ OneOutcome(p) /\ p # <<>> /\ Head(p) = "request"
  <2>1. PICK success \in BOOLEAN, threats \in Threats : pending' = [pending EXCEPT ![r] = EventsOf(success, threats)]
    BY DEF RecordRequest
  <2>. QED BY <2>1, EventsOfRequest, DashboardAssumption
<1>3. read[r] = -1
  BY <1>1 DEF Recordings
<1>4. Recordings'
  BY <1>1, <1>2, <1>3 DEF Recordings
<1>5. Awaiting' = Awaiting
  BY <1>1, <1>2, <1>3 DEF Recordings, Awaiting, Unappended, Outcome
<1>6. MdTypeOK' /\ CountersNeverOverstate'
  BY <1>1 DEF MdTypeOK, CountersNeverOverstate
<1>. QED BY <1>1, <1>4, <1>5, <1>6

(* An event is appended: who appended a request awaits its outcome.        *)
LEMMA AppendsEvent ==
  ASSUME MdInv, NEW r \in Recorder, AppendEvent(r)
  PROVE  MdInv'
<1>. USE DEF MdInv
<1>. DEFINE k == Head(pending[r])
            all == Append(events, k)
<1>1. /\ pending[r] # <<>> /\ read[r] = -1
      /\ events' = (IF Len(all) > MaxEvents THEN Tail(all) ELSE all)
      /\ dropped' = (dropped \/ Len(all) > MaxEvents)
      /\ given' = [given EXCEPT ![k] = @ + 1] /\ read' = [read EXCEPT ![r] = counters[k]]
      /\ UNCHANGED <<counters, pending>>
  BY DEF AppendEvent
<1>2. OneOutcome(pending[r]) /\ pending[r] \in Seq(Kind) /\ k \in Kind /\ k = pending[r][1]
  BY <1>1 DEF Recordings, OneOutcome
<1>3. all \in Seq(Kind) /\ all # <<>> /\ Len(all) = Len(events) + 1 /\ Len(events) \in Nat
  BY <1>2
<1>4. counters[k] \in Nat /\ counters[k] # -1 /\ given[k] \in Nat /\ counters[k] <= given[k]
  BY <1>2 DEF MdTypeOK, CountersNeverOverstate
<1>. HIDE DEF all
<1>5. MdTypeOK' /\ CountersNeverOverstate'
  <2>1. events' \in Seq(Kind) /\ Len(events') <= MaxEvents
    BY <1>1, <1>3, DashboardAssumption DEF MdTypeOK
  <2>2. counters' \in [Kind -> Nat] /\ given' \in [Kind -> Nat]
    BY <1>1, <1>2, <1>4 DEF MdTypeOK
  <2>3. \A q \in Recorder : read'[q] \in Nat \cup {-1}
    BY <1>1, <1>4 DEF MdTypeOK, Recordings
  <2>4. \A j \in Kind : given'[j] = given[j] \/ given'[j] = given[j] + 1
    BY <1>1, <1>2 DEF MdTypeOK
  <2>5. CountersNeverOverstate'
    BY <1>1, <2>4 DEF MdTypeOK, CountersNeverOverstate
  <2>. QED BY <2>1, <2>2, <2>3, <2>5 DEF MdTypeOK
<1>6. Recordings'
  <2>1. \A j \in Kind : given[j] <= given'[j] /\ given[j] \in Int /\ given'[j] \in Int
    BY <1>1, <1>2 DEF MdTypeOK
  <2>2. given'[k] = given[k] + 1
    BY <1>1, <1>2 DEF MdTypeOK
  <2>3. ASSUME NEW q \in Recorder, read'[q] # -1
        PROVE  pending'[q] # <<>> /\ read'[q] < given'[Head(pending'[q])]
    <3>1. CASE q = r
      BY <1>1, <1>4, <2>2, <3>1 DEF Recordings
    <3>2. CASE q # r
      <4>1. read'[q] = read[q] /\ pending[q] # <<>> /\ read[q] < given[Head(pending[q])] /\ read[q] \in Int
        BY <1>1, <2>3, <3>2 DEF Recordings, MdTypeOK
      <4>2. Head(pending[q]) \in Kind
        BY <4>1 DEF Recordings, OneOutcome
      <4>. QED BY <1>1, <2>1, <4>1, <4>2
    <3>. QED BY <3>1, <3>2
  <2>. QED BY <1>1, <2>3 DEF Recordings
<1>7. Awaiting' = (IF k = "request" THEN Awaiting \cup {r} ELSE Awaiting \ {r})
      /\ (r \in Awaiting <=> k \in Outcome)
  <2>1. Unappended(r) = pending[r] /\ Unappended(r)' = Tail(pending[r])
    BY <1>1, <1>4 DEF Unappended, Recordings
  <2>2. \A q \in Recorder : q # r => Unappended(q)' = Unappended(q)
    BY <1>1 DEF Unappended, Recordings
  <2>3. Tail(pending[r]) # <<>> /\ Head(Tail(pending[r])) \in Outcome <=> k = "request"
    <3>1. \A p \in Seq(Kind) : p # <<>> =>
            /\ 1 \in DOMAIN p /\ (Tail(p) # <<>> <=> Len(p) > 1)
            /\ Len(p) > 1 => Head(Tail(p)) = p[2] /\ 2 \in DOMAIN p
      <4>. SUFFICES ASSUME NEW p \in Seq(Kind), p # <<>>
           PROVE  /\ 1 \in DOMAIN p /\ (Tail(p) # <<>> <=> Len(p) > 1)
                  /\ Len(p) > 1 => Head(Tail(p)) = p[2] /\ 2 \in DOMAIN p
        OBVIOUS
      <4>1. Len(p) \in Nat \ {0} /\ Tail(p) \in Seq(Kind) /\ Len(Tail(p)) = Len(p) - 1
        OBVIOUS
      <4>2. Tail(p) = <<>> <=> Len(Tail(p)) = 0
        <5>1. \A q \in Seq(Kind) : q = <<>> <=> Len(q) = 0
          OBVIOUS
        <5>. QED BY <4>1, <5>1
      <4>3. Len(p) > 1 => Tail(p)[1] = p[2] /\ Head(Tail(p)) = Tail(p)[1]
        BY <4>1, <4>2
      <4>. QED BY <4>1, <4>2, <4>3
    <3>2. pending[r] \in Seq(Kind) /\ pending[r] # <<>>
      BY <1>1, <1>2
    <3>. QED BY <1>2, <3>1, <3>2 DEF OneOutcome
  <2>4. r \in Awaiting <=> k \in Outcome
    BY <1>1, <2>1 DEF Awaiting
  <2>5. \A q \in Recorder : q \in Awaiting' <=> (IF q = r THEN k = "request" ELSE q \in Awaiting)
    BY <2>1, <2>2, <2>3 DEF Awaiting
  <2>6. Awaiting \subseteq Recorder /\ Awaiting' \subseteq Recorder
    BY DEF Awaiting
  <2>. QED BY <2>4, <2>5, <2>6
<1>8. /\ Cardinality(Awaiting') = Cardinality(Awaiting) + Weight(k)
      /\ Cardinality(Awaiting') \in Nat /\ Cardinality(Awaiting') <= Cardinality(Recorder)
  <2>1. IsFiniteSet(Awaiting) /\ Cardinality(Awaiting) \in Nat
    BY AwaitingIsFinite
  <2>2. Cardinality(Awaiting') = Cardinality(Awaiting) + Weight(k)
    <3>1. CASE k = "request"
      <4>1. Awaiting' = Awaiting \cup {r} /\ r \notin Awaiting
        BY <1>7, <3>1 DEF Outcome
      <4>. QED BY <2>1, <3>1, <4>1, FS_AddElement DEF Weight
    <3>2. CASE k # "request"
      <4>1. Awaiting' = Awaiting \ {r} /\ (r \in Awaiting <=> k \in Outcome)
        BY <1>7, <3>2
      <4>2. Cardinality(Awaiting \ {r}) = IF r \in Awaiting THEN Cardinality(Awaiting) - 1 ELSE Cardinality(Awaiting)
        BY <2>1, FS_RemoveElement
      <4>. QED BY <2>1, <3>2, <4>1, <4>2 DEF Weight
    <3>. QED BY <3>1, <3>2
  <2>3. IsFiniteSet(Recorder) /\ Awaiting' \in SUBSET Recorder
    BY DashboardAssumption DEF Awaiting
  <2>. QED BY <2>2, <2>3, FS_Subset, FS_CardinalityType
<1>9. WindowsOff(all, Cardinality(Awaiting'))
  BY <1>2, <1>8, AwaitingIsFinite, WindowsGrow DEF all
<1>10. events' \in Seq(Kind) /\ WindowsOff(events', Cardinality(Awaiting'))
  BY <1>1, <1>3, <1>8, <1>9, WindowsMove
<1>11. dropped' \in BOOLEAN /\ (~dropped' => Gap(events', 1) = Cardinality(Awaiting'))
  <2>1. ASSUME ~dropped' PROVE Gap(events', 1) = Cardinality(Awaiting')
    <3>1. events' = all /\ ~dropped
      BY <1>1, <2>1
    <3>2. Gap(all, 1) = Gap(events, 1) + Weight(k)
      BY <1>2, <1>3, Gaps DEF all
    <3>. QED BY <1>8, <3>1, <3>2
  <2>. QED BY <1>1, <2>1
<1>. QED BY <1>5, <1>6, <1>10, <1>11

(* Writing a counter back keeps it.                                        *)
LEMMA WritesBack ==
  ASSUME MdInv, NEW r \in Recorder, WriteBack(r)
  PROVE  MdInv'
<1>. USE DEF MdInv
<1>1. /\ read[r] # -1 /\ counters' = [counters EXCEPT ![Head(pending[r])] = read[r] + 1]
      /\ pending' = [pending EXCEPT ![r] = Tail(@)] /\ read' = [read EXCEPT ![r] = -1]
      /\ UNCHANGED <<events, given, dropped>>
  BY DEF WriteBack
<1>2. PICK k \in Kind : k = Head(pending[r]) /\ pending[r] # <<>> /\ pending[r] \in Seq(Kind) /\ OneOutcome(pending[r])
                        /\ read[r] \in Nat /\ read[r] < given[k]
  <2>1. pending[r] # <<>> /\ OneOutcome(pending[r]) /\ read[r] < given[Head(pending[r])] /\ read[r] \in Nat
    BY <1>1 DEF Recordings, MdTypeOK
  <2>. QED BY <2>1 DEF OneOutcome
<1>3. MdTypeOK' /\ CountersNeverOverstate'
  <2>1. counters' = [counters EXCEPT ![k] = read[r] + 1] /\ given[k] \in Nat
    BY <1>1, <1>2 DEF MdTypeOK
  <2>. QED BY <1>1, <1>2, <2>1 DEF MdTypeOK, CountersNeverOverstate, Recordings
<1>4. OneOutcome(Tail(pending[r]))
  <2>. DEFINE p == pending[r]
              q == Tail(p)
  <2>1. /\ Len(p) \in Nat /\ q \in Seq(Kind) /\ DOMAIN p = 1..Len(p) /\ DOMAIN q = 1..(Len(p) - 1)
        /\ \A i \in 1..(Len(p) - 1) : q[i] = p[i + 1] /\ i + 1 \in 1..Len(p)
    BY <1>2
  <2>. HIDE DEF p, q
  <2>2. ASSUME NEW i \in DOMAIN q
        PROVE  q[i] # "request" /\ (q[i] \in Outcome => i = 1)
    <3>1. i \in 1..(Len(p) - 1) /\ q[i] = p[i + 1] /\ i + 1 \in DOMAIN p /\ i + 1 # 1
      BY <2>1
    <3>2. OneOutcome(p)
      BY <1>2 DEF p
    <3>. QED BY <2>1, <3>1, <3>2 DEF OneOutcome
  <2>. QED BY <2>1, <2>2 DEF OneOutcome, p, q
<1>5. Recordings'
  <2>1. ASSUME NEW q \in Recorder
        PROVE  /\ OneOutcome(pending'[q])
               /\ read'[q] # -1 => pending'[q] # <<>> /\ read'[q] < given'[Head(pending'[q])]
    <3>1. CASE q = r
      BY <1>1, <1>4, <3>1 DEF Recordings
    <3>2. CASE q # r
      BY <1>1, <3>2 DEF Recordings
    <3>. QED BY <3>1, <3>2
  <2>. QED BY <1>1, <2>1 DEF Recordings
<1>6. Awaiting' = Awaiting
  <2>1. \A q \in Recorder : Unappended(q)' = Unappended(q)
    BY <1>1 DEF Unappended, Recordings
  <2>. QED BY <2>1 DEF Awaiting
<1>. QED BY <1>1, <1>3, <1>5, <1>6

(* So does every step.                                                     *)
LEMMA MdStep == MdInv /\ [MdNext]_mdvars => MdInv'
<1>. SUFFICES ASSUME MdInv, [MdNext]_mdvars PROVE MdInv'
  OBVIOUS
<1>1. CASE UNCHANGED mdvars
  <2>. USE <1>1 DEF mdvars
  <2>1. Awaiting' = Awaiting
    BY DEF Awaiting, Unappended
  <2>. QED BY <2>1 DEF MdInv, MdTypeOK, CountersNeverOverstate, Recordings
<1>. QED BY <1>1, Records, AppendsEvent, WritesBack DEF MdNext

(* Whatever threads record at a time: the counters are never above what was*)
(* recorded, the statistics of a window are off by at most one request per *)
(* thread, and those of a quiet session that dropped nothing are exact.    *)
THEOREM StatisticsAreSound == MdSpec => []StatsAreSound
<1>1. MdInv => StatsAreSound
  <2>. SUFFICES ASSUME MdInv PROVE StatsAreSound
    OBVIOUS
  <2>. USE DEF MdInv
  <2>1. \A n \in 1..(Len(events) + 1) :
          /\ UsageStats(n).total - (UsageStats(n).successful + UsageStats(n).errors) = Gap(events, n)
          /\ UsageStats(n).failed = Count(events, n, "request") - Count(events, n, "success")
          /\ UsageStats(n).errors = Count(events, n, "error")
    BY DEF UsageStats, Gap, Count
  <2>2. Cardinality(Awaiting) \in Nat /\ Cardinality(Awaiting) <= Cardinality(Recorder) /\ Cardinality(Recorder) \in Nat
    BY AwaitingIsFinite
  <2>3. StatsOffByThreads
    <3>. SUFFICES ASSUME NEW n \in DOMAIN events
         PROVE  -Cardinality(Recorder) <= Gap(events, n) /\ Gap(events, n) <= Cardinality(Recorder)
      BY <2>1 DEF StatsOffByThreads
    <3>1. n \in 1..(Len(events) + 1)
      OBVIOUS
    <3>2. Gap(events, n) \in Int /\ Cardinality(Awaiting) - Cardinality(Recorder) <= Gap(events, n)
          /\ Gap(events, n) <= Cardinality(Awaiting)
      BY <3>1, Gaps DEF WindowsOff
    <3>. QED BY <2>2, <3>2
  <2>4. QuietStatsAreExact
    <3>. SUFFICES ASSUME ~dropped, \A r \in Recorder : pending[r] = <<>>
         PROVE  UsageStats(1).failed = UsageStats(1).errors
      BY DEF QuietStatsAreExact
    <3>1. Awaiting = {}
      BY DEF Awaiting, Unappended, Recordings
    <3>2. Gap(events, 1) = 0
      BY <3>1, FS_EmptySet
    <3>3. 1 \in 1..(Len(events) + 1)
      OBVIOUS
    <3>4. \A k : Count(events, 1, k) \in Nat
      BY <3>3, Counts
    <3>. QED BY <2>1, <3>2, <3>3, <3>4 DEF Gap
  <2>. QED BY <2>3, <2>4 DEF StatsAreSound
<1>. QED BY <1>1, MdInitInvariant, MdStep, PTL DEF MdSpec

-----------------------------------------------------------------------------
(* LocalAdvisor                                                            *)

(* A graphics card, and all models there are.                              *)
Card == [vram : Nat, shared : BOOLEAN]

Models == Online \cup Shipped

(* What a machine says of itself.                                          *)
LEMMA Machines ==
  ASSUME NEW w \in Wishes
  PROVE  /\ w.machine.gpus \in Seq(Card) /\ w.machine.ram \in Nat /\ w.machine.disk \in Nat /\ w.context \in Nat
         /\ IsFiniteSet(DOMAIN w.machine.gpus)
         /\ Usable(w.machine) \in Nat /\ Usable(w.machine) <= w.machine.ram
<1>1. /\ w.machine.gpus \in Seq(Card) /\ w.machine.ram \in Nat /\ w.machine.disk \in Nat /\ w.context \in Nat
  BY AdvisorAssumption DEF Card
<1>2. PICK n \in Nat : n = Len(w.machine.gpus) /\ DOMAIN w.machine.gpus = 1..n
  BY <1>1
<1>3. IsFiniteSet(1..n)
  BY FS_Interval
<1>4. PICK m \in Nat : m = w.machine.ram
  BY <1>1
<1>5. (m * 8) \div 10 \in Nat /\ (m * 8) \div 10 <= m
  OBVIOUS
<1>. QED BY <1>1, <1>2, <1>3, <1>4, <1>5 DEF Usable

(* The variant that is chosen is one of those that fit.                    *)
LEMMA BestIsVariant ==
  ASSUME NEW m \in Models, NEW quant
  PROVE  BestVariant(m, quant) \in m.variants /\ BestVariant(m, quant).size \in Nat
<1>. DEFINE preferred == {v \in m.variants : v.quant = quant}
            choices == IF preferred # {} THEN preferred ELSE m.variants
            ranks == {RankOf(v.quant) : v \in choices}
<1>1. m.variants # {} /\ \A v \in m.variants : v.size \in Nat
  BY AdvisorAssumption DEF Models
<1>2. choices # {} /\ choices \subseteq m.variants
  BY <1>1
<1>3. \A q : RankOf(q) \in Nat
  BY DEF RankOf, Preference
<1>. HIDE DEF choices
<1>4. ranks \subseteq Nat /\ ranks # {}
  BY <1>2, <1>3
<1>5. PICK k \in ranks : \A j \in ranks : k <= j
  <2>. HIDE DEF ranks
  <2>. QED BY <1>4, LeastNat
<1>6. \E v \in choices : \A w \in choices : RankOf(v.quant) <= RankOf(w.quant)
  BY <1>5
<1>7. BestVariant(m, quant) \in choices
  BY <1>6 DEF BestVariant, choices
<1>. QED BY <1>1, <1>2, <1>7

(* The cards of a machine, of which at most one has the processor's memory.*)
LEMMA MemoryCountedOnce ==
  ASSUME NEW machine, machine.gpus \in Seq(Card), IsFiniteSet(DOMAIN machine.gpus),
         Usable(machine) \in Nat,
         NEW pools, pools = {i \in DOMAIN machine.gpus : UsesPool(machine.gpus[i])}, Cardinality(pools) <= 1,
         NEW cards, cards = SumFunction([i \in DOMAIN machine.gpus \ pools |-> machine.gpus[i].vram])
  PROVE  /\ VramOf(machine) \in Nat /\ cards \in Nat
         /\ VramOf(machine) <= cards + Usable(machine)
         /\ VramOf(machine) > 0 => VramOf(machine) + OffloadRam(machine) <= cards + Usable(machine)
<1>. DEFINE G == DOMAIN machine.gpus
<1>0. PICK usable \in Nat : usable = Usable(machine)
  OBVIOUS
<1>1. \A i \in G : machine.gpus[i].vram \in Nat /\ machine.gpus[i].shared \in BOOLEAN
  <2>1. \A i \in G : machine.gpus[i] \in Card
    OBVIOUS
  <2>. QED BY <2>1 DEF Card
<1>2. /\ pools \subseteq G /\ IsFiniteSet(pools) /\ IsFiniteSet(G \ pools)
      /\ \A i, j \in pools : i = j
  <2>1. pools \in SUBSET G /\ G \ pools \in SUBSET G
    OBVIOUS
  <2>2. IsFiniteSet(pools) /\ IsFiniteSet(G \ pools)
    BY <2>1, FS_Subset
  <2>3. Cardinality(pools) \in Nat
    BY <2>2, FS_CardinalityType
  <2>4. Cardinality(pools) = 0 \/ Cardinality(pools) = 1
    BY <2>3
  <2>5. pools = {} \/ \E x : pools = {x}
    BY <2>2, <2>4, FS_EmptySet, FS_Singleton
  <2>. QED BY <2>1, <2>2, <2>5
<1>3. \A i \in G : Available(machine, i) = IF i \in pools THEN usable ELSE machine.gpus[i].vram
  BY <1>0 DEF Available
<1>. DEFINE f == [i \in G \ pools |-> machine.gpus[i].vram]
<1>4. f \in [G \ pools -> Nat]
  BY <1>1
<1>5. cards = SumFunction(f) /\ cards \in Nat
  <2>1. cards = SumFunction(f)
    OBVIOUS
  <2>. HIDE DEF f
  <2>. QED BY <1>2, <1>4, <2>1, TotalType
<1>6. OffloadRam(machine) = 0 \/ OffloadRam(machine) = usable
  BY <1>0 DEF OffloadRam
<1>7. CASE Candidates(machine.gpus) = G \ pools
  <2>1. [i \in Candidates(machine.gpus) |-> Available(machine, i)] = f
    BY <1>3, <1>7
  <2>2. VramOf(machine) = cards
    BY <1>5, <2>1 DEF VramOf
  <2>. QED BY <1>0, <1>5, <1>6, <2>2
<1>8. CASE Candidates(machine.gpus) # G \ pools
  <2>1. /\ Candidates(machine.gpus) = G
        /\ \A i \in G \ pools : machine.gpus[i].vram = 0
    BY <1>1, <1>8 DEF Candidates
  <2>2. PICK p \in pools : pools = {p}
    BY <1>2, <1>8, <2>1
  <2>. DEFINE e == [i \in G |-> Available(machine, i)]
  <2>3. e \in [G -> Nat] /\ e[p] = usable /\ VramOf(machine) = SumFunction(e)
    BY <1>0, <1>1, <1>2, <1>3, <2>1, <2>2 DEF VramOf
  <2>4. [i \in G \ {p} |-> e[i]] = f
    BY <1>3, <2>2
  <2>5. SumFunction(e) = usable + cards
    <3>1. p \in G
      BY <1>2
    <3>2. IsFiniteSet(G)
      OBVIOUS
    <3>. HIDE DEF e, f, G
    <3>3. SumFunction(e) = e[p] + SumFunction(f)
      <4>1. f \in [G \ {p} -> Nat] /\ \A y \in G \ {p} : f[y] = e[y]
        BY <1>4, <2>2, <2>4
      <4>2. \A F \in [G -> Nat], x \in G : \A E \in [G \ {x} -> Nat] :
              (\A y \in G \ {x} : E[y] = F[y]) => SumFunction(F) = F[x] + SumFunction(E)
        BY <3>2, TotalSplits, Zenon
      <4>. QED BY <2>3, <3>1, <4>1, <4>2
    <3>. QED BY <1>5, <2>3, <2>4, <3>3
  <2>6. VramOf(machine) > 0 => OffloadRam(machine) = 0
    <3>1. ASSUME VramOf(machine) > 0 PROVE usable > 0
      <4>. SUFFICES ASSUME usable = 0 PROVE FALSE
        OBVIOUS
      <4>1. SumFunction(f) = 0
        <5>. DEFINE z == [i \in G \ pools |-> 0]
        <5>1. f = z
          BY <2>1
        <5>. QED BY <1>2, <5>1, ZeroTotal
      <4>. QED BY <1>5, <2>3, <2>5, <3>1, <4>1
    <3>2. ASSUME usable > 0 PROVE BestGpu(machine) = p
      <4>1. \A i \in G : Available(machine, i) = IF i = p THEN usable ELSE 0
        BY <1>3, <2>1, <2>2
      <4>2. p \in G
        BY <1>2
      <4>3. \A j \in G : Available(machine, p) > Available(machine, j)
                         \/ (Available(machine, p) = Available(machine, j) /\ p <= j)
        BY <3>2, <4>1, <4>2
      <4>4. \A i \in G : i # p => ~(Available(machine, i) > Available(machine, p)
                                    \/ (Available(machine, i) = Available(machine, p) /\ i <= p))
        BY <3>2, <4>1, <4>2
      <4>. QED BY <2>1, <4>2, <4>3, <4>4 DEF BestGpu
    <3>3. machine.gpus[p].shared
      BY <2>2 DEF UsesPool
    <3>. QED BY <1>2, <2>1, <3>1, <3>2, <3>3 DEF OffloadRam
  <2>. QED BY <1>0, <1>5, <2>3, <2>5, <2>6
<1>. QED BY <1>7, <1>8

(* A total of one summand.                                                 *)
LEMMA OneSummand ==
  ASSUME NEW x, NEW f \in [{x} -> Nat]
  PROVE  SumFunction(f) = f[x]
<1>. DEFINE S == {x}
            e == [i \in S \ {x} |-> 0]
<1>1. IsFiniteSet(S) /\ IsFiniteSet(S \ {x})
  BY FS_EmptySet, FS_Singleton
<1>2. f \in [S -> Nat] /\ x \in S /\ e \in [S \ {x} -> Nat] /\ \A y \in S \ {x} : e[y] = f[y]
  OBVIOUS
<1>3. SumFunction(e) = 0
  BY <1>1, ZeroTotal
<1>. HIDE DEF S, e
<1>4. SumFunction(f) = f[x] + SumFunction(e)
  BY <1>1, <1>2, TotalSplits
<1>5. f[x] \in Nat
  BY <1>2
<1>. QED BY <1>3, <1>4, <1>5

(* One card, which shares the processor's memory and says how much of it.  *)
LEMMA SharedAlone ==
  ASSUME NEW machine, machine.gpus \in Seq(Card), Len(machine.gpus) = 1, machine.gpus[1].shared,
         ~UsesPool(machine.gpus[1])
  PROVE  VramOf(machine) = machine.gpus[1].vram /\ OffloadRam(machine) = 0
<1>1. DOMAIN machine.gpus = {1} /\ machine.gpus[1].vram \in Nat
  <2>1. DOMAIN machine.gpus = 1..1 /\ machine.gpus[1] \in Card
    OBVIOUS
  <2>2. 1..1 = {1}
    BY ONLY SMT
  <2>. QED BY <2>1, <2>2 DEF Card
<1>2. Candidates(machine.gpus) = {1} /\ Available(machine, 1) = machine.gpus[1].vram
  BY <1>1 DEF Candidates, Available
<1>3. VramOf(machine) = machine.gpus[1].vram
  <2>. DEFINE f == [i \in {1} |-> Available(machine, i)]
  <2>1. f \in [{1} -> Nat] /\ f[1] = machine.gpus[1].vram /\ VramOf(machine) = SumFunction(f)
    BY <1>1, <1>2 DEF VramOf
  <2>. HIDE DEF f
  <2>2. SumFunction(f) = f[1]
    BY <2>1, OneSummand
  <2>. QED BY <2>1, <2>2
<1>4. BestGpu(machine) = 1
  <2>1. Available(machine, 1) = Available(machine, 1) /\ 1 <= 1
    OBVIOUS
  <2>. QED BY <1>2, <2>1 DEF BestGpu
<1>. QED BY <1>2, <1>3, <1>4 DEF OffloadRam

(* What is recommended fits.                                               *)
LEMMA RecommendationFits ==
  ASSUME NEW models, models \subseteq Models, NEW w \in Wishes, NEW r \in Recommended(models, w),
         SharesOnce(w.machine),
         NEW cards,
         cards = SumFunction([i \in DOMAIN w.machine.gpus \ SharedCards(w.machine) |-> w.machine.gpus[i].vram])
  PROVE  /\ VramNeeded(r.model, r.variant, w.context) <= cards + w.machine.ram
         /\ w.machine.disk > 0 => r.variant.size <= w.machine.disk
<1>1. PICK m \in models : /\ Compatible(m, BestVariant(m, w.quant), w.machine, w.context)
                          /\ r.model = m /\ r.variant = BestVariant(m, w.quant)
  BY DEF Recommended
<1>2. PICK need \in Nat : need = VramNeeded(m, r.variant, w.context)
  <2>1. m \in Models /\ m.params \in Nat /\ w.context \in Nat /\ r.variant.size \in Nat
    BY <1>1, BestIsVariant, AdvisorAssumption DEF Models
  <2>2. PICK a \in Nat, b \in Nat, c \in Nat : a = m.params /\ b = w.context /\ c = r.variant.size
    BY <2>1
  <2>3. a * b \in Nat
    OBVIOUS
  <2>4. PICK d \in Nat : d = a * b
    BY <2>3
  <2>5. d \div 8 \in Nat
    OBVIOUS
  <2>. QED BY <2>2, <2>4, <2>5 DEF VramNeeded, Overhead
<1>3. FitType(w.machine, need) # "none" /\ (w.machine.disk > 0 => r.variant.size <= w.machine.disk)
  BY <1>1, <1>2 DEF Compatible
<1>4. PICK machine : machine = w.machine
  OBVIOUS
<1>5. /\ VramOf(machine) \in Nat /\ cards \in Nat
      /\ VramOf(machine) <= cards + machine.ram
      /\ VramOf(machine) > 0 => VramOf(machine) + OffloadRam(machine) <= cards + machine.ram
  <2>. DEFINE G == DOMAIN machine.gpus
              S == SharedCards(machine)
              pools == {i \in G : UsesPool(machine.gpus[i])}
  <2>1. /\ machine.gpus \in Seq(Card) /\ machine.ram \in Nat /\ IsFiniteSet(G)
        /\ Usable(machine) \in Nat /\ Usable(machine) <= machine.ram
    BY <1>4, Machines
  <2>2. S \subseteq G /\ pools \subseteq S /\ Cardinality(S) <= 1
    BY <1>4 DEF SharesOnce, SharedCards, UsesPool
  <2>3. cards = SumFunction([i \in G \ S |-> machine.gpus[i].vram])
    BY <1>4
  <2>4. CASE pools = S
    <3>1. /\ VramOf(machine) \in Nat /\ cards \in Nat
          /\ VramOf(machine) <= cards + Usable(machine)
          /\ VramOf(machine) > 0 => VramOf(machine) + OffloadRam(machine) <= cards + Usable(machine)
      <4>1. Cardinality(pools) <= 1 /\ cards = SumFunction([i \in G \ pools |-> machine.gpus[i].vram])
        BY <2>2, <2>3, <2>4
      <4>. QED BY <2>1, <4>1, MemoryCountedOnce
    <3>2. OffloadRam(machine) \in {0, Usable(machine)}
      BY DEF OffloadRam
    <3>3. \A v, k, u, n, o \in Nat : u <= n /\ v <= k + u /\ (v > 0 => v + o <= k + u)
            => v <= k + n /\ (v > 0 => v + o <= k + n)
      BY ONLY SMT
    <3>4. 0 \in Nat
      OBVIOUS
    <3>5. OffloadRam(machine) \in Nat
      BY <2>1, <3>2, <3>4
    <3>. QED BY <2>1, <3>1, <3>3, <3>5, Zenon
  <2>5. CASE pools # S
    <3>1. PICK i \in S : ~UsesPool(machine.gpus[i]) /\ i \in G
      BY <2>2, <2>5
    <3>2. Len(machine.gpus) = 1 /\ machine.gpus[i].vram <= machine.ram
      BY <1>4, <3>1 DEF SharesOnce
    <3>3. i = 1 /\ G = {1} /\ machine.gpus[1] \in Card
      BY <2>1, <3>1, <3>2
    <3>4. VramOf(machine) = machine.gpus[1].vram /\ OffloadRam(machine) = 0 /\ machine.gpus[1].vram \in Nat
      <4>1. machine.gpus[1].shared /\ ~UsesPool(machine.gpus[1])
        BY <3>1, <3>3 DEF SharedCards
      <4>2. VramOf(machine) = machine.gpus[1].vram /\ OffloadRam(machine) = 0
        BY <2>1, <3>2, <4>1, SharedAlone
      <4>. QED BY <3>3, <4>2 DEF Card
    <3>5. cards = 0
      <4>. DEFINE f == [j \in {} |-> 0]
      <4>1. G \ S = {}
        BY <2>2, <3>1, <3>3
      <4>2. [j \in G \ S |-> machine.gpus[j].vram] = f
        BY <4>1
      <4>3. IsFiniteSet({})
        BY FS_EmptySet
      <4>4. SumFunction(f) = 0
        BY <4>3, ZeroTotal
      <4>. QED BY <2>3, <4>2, <4>4
    <3>. QED BY <2>1, <3>2, <3>3, <3>4, <3>5
  <2>. QED BY <2>4, <2>5
<1>6. Usable(machine) \in Nat /\ machine.ram \in Nat /\ Usable(machine) <= machine.ram
      /\ OffloadRam(machine) \in {0, Usable(machine)}
  BY <1>4, Machines DEF OffloadRam
<1>7. \/ VramOf(machine) >= need
      \/ VramOf(machine) > 0 /\ VramOf(machine) + OffloadRam(machine) >= need
      \/ Usable(machine) >= need
  BY <1>3, <1>4 DEF FitType
<1>8. need <= cards + machine.ram
  BY <1>5, <1>6, <1>7
<1>. QED BY <1>1, <1>2, <1>3, <1>4, <1>8

-----------------------------------------------------------------------------

(* Models come online or are shipped, never both.                          *)
OneSource(models) == models = Shipped \/ models \in (SUBSET Online) \ {{}}

AdvInv ==
  /\ AdvTypeOK
  /\ wish \in [Process -> Wishes] /\ DOMAIN fetched = Process /\ \A p \in Process : fetched[p] \subseteq Online
  /\ DOMAIN catalog = Process /\ DOMAIN ranked = Process
  /\ cacheFile.kind = "whole" => OneSource(cacheFile.models)
  /\ cacheFile \in [kind : {"none", "torn", "whole"}, models : {cacheFile.models}, fresh : BOOLEAN]
  /\ \A p \in Process : phase[p] = "done" =>
       OneSource(catalog[p].models) /\ ranked[p] = Recommended(catalog[p].models, wish[p])
  /\ \A p \in Process : phase[p] = "raised" => ~wish[p].refresh

(* The invariant holds of an advisor that was not asked.                   *)
LEMMA AdvInitInvariant == AdvInit => AdvInv
<1>. SUFFICES ASSUME AdvInit PROVE AdvInv
  OBVIOUS
<1>1. (CHOOSE w \in Wishes : TRUE) \in Wishes
  BY AdvisorAssumption
<1>. QED BY <1>1 DEF AdvInit, AdvInv, AdvTypeOK, Nothing, NoCache

(* Whoever is answered gets what it is answered from, and what that        *)
(* recommends.                                                             *)
LEMMA Answers ==
  ASSUME AdvInv, NEW p \in Process, NEW models, OneSource(models),
         NEW source \in {"cache", "huggingface", "fallback"}, Answer(p, models, source),
         wish' \in [Process -> Wishes], \A q \in Process : q # p => wish'[q] = wish[q],
         UNCHANGED <<queries, fetched>>,
         overtaken' \subseteq Process,
         cacheFile' = cacheFile \/ (\E kind \in {"torn", "whole"} : cacheFile' = [kind |-> kind, models |-> Live(p), fresh |-> TRUE])
  PROVE  AdvInv'
<1>. USE DEF AdvInv
<1>1. /\ catalog' = [catalog EXCEPT ![p] = [models |-> models, source |-> source]]
      /\ ranked' = [ranked EXCEPT ![p] = Recommended(models, wish'[p])]
      /\ phase' = [phase EXCEPT ![p] = "done"]
  BY DEF Answer
<1>2. OneSource(Live(p))
  BY DEF Live, OneSource
<1>3. /\ cacheFile'.kind = "whole" => OneSource(cacheFile'.models)
      /\ cacheFile' \in [kind : {"none", "torn", "whole"}, models : {cacheFile'.models}, fresh : BOOLEAN]
  <2>1. CASE cacheFile' = cacheFile
    BY <2>1
  <2>2. ASSUME NEW kind \in {"torn", "whole"}, cacheFile' = [kind |-> kind, models |-> Live(p), fresh |-> TRUE]
        PROVE  /\ cacheFile'.models = Live(p)
               /\ cacheFile' \in [kind : {"none", "torn", "whole"}, models : {cacheFile'.models}, fresh : BOOLEAN]
    <3>1. cacheFile'.models = Live(p)
      BY <2>2
    <3>. QED BY <2>2, <3>1
  <2>. QED BY <1>2, <2>1, <2>2
<1>4. AdvTypeOK'
  BY <1>1, <1>3 DEF AdvTypeOK
<1>5. ASSUME NEW q \in Process, phase'[q] = "done"
      PROVE  OneSource(catalog'[q].models) /\ ranked'[q] = Recommended(catalog'[q].models, wish'[q])
  <2>1. CASE q = p
    BY <1>1, <2>1
  <2>2. CASE q # p
    BY <1>1, <1>5, <2>2 DEF AdvTypeOK
  <2>. QED BY <2>1, <2>2
<1>6. ASSUME NEW q \in Process, phase'[q] = "raised" PROVE ~wish'[q].refresh
  BY <1>1, <1>6 DEF AdvTypeOK
<1>. QED BY <1>1, <1>3, <1>4, <1>5, <1>6

(* Every step keeps it.                                                    *)
LEMMA AdvStep == AdvInv /\ [AdvNext]_advars => AdvInv'
<1>. SUFFICES ASSUME AdvInv, [AdvNext]_advars PROVE AdvInv'
  OBVIOUS
<1>. USE DEF AdvInv, AdvTypeOK
<1>1. CASE UNCHANGED advars
  BY <1>1 DEF advars
<1>2. CASE ExpireCache
  <2>1. /\ cacheFile' = [cacheFile EXCEPT !.fresh = FALSE]
        /\ UNCHANGED <<phase, queries, fetched, wish, overtaken, catalog, ranked>>
    BY <1>2 DEF ExpireCache
  <2>2. cacheFile'.kind = cacheFile.kind /\ cacheFile'.models = cacheFile.models
        /\ cacheFile' \in [kind : {"none", "torn", "whole"}, models : {cacheFile'.models}, fresh : BOOLEAN]
    BY <2>1
  <2>. QED BY <2>1, <2>2
<1>3. ASSUME NEW p \in Process, NEW w \in Wishes, AskCatalog(p, w) PROVE AdvInv'
  <2>1. wish' = [wish EXCEPT ![p] = w] /\ phase[p] = "idle" /\ UNCHANGED <<cacheFile, overtaken>>
        /\ wish' \in [Process -> Wishes] /\ \A q \in Process : q # p => wish'[q] = wish[q]
    BY <1>3 DEF AskCatalog
  <2>2. CASE cacheFile.kind = "whole" /\ Answer(p, cacheFile.models, "cache") /\ UNCHANGED <<queries, fetched>>
    <3>1. OneSource(cacheFile.models) /\ overtaken' \subseteq Process
      BY <2>1, <2>2
    <3>. QED BY <2>1, <2>2, <3>1, Answers
  <2>3. CASE /\ phase' = [phase EXCEPT ![p] = "fetching"] /\ queries' = [queries EXCEPT ![p] = 0]
             /\ fetched' = [fetched EXCEPT ![p] = {}] /\ UNCHANGED <<catalog, ranked>>
    BY <2>1, <2>3
  <2>. QED BY <1>3, <2>2, <2>3 DEF AskCatalog
<1>9. ASSUME NEW p \in Process, NEW w \in Wishes, CacheRaises(p, w) PROVE AdvInv'
  <2>1. /\ wish' = [wish EXCEPT ![p] = w] /\ phase' = [phase EXCEPT ![p] = "raised"] /\ w.refresh = FALSE
        /\ UNCHANGED <<cacheFile, queries, fetched, overtaken, catalog, ranked>>
    BY <1>9 DEF CacheRaises
  <2>. QED BY <2>1
<1>4. ASSUME NEW p \in Process, Query(p) PROVE AdvInv'
  <2>1. PICK found \in SUBSET Online : fetched' = [fetched EXCEPT ![p] = @ \cup found]
    BY <1>4 DEF Query
  <2>2. queries' \in [Process -> 0..2] /\ UNCHANGED <<cacheFile, phase, wish, overtaken, catalog, ranked>>
    BY <1>4 DEF Query
  <2>. QED BY <2>1, <2>2
<1>5. ASSUME NEW p \in Process, OpenCache(p) PROVE AdvInv'
  <2>1. /\ cacheFile' = [cacheFile EXCEPT !.kind = "torn"] /\ phase' = [phase EXCEPT ![p] = "writing"]
        /\ UNCHANGED <<queries, fetched, wish, overtaken, catalog, ranked>>
    BY <1>5 DEF OpenCache
  <2>2. cacheFile'.kind = "torn"
        /\ cacheFile' \in [kind : {"none", "torn", "whole"}, models : {cacheFile'.models}, fresh : BOOLEAN]
    BY <2>1
  <2>. QED BY <2>1, <2>2
<1>6. ASSUME NEW p \in Process, WriteCache(p) PROVE AdvInv'
  <2>1. OneSource(Live(p))
    BY DEF Live, OneSource
  <2>2. /\ \E kind \in {"torn", "whole"} : cacheFile' = [kind |-> kind, models |-> Live(p), fresh |-> TRUE]
        /\ overtaken' \subseteq Process /\ UNCHANGED <<wish, queries, fetched>>
        /\ Answer(p, Live(p), "huggingface")
    BY <1>6 DEF WriteCache
  <2>. QED BY <2>1, <2>2, Answers
<1>7. ASSUME NEW p \in Process, SaveFails(p) PROVE AdvInv'
  <2>1. /\ UNCHANGED <<cacheFile, wish, queries, fetched>> /\ overtaken' \subseteq Process
        /\ Answer(p, Shipped, "fallback")
    BY <1>7 DEF SaveFails
  <2>2. OneSource(Shipped)
    BY DEF OneSource
  <2>. QED BY <2>1, <2>2, Answers
<1>8. ASSUME NEW p \in Process, Answered(p) PROVE AdvInv'
  BY <1>8 DEF Answered
<1>. QED BY <1>1, <1>2, <1>3, <1>4, <1>5, <1>6, <1>7, <1>8, <1>9 DEF AdvNext

(* Whoever writes the cache at a time: an answer is from one source, only  *)
(* a call that reads the cache may raise, and what is recommended fits the *)
(* machine's memory and its disk, where at most one card shares the        *)
(* processor's memory and that one is alone or says little of it.          *)
THEOREM AdviceFits == AdvSpec => []AdviceIsSound
<1>1. AdvInv => AdviceIsSound
  <2>. SUFFICES ASSUME AdvInv PROVE AdviceIsSound
    OBVIOUS
  <2>1. CatalogsAreOneSource
    BY DEF AdvInv, OneSource, CatalogsAreOneSource
  <2>2. RecommendedFits
    <3>. SUFFICES ASSUME NEW p \in Process, NEW r \in ranked[p], phase[p] = "done",
                         SharesOnce(wish[p].machine), NEW cards,
                         cards = SumFunction([i \in DOMAIN wish[p].machine.gpus \ SharedCards(wish[p].machine)
                                              |-> wish[p].machine.gpus[i].vram])
                  PROVE  /\ VramNeeded(r.model, r.variant, wish[p].context) <= cards + wish[p].machine.ram
                         /\ wish[p].machine.disk > 0 => r.variant.size <= wish[p].machine.disk
      BY DEF RecommendedFits
    <3>1. PICK models : models = catalog[p].models /\ models \subseteq Models /\ ranked[p] = Recommended(models, wish[p])
      BY DEF AdvInv, OneSource, Models
    <3>2. PICK w \in Wishes : w = wish[p]
      BY DEF AdvInv
    <3>. QED BY <3>1, <3>2, RecommendationFits
  <2>. QED BY <2>1, <2>2 DEF AdvInv, AdviceIsSound
<1>. QED BY <1>1, AdvInitInvariant, AdvStep, PTL DEF AdvSpec

-----------------------------------------------------------------------------
(* PhraseMatcher                                                           *)

(* A string without its first k letters. *)
Shed(s, k) == SubSeq(s, k + 1, Len(s))

(* What is left of s when as little as possible is dropped of it, j        *)
(* letters at least, such that it is in S.                                 *)
LongestOf(S, s, j, m) ==
  \E k \in j..Len(s) : m = Shed(s, k) /\ m \in S /\ \A i \in j..(k - 1) : Shed(s, i) \notin S

IsTrie(trie, A) == trie \subseteq Seq(A) /\ Root \in trie /\ \A n \in trie : n # Root => Front(n) \in trie

Stops(c, trie) == {f \in trie : f = Root \/ Append(f, c) \in trie}

LEMMA ShedFacts ==
  ASSUME NEW A, NEW s \in Seq(A), NEW k \in 0..Len(s)
  PROVE  /\ Shed(s, k) \in Seq(A) /\ Len(Shed(s, k)) = Len(s) - k
         /\ \A i \in 1..(Len(s) - k) : Shed(s, k)[i] = s[k + i]
<1>1. \A i \in (k + 1)..Len(s) : s[i] \in A
  OBVIOUS
<1>2. Len(s) \in Nat /\ k \in Nat /\ k + 1 \in Int
  OBVIOUS
<1>3. /\ Shed(s, k) \in Seq(A)
      /\ Len(Shed(s, k)) = IF k + 1 <= Len(s) THEN Len(s) - (k + 1) + 1 ELSE 0
      /\ \A i \in 1..(Len(s) - (k + 1) + 1) : Shed(s, k)[i] = s[k + 1 + i - 1]
  BY <1>1, <1>2, SubSeqProperties DEF Shed
<1>4. Len(Shed(s, k)) = Len(s) - k
  BY <1>2, <1>3
<1>5. ASSUME NEW i \in 1..(Len(s) - k) PROVE Shed(s, k)[i] = s[k + i]
  <2>1. i \in 1..(Len(s) - (k + 1) + 1) /\ k + 1 + i - 1 = k + i
    BY <1>2
  <2>. QED BY <1>3, <2>1
<1>. QED BY <1>3, <1>4, <1>5

LEMMA ShedNone ==
  ASSUME NEW A, NEW s \in Seq(A)
  PROVE  Shed(s, 0) = s /\ Shed(s, Len(s)) = Root /\ \A k \in 0..Len(s) : Shed(s, k) = Root => k = Len(s)
<1>1. Shed(s, 0) \in Seq(A) /\ Len(Shed(s, 0)) = Len(s) /\ \A i \in 1..Len(s) : Shed(s, 0)[i] = s[i]
  BY ShedFacts, SMTT(30)
<1>2. Shed(s, 0) = s
  BY <1>1, SeqEqual
<1>3. Shed(s, Len(s)) \in Seq(A) /\ Len(Shed(s, Len(s))) = 0
  BY ShedFacts
<1>4. \A k \in 0..Len(s) : Len(Shed(s, k)) = Len(s) - k
  BY ShedFacts
<1>. QED BY <1>2, <1>3, <1>4 DEF Root

LEMMA ShedTwice ==
  ASSUME NEW A, NEW s \in Seq(A), NEW k \in 0..Len(s), NEW j \in 0..(Len(s) - k)
  PROVE  Shed(Shed(s, k), j) = Shed(s, k + j)
<1>1. /\ Shed(s, k) \in Seq(A) /\ Len(Shed(s, k)) = Len(s) - k
      /\ \A i \in 1..(Len(s) - k) : Shed(s, k)[i] = s[k + i]
  BY ShedFacts
<1>2. k + j \in 0..Len(s)
  OBVIOUS
<1>3. /\ Shed(s, k + j) \in Seq(A) /\ Len(Shed(s, k + j)) = Len(s) - (k + j)
      /\ \A i \in 1..(Len(s) - (k + j)) : Shed(s, k + j)[i] = s[k + j + i]
  BY <1>2, ShedFacts
<1>. DEFINE t == Shed(s, k)
<1>4. j \in 0..Len(t) /\ t \in Seq(A) /\ Len(t) = Len(s) - k /\ Len(s) \in Nat
  BY <1>1
<1>. HIDE DEF t
<1>5. /\ Shed(t, j) \in Seq(A) /\ Len(Shed(t, j)) = Len(t) - j
      /\ \A i \in 1..(Len(t) - j) : Shed(t, j)[i] = t[j + i]
  BY <1>4, ShedFacts
<1>6. Len(Shed(t, j)) = Len(Shed(s, k + j))
  BY <1>3, <1>4, <1>5
<1>7. ASSUME NEW i \in 1..Len(Shed(s, k + j)) PROVE Shed(t, j)[i] = Shed(s, k + j)[i]
  <2>1. i \in 1..(Len(t) - j) /\ j + i \in 1..(Len(s) - k) /\ i \in 1..(Len(s) - (k + j))
          /\ k + (j + i) = k + j + i
    BY <1>1, <1>3, <1>7 DEF t
  <2>2. t[j + i] = s[k + (j + i)]
    BY <1>1, <2>1 DEF t
  <2>. QED BY <1>3, <1>5, <2>1, <2>2
<1>8. Shed(t, j) = Shed(s, k + j)
  BY <1>3, <1>5, <1>6, <1>7, SeqEqual
<1>. QED BY <1>8 DEF t

LEMMA ShedAppend ==
  ASSUME NEW A, NEW s \in Seq(A), NEW c \in A, NEW k \in 0..Len(s)
  PROVE  Shed(Append(s, c), k) = Append(Shed(s, k), c)
<1>. DEFINE a == Append(s, c)
            t == Shed(s, k)
<1>1. t \in Seq(A) /\ Len(t) = Len(s) - k /\ \A i \in 1..(Len(s) - k) : t[i] = s[k + i]
  BY ShedFacts
<1>2. a \in Seq(A) /\ Len(a) = Len(s) + 1 /\ a[Len(s) + 1] = c /\ \A i \in 1..Len(s) : a[i] = s[i]
  OBVIOUS
<1>. HIDE DEF a, t
<1>3. k \in 0..Len(a)
  BY <1>2
<1>4. Shed(a, k) \in Seq(A) /\ Len(Shed(a, k)) = Len(a) - k
        /\ \A i \in 1..(Len(a) - k) : Shed(a, k)[i] = a[k + i]
  BY <1>2, <1>3, ShedFacts
<1>5. Append(t, c) \in Seq(A) /\ Len(Append(t, c)) = Len(t) + 1 /\ Append(t, c)[Len(t) + 1] = c
        /\ \A i \in 1..Len(t) : Append(t, c)[i] = t[i]
  BY <1>1
<1>6. Len(Shed(a, k)) = Len(Append(t, c))
  BY <1>1, <1>2, <1>4, <1>5
<1>7. ASSUME NEW i \in 1..Len(Append(t, c)) PROVE Shed(a, k)[i] = Append(t, c)[i]
  <2>1. i \in 1..(Len(a) - k) /\ i \in Nat
    BY <1>4, <1>6
  <2>2. CASE i = Len(t) + 1
    <3>1. k + i = Len(s) + 1
      BY <1>1, <2>2
    <3>. QED BY <1>2, <1>4, <1>5, <2>1, <2>2, <3>1
  <2>3. CASE i # Len(t) + 1
    <3>1. i \in 1..Len(t) /\ k + i \in 1..Len(s) /\ i \in 1..(Len(s) - k)
      BY <1>1, <1>5, <2>1, <2>3, <1>7
    <3>. QED BY <1>1, <1>2, <1>4, <1>5, <2>1, <3>1
  <2>. QED BY <2>2, <2>3
<1>8. Shed(a, k) = Append(t, c)
  BY <1>4, <1>5, <1>6, <1>7, SeqEqual
<1>. QED BY <1>8 DEF a, t

LEMMA FrontAndLast ==
  ASSUME NEW A, NEW n \in Seq(A), n # Root
  PROVE  /\ Front(n) \in Seq(A) /\ Last(n) \in A /\ n = Append(Front(n), Last(n))
         /\ Len(Front(n)) = Len(n) - 1 /\ Len(n) \in Nat \ {0}
BY TakenApart DEF Front, Last, Root

LEMMA FrontOfAppend ==
  ASSUME NEW A, NEW s \in Seq(A), NEW c \in A
  PROVE  Append(s, c) # Root /\ Front(Append(s, c)) = s
<1>1. Append(s, c) \in Seq(A) /\ Append(s, c) # Root /\ Len(Append(s, c)) = Len(s) + 1
        /\ \A i \in 1..Len(s) : Append(s, c)[i] = s[i]
  BY SMTT(30) DEF Root
<1>. DEFINE a == Append(s, c)
            f == Front(a)
<1>. HIDE DEF a
<1>2. f \in Seq(A) /\ Len(f) = Len(a) - 1 /\ a = Append(f, Last(a)) /\ Last(a) \in A
  BY <1>1, FrontAndLast DEF a
<1>. HIDE DEF f
<1>3. \A i \in 1..Len(f) : a[i] = f[i]
  BY <1>2
<1>4. Len(f) = Len(s)
  BY <1>1, <1>2 DEF a
<1>5. f = s
  BY <1>1, <1>2, <1>3, <1>4, SeqEqual DEF a
<1>. QED BY <1>1, <1>5 DEF a, f

LEMMA LongestExists ==
  ASSUME NEW A, NEW S, Root \in S, NEW s \in Seq(A), NEW j \in 0..Len(s)
  PROVE  \E m : LongestOf(S, s, j, m)
<1>. DEFINE B == {k \in j..Len(s) : Shed(s, k) \in S}
<1>1. B \subseteq Nat /\ B # {}
  <2>1. Len(s) \in B
    BY ShedNone
  <2>. QED BY <2>1
<1>2. PICK k \in B : \A i \in B : k <= i
  <2>. HIDE DEF B
  <2>. QED BY <1>1, LeastNat
<1>3. \A i \in j..(k - 1) : Shed(s, i) \notin S
  BY <1>2
<1>. QED BY <1>2, <1>3 DEF LongestOf

LEMMA LongestIsOne ==
  ASSUME NEW A, NEW S, NEW s \in Seq(A), NEW j \in 0..Len(s), NEW m, NEW n,
         LongestOf(S, s, j, m), LongestOf(S, s, j, n)
  PROVE  m = n
<1>1. PICK k \in j..Len(s) : m = Shed(s, k) /\ m \in S /\ \A i \in j..(k - 1) : Shed(s, i) \notin S
  BY DEF LongestOf
<1>2. PICK h \in j..Len(s) : n = Shed(s, h) /\ n \in S /\ \A i \in j..(h - 1) : Shed(s, i) \notin S
  BY DEF LongestOf
<1>3. h \notin j..(k - 1) /\ k \notin j..(h - 1)
  BY <1>1, <1>2
<1>4. h = k
  BY <1>3
<1>. QED BY <1>1, <1>2, <1>4

(* What is longest in a part of S is found by way of what is longest in S. *)
LEMMA LongestThrough ==
  ASSUME NEW A, NEW S, NEW U \in SUBSET S, NEW s \in Seq(A), NEW j \in 0..Len(s), NEW g, NEW m,
         LongestOf(S, s, j, g), LongestOf(U, g, 0, m)
  PROVE  LongestOf(U, s, j, m)
<1>1. PICK k \in j..Len(s) : g = Shed(s, k) /\ g \in S /\ \A i \in j..(k - 1) : Shed(s, i) \notin S
  BY DEF LongestOf
<1>2. PICK h \in 0..Len(g) : m = Shed(g, h) /\ m \in U /\ \A i \in 0..(h - 1) : Shed(g, i) \notin U
  BY DEF LongestOf
<1>3. k \in 0..Len(s) /\ Len(g) = Len(s) - k
  BY <1>1, ShedFacts
<1>4. k + h \in j..Len(s) /\ h \in 0..(Len(s) - k)
  BY <1>3
<1>5. m = Shed(s, k + h)
  BY <1>1, <1>2, <1>3, <1>4, ShedTwice
<1>6. ASSUME NEW i \in j..(k + h - 1) PROVE Shed(s, i) \notin U
  <2>1. CASE i < k
    <3>1. i \in j..(k - 1)
      BY <2>1
    <3>. QED BY <1>1, <3>1
  <2>2. CASE i >= k
    <3>1. i - k \in 0..(h - 1) /\ i - k \in 0..(Len(s) - k) /\ k + (i - k) = i
      BY <1>3, <2>2
    <3>2. Shed(g, i - k) = Shed(s, k + (i - k))
      BY <1>1, <1>3, <3>1, ShedTwice
    <3>. QED BY <1>2, <3>1, <3>2
  <2>. QED BY <2>1, <2>2
<1>. QED BY <1>2, <1>4, <1>5, <1>6 DEF LongestOf

(* A string in S is the longest; one that is not is the same as its rest.  *)
LEMMA LongestFromFirst ==
  ASSUME NEW A, NEW S, NEW s \in Seq(A)
  PROVE  /\ s \in S => LongestOf(S, s, 0, s)
         /\ \A m : s \notin S /\ LongestOf(S, s, 1, m) => LongestOf(S, s, 0, m)
<1>1. Shed(s, 0) = s
  BY ShedNone
<1>2. s \in S => LongestOf(S, s, 0, s)
  BY <1>1 DEF LongestOf
<1>3. ASSUME NEW m, s \notin S, LongestOf(S, s, 1, m) PROVE LongestOf(S, s, 0, m)
  <2>1. PICK k \in 1..Len(s) : m = Shed(s, k) /\ m \in S /\ \A i \in 1..(k - 1) : Shed(s, i) \notin S
    BY <1>3 DEF LongestOf
  <2>2. \A i \in 0..(k - 1) : Shed(s, i) \notin S
    BY <1>1, <1>3, <2>1
  <2>. QED BY <2>1, <2>2 DEF LongestOf
<1>. QED BY <1>2, <1>3

(* One letter more. *)
LEMMA LongestGrows ==
  ASSUME NEW A, NEW trie, IsTrie(trie, A), NEW p \in Seq(A), NEW c \in A, NEW j \in 0..Len(p), NEW m,
         LongestOf(Stops(c, trie), p, j, m)
  PROVE  LongestOf(trie, Append(p, c), j, IF Append(m, c) \in trie THEN Append(m, c) ELSE Root)
<1>. DEFINE n == Append(p, c)
<1>1. n \in Seq(A) /\ Len(n) = Len(p) + 1 /\ Len(p) \in Nat
  OBVIOUS
<1>2. PICK k \in j..Len(p) : m = Shed(p, k) /\ m \in Stops(c, trie)
        /\ \A i \in j..(k - 1) : Shed(p, i) \notin Stops(c, trie)
  BY DEF LongestOf
<1>3. \A i \in 0..Len(p) : Shed(n, i) = Append(Shed(p, i), c) /\ Shed(p, i) \in Seq(A)
  BY ShedAppend, ShedFacts
<1>. HIDE DEF n
<1>4. ASSUME NEW i \in j..(k - 1) PROVE Shed(n, i) \notin trie
  <2>1. i \in 0..Len(p)
    BY <1>1
  <2>2. Shed(p, i) \notin trie \/ Append(Shed(p, i), c) \notin trie
    BY <1>2 DEF Stops
  <2>3. Append(Shed(p, i), c) \in trie => Shed(p, i) \in trie
    BY <1>3, <2>1, FrontOfAppend, ZenonT(30) DEF IsTrie
  <2>. QED BY <1>3, <2>1, <2>2, <2>3
<1>5. CASE Append(m, c) \in trie
  <2>1. Append(m, c) = Shed(n, k) /\ k \in j..Len(n)
    BY <1>1, <1>2, <1>3
  <2>. QED BY <1>4, <1>5, <2>1 DEF LongestOf, n
<1>6. CASE Append(m, c) \notin trie
  <2>1. m = Root
    BY <1>2, <1>6 DEF Stops
  <2>2. k = Len(p)
    <3>1. k \in 0..Len(p) /\ Shed(p, k) = Root
      BY <1>2, <2>1
    <3>. QED BY <3>1, ShedNone
  <2>3. Shed(n, Len(n)) = Root /\ Root \in trie /\ Len(n) \in j..Len(n)
    BY <1>1, ShedNone DEF IsTrie
  <2>4. ASSUME NEW i \in j..(Len(n) - 1) PROVE Shed(n, i) \notin trie
    <3>1. CASE i = k
      <4>1. k \in 0..Len(p)
        BY <1>2
      <4>. QED BY <1>2, <1>3, <1>6, <3>1, <4>1
    <3>2. CASE i # k
      <4>1. i \in j..(k - 1)
        BY <1>1, <2>2, <3>2
      <4>. QED BY <1>4, <4>1
    <3>. QED BY <3>1, <3>2
  <2>. QED BY <1>6, <2>3, <2>4 DEF LongestOf, n
<1>. QED BY <1>5, <1>6

(* Going back along links that lead to what is longest ends at what is     *)
(* longest.                                                                *)
LEMMA BackSettles ==
  ASSUME NEW A, NEW trie, IsTrie(trie, A), NEW c, NEW part \in SUBSET trie,
         \A f \in part : \A g \in trie : Len(g) < Len(f) => g \in part,
         NEW fail, \A f \in part : f # Root => LongestOf(trie, f, 1, fail[f])
  PROVE  \A f \in part : LongestOf(Stops(c, trie), f, 0, BackTo(c, part, trie, fail)[f])
<1>. DEFINE S == Stops(c, trie)
            Longest(f) == CHOOSE m : LongestOf(S, f, 0, m)
            Goes(b) == b = [f \in part |-> IF f = Root \/ Append(f, c) \in trie THEN f ELSE b[fail[f]]]
            back == BackTo(c, part, trie, fail)
<1>1. Root \in S /\ S \in SUBSET trie /\ \A f \in part : f \in S <=> f = Root \/ Append(f, c) \in trie
  BY DEF IsTrie, Stops
<1>2. \A f \in part : f \in Seq(A) /\ Len(f) \in Nat
  BY DEF IsTrie
<1>. HIDE DEF S
<1>3. \A f \in part : LongestOf(S, f, 0, Longest(f))
  <2>1. \A f \in part : \E m : LongestOf(S, f, 0, m)
    BY <1>1, <1>2, LongestExists
  <2>. QED BY <2>1
<1>4. ASSUME NEW f \in part, f \notin S
      PROVE  /\ fail[f] \in part /\ Len(fail[f]) < Len(f)
             /\ \A m : LongestOf(S, fail[f], 0, m) => LongestOf(S, f, 0, m)
  <2>1. f # Root /\ LongestOf(trie, f, 1, fail[f])
    BY <1>1, <1>4
  <2>2. PICK k \in 1..Len(f) : fail[f] = Shed(f, k) /\ fail[f] \in trie
    BY <2>1 DEF LongestOf
  <2>3. Len(fail[f]) = Len(f) - k
    BY <1>2, <2>2, ShedFacts
  <2>4. 1 \in 0..Len(f)
    BY <1>2, <2>2
  <2>5. ASSUME NEW m, LongestOf(S, fail[f], 0, m) PROVE LongestOf(S, f, 0, m)
    <3>1. LongestOf(S, f, 1, m)
      BY <1>1, <1>2, <2>1, <2>4, <2>5, LongestThrough
    <3>. QED BY <1>2, <1>4, <3>1, LongestFromFirst
  <2>. QED BY <1>2, <2>2, <2>3, <2>5
<1>5. Goes([f \in part |-> Longest(f)])
  <2>. DEFINE w == [f \in part |-> Longest(f)]
  <2>1. ASSUME NEW f \in part PROVE w[f] = IF f = Root \/ Append(f, c) \in trie THEN f ELSE w[fail[f]]
    <3>1. CASE f \in S
      <4>1. LongestOf(S, f, 0, f) /\ LongestOf(S, f, 0, Longest(f))
        BY <1>2, <1>3, <3>1, LongestFromFirst
      <4>2. 0 \in 0..Len(f)
        BY <1>2
      <4>3. Longest(f) = f
        BY <1>2, <4>1, <4>2, LongestIsOne
      <4>. QED BY <1>1, <3>1, <4>3
    <3>2. CASE f \notin S
      <4>1. fail[f] \in part /\ LongestOf(S, fail[f], 0, Longest(fail[f]))
        BY <1>3, <1>4, <3>2
      <4>2. LongestOf(S, f, 0, Longest(fail[f])) /\ LongestOf(S, f, 0, Longest(f))
        BY <1>3, <1>4, <3>2, <4>1
      <4>3. 0 \in 0..Len(f)
        BY <1>2
      <4>4. Longest(f) = Longest(fail[f])
        BY <1>2, <4>2, <4>3, LongestIsOne
      <4>. QED BY <1>1, <3>2, <4>1, <4>4
    <3>. QED BY <3>1, <3>2
  <2>. HIDE DEF Longest
  <2>2. w = [f \in part |-> IF f = Root \/ Append(f, c) \in trie THEN f ELSE w[fail[f]]]
    BY <2>1
  <2>. QED BY <2>2
<1>6. Goes(back)
  <2>1. back = CHOOSE b : Goes(b)
    BY DEF BackTo
  <2>2. \E b : Goes(b)
    BY <1>5
  <2>. HIDE DEF Goes, back
  <2>. QED BY <2>1, <2>2
<1>7. \A f \in part : back[f] = IF f \in S THEN f ELSE back[fail[f]]
  BY <1>1, <1>6
<1>. HIDE DEF back, Goes, Longest
<1>. DEFINE B == {Len(f) : f \in {g \in part : ~LongestOf(S, g, 0, back[g])}}
<1>8. B = {}
  <2>. SUFFICES ASSUME B # {} PROVE FALSE
    OBVIOUS
  <2>1. PICK l \in B : \A i \in B : l <= i
    <3>1. B \subseteq Nat
      BY <1>2
    <3>. HIDE DEF B
    <3>. QED BY <3>1, LeastNat
  <2>2. PICK f \in part : l = Len(f) /\ ~LongestOf(S, f, 0, back[f])
    BY <2>1
  <2>3. CASE f \in S
    BY <1>2, <1>7, <2>2, <2>3, LongestFromFirst
  <2>4. CASE f \notin S
    <3>1. fail[f] \in part /\ Len(fail[f]) < Len(f)
      BY <1>4, <2>4
    <3>2. LongestOf(S, fail[f], 0, back[fail[f]])
      <4>1. Len(fail[f]) \notin B
        <5>1. Len(fail[f]) \in Nat /\ Len(f) \in Nat
          BY <1>2, <3>1
        <5>. HIDE DEF B
        <5>. QED BY <2>1, <2>2, <3>1, <5>1
      <4>. QED BY <3>1, <4>1
    <3>. QED BY <1>4, <1>7, <2>2, <2>4, <3>2
  <2>. QED BY <2>3, <2>4
<1>. QED BY <1>8 DEF S, back

(* Links that lead to the longest proper suffix in the trie. *)
LinksFit(trie, fail, part) == \A f \in part : f # Root => LongestOf(trie, f, 1, fail[f])

LinkOf(trie, fail, n) ==
  LET above == {f \in trie : Len(f) < Len(n)}
      begin == BackTo(Last(n), above, trie, fail)[fail[Front(n)]]
  IN IF Len(n) > 1 /\ Append(begin, Last(n)) \in trie THEN Append(begin, Last(n)) ELSE Root

LEMMA LinkStep ==
  ASSUME NEW A, NEW trie, IsTrie(trie, A), NEW n \in trie, NEW fail,
         LinksFit(trie, fail, {f \in trie : Len(f) < Len(n)})
  PROVE  IF n = Root THEN LinkOf(trie, fail, n) = Root ELSE LongestOf(trie, n, 1, LinkOf(trie, fail, n))
<1>. DEFINE above == {f \in trie : Len(f) < Len(n)}
            p == Front(n)
            c == Last(n)
            m == BackTo(c, above, trie, fail)[fail[p]]
<1>1. n \in Seq(A) /\ Len(n) \in Nat /\ \A f \in trie : Len(f) \in Nat
  BY DEF IsTrie
<1>2. CASE n = Root
  BY <1>2 DEF LinkOf, Root
<1>3. CASE n # Root /\ Len(n) = 1
  <2>1. LinkOf(trie, fail, n) = Root
    BY <1>3 DEF LinkOf
  <2>2. Shed(n, 1) = Root /\ Root \in trie
    BY <1>1, <1>3, ShedNone DEF IsTrie
  <2>3. LongestOf(trie, n, 1, Root)
    BY <1>3, <2>2 DEF LongestOf
  <2>. QED BY <1>3, <2>1, <2>3
<1>4. CASE Len(n) > 1
  <2>1. n # Root
    BY <1>4 DEF Root
  <2>2. p \in Seq(A) /\ c \in A /\ n = Append(p, c) /\ Len(p) = Len(n) - 1 /\ p \in trie
    BY <1>1, <2>1, FrontAndLast DEF IsTrie
  <2>3. LinkOf(trie, fail, n) = IF Append(m, c) \in trie THEN Append(m, c) ELSE Root
    BY <1>4 DEF LinkOf
  <2>. HIDE DEF p, c
  <2>4. p # Root /\ p \in above
    BY <1>1, <1>4, <2>2 DEF Root
  <2>5. LongestOf(trie, p, 1, fail[p])
    BY <2>4 DEF LinksFit
  <2>6. PICK k \in 1..Len(p) : fail[p] = Shed(p, k) /\ fail[p] \in trie
    BY <2>5 DEF LongestOf
  <2>7. Len(fail[p]) = Len(p) - k
    <3>1. k \in 0..Len(p)
      BY <2>6
    <3>. QED BY <2>2, <2>6, <3>1, ShedFacts
  <2>8. fail[p] \in above
    BY <1>1, <2>2, <2>6, <2>7
  <2>9. \A f \in above : \A g \in trie : Len(g) < Len(f) => g \in above
    BY <1>1
  <2>10. \A f \in above : f # Root => LongestOf(trie, f, 1, fail[f])
    BY DEF LinksFit
  <2>11. above \in SUBSET trie
    OBVIOUS
  <2>12. LongestOf(Stops(c, trie), fail[p], 0, m)
    <3>. HIDE DEF above
    <3>. QED BY <2>8, <2>9, <2>10, <2>11, BackSettles
  <2>. HIDE DEF m
  <2>13. LongestOf(Stops(c, trie), p, 1, m)
    <3>1. Stops(c, trie) \in SUBSET trie
      BY DEF Stops
    <3>2. 1 \in 0..Len(p)
      BY <2>6
    <3>. QED BY <2>2, <2>5, <2>12, <3>1, <3>2, LongestThrough
  <2>14. LongestOf(trie, Append(p, c), 1, IF Append(m, c) \in trie THEN Append(m, c) ELSE Root)
    <3>1. 1 \in 0..Len(p)
      BY <2>6
    <3>. QED BY <2>2, <2>13, <3>1, LongestGrows
  <2>. QED BY <2>1, <2>2, <2>3, <2>14
<1>5. n # Root => Len(n) # 0
  BY <1>1 DEF Root
<1>6. n = Root \/ (n # Root /\ Len(n) = 1) \/ Len(n) > 1
  BY <1>1, <1>5
<1>. QED BY <1>2, <1>3, <1>4, <1>6

(* The failure link of a node is the longest proper suffix of it in the    *)
(* trie.                                                                   *)
LEMMA FailureLinks ==
  ASSUME NEW A, NEW trie, IsTrie(trie, A)
  PROVE  LinksFit(trie, FailLinks(trie), trie)
<1>. DEFINE Longest(n) == IF n = Root THEN Root ELSE CHOOSE m : LongestOf(trie, n, 1, m)
            w == [n \in trie |-> Longest(n)]
            Goes(f) == f = [n \in trie |-> LinkOf(trie, f, n)]
<1>1. \A n \in trie : n \in Seq(A) /\ Len(n) \in Nat /\ (n # Root => 1 \in 0..Len(n))
  BY DEF IsTrie, Root
<1>2. \A n \in trie : n # Root => LongestOf(trie, n, 1, Longest(n))
  <2>1. \A n \in trie : n # Root => \E m : LongestOf(trie, n, 1, m)
    BY <1>1, LongestExists DEF IsTrie
  <2>. QED BY <2>1
<1>3. LinksFit(trie, w, trie)
  BY <1>2 DEF LinksFit
<1>4. ASSUME NEW n \in trie PROVE w[n] = LinkOf(trie, w, n)
  <2>1. LinksFit(trie, w, {f \in trie : Len(f) < Len(n)})
    BY <1>3 DEF LinksFit
  <2>. HIDE DEF w, Longest
  <2>2. IF n = Root THEN LinkOf(trie, w, n) = Root ELSE LongestOf(trie, n, 1, LinkOf(trie, w, n))
    BY <2>1, LinkStep
  <2>3. n # Root => LongestOf(trie, n, 1, w[n])
    BY <1>3 DEF LinksFit
  <2>4. n # Root => w[n] = LinkOf(trie, w, n)
    BY <1>1, <2>2, <2>3, LongestIsOne
  <2>5. n = Root => w[n] = Root
    BY DEF w, Longest
  <2>. QED BY <2>2, <2>4, <2>5
<1>5. Goes(w)
  <2>1. w = [n \in trie |-> LinkOf(trie, w, n)]
    <3>1. w = [n \in trie |-> w[n]]
      OBVIOUS
    <3>. HIDE DEF w
    <3>. QED BY <1>4, <3>1
  <2>. QED BY <2>1
<1>6. Goes(FailLinks(trie))
  <2>1. FailLinks(trie) = CHOOSE f : Goes(f)
    BY DEF FailLinks, LinkOf
  <2>2. \E f : Goes(f)
    BY <1>5
  <2>. HIDE DEF Goes
  <2>. QED BY <2>1, <2>2
<1>. DEFINE fail == FailLinks(trie)
<1>7. \A n \in trie : fail[n] = LinkOf(trie, fail, n)
  BY <1>6
<1>. HIDE DEF fail, Goes, w, Longest
<1>. DEFINE B == {Len(n) : n \in {g \in trie : g # Root /\ ~LongestOf(trie, g, 1, fail[g])}}
<1>8. B = {}
  <2>. SUFFICES ASSUME B # {} PROVE FALSE
    OBVIOUS
  <2>1. PICK l \in B : \A i \in B : l <= i
    <3>1. B \subseteq Nat
      BY <1>1
    <3>. HIDE DEF B
    <3>. QED BY <3>1, LeastNat
  <2>2. PICK n \in trie : l = Len(n) /\ n # Root /\ ~LongestOf(trie, n, 1, fail[n])
    BY <2>1
  <2>3. ASSUME NEW f \in trie, Len(f) < Len(n), f # Root PROVE LongestOf(trie, f, 1, fail[f])
    <3>1. Len(f) \notin B
      <4>1. Len(f) \in Nat /\ Len(n) \in Nat
        BY <1>1
      <4>. HIDE DEF B
      <4>. QED BY <2>1, <2>2, <2>3, <4>1
    <3>. QED BY <2>3, <3>1
  <2>4. LinksFit(trie, fail, {f \in trie : Len(f) < Len(n)})
    BY <2>3 DEF LinksFit
  <2>5. LongestOf(trie, n, 1, LinkOf(trie, fail, n))
    BY <2>2, <2>4, LinkStep
  <2>. QED BY <1>7, <2>2, <2>5
<1>9. \A n \in trie : n # Root => LongestOf(trie, n, 1, fail[n])
  BY <1>8
<1>. QED BY <1>9 DEF LinksFit, fail

(* A scan is in the node that is the longest suffix, in the trie, of what  *)
(* it has read.                                                            *)
LEMMA ScanFollows ==
  ASSUME NEW A, NEW trie, IsTrie(trie, A), NEW text \in Seq(A)
  PROVE  \A i \in 0..Len(text) : LongestOf(trie, SubSeq(text, 1, i), 0, Follow(trie, text)[i])
<1>. DEFINE fail == FailLinks(trie)
            Read(i) == SubSeq(text, 1, i)
            Longest(i) == CHOOSE m : LongestOf(trie, Read(i), 0, m)
            Steps(g, i) == Append(BackTo(text[i], trie, trie, fail)[g], text[i])
            Goes(a) == a = [i \in 0..Len(text) |-> IF i > 0 /\ Steps(a[i - 1], i) \in trie THEN Steps(a[i - 1], i) ELSE Root]
            w == [i \in 0..Len(text) |-> Longest(i)]
<1>1. \A i \in 0..Len(text) : Read(i) \in Seq(A) /\ 0 \in 0..Len(Read(i))
        /\ (i > 0 => Read(i) = Append(Read(i - 1), text[i]) /\ text[i] \in A)
  <2>1. ASSUME NEW i \in 0..Len(text) PROVE Read(i) \in Seq(A) /\ 0 \in 0..Len(Read(i))
    <3>1. \A j \in 1..i : text[j] \in A
      OBVIOUS
    <3>2. Read(i) \in Seq(A)
      BY <3>1, SubSeqProperties
    <3>. HIDE DEF Read
    <3>. QED BY <3>2
  <2>2. ASSUME NEW i \in 0..Len(text), i > 0 PROVE Read(i) = Append(Read(i - 1), text[i]) /\ text[i] \in A
    <3>1. i - 1 \in Nat /\ i - 1 < Len(text) /\ (i - 1) + 1 = i
      BY <2>2
    <3>2. SubSeq(text, 1, (i - 1) + 1) = Append(SubSeq(text, 1, i - 1), text[(i - 1) + 1])
            /\ text[(i - 1) + 1] \in A
      BY <3>1, FirstOnes
    <3>. QED BY <3>1, <3>2
  <2>. QED BY <2>1, <2>2
<1>2. Read(0) = Root
  BY SubSeqEmpty DEF Root
<1>. HIDE DEF Read
<1>3. LongestOf(trie, Read(0), 0, Root)
  BY <1>1, <1>2, LongestFromFirst DEF IsTrie
<1>4. ASSUME NEW i \in 0..Len(text), i > 0, NEW g, LongestOf(trie, Read(i - 1), 0, g)
      PROVE  LongestOf(trie, Read(i), 0, IF Steps(g, i) \in trie THEN Steps(g, i) ELSE Root)
  <2>. DEFINE c == text[i]
              r == Read(i - 1)
              m == BackTo(c, trie, trie, fail)[g]
  <2>1. i - 1 \in 0..Len(text)
    BY <1>4
  <2>2. r \in Seq(A) /\ 0 \in 0..Len(r) /\ c \in A /\ Read(i) = Append(r, c)
    BY <1>1, <1>4, <2>1
  <2>3. g \in trie
    BY <1>4 DEF LongestOf
  <2>4. \A f \in trie : f # Root => LongestOf(trie, f, 1, fail[f])
    BY FailureLinks DEF LinksFit
  <2>. HIDE DEF c, r, fail
  <2>5. LongestOf(Stops(c, trie), g, 0, m)
    <3>1. trie \in SUBSET trie /\ \A f \in trie : \A h \in trie : Len(h) < Len(f) => h \in trie
      OBVIOUS
    <3>. QED BY <2>3, <2>4, <3>1, BackSettles
  <2>. HIDE DEF m
  <2>6. LongestOf(Stops(c, trie), r, 0, m)
    <3>1. Stops(c, trie) \in SUBSET trie
      BY DEF Stops
    <3>2. LongestOf(trie, r, 0, g)
      BY <1>4 DEF r
    <3>. QED BY <2>2, <2>5, <3>1, <3>2, LongestThrough
  <2>7. LongestOf(trie, Append(r, c), 0, IF Append(m, c) \in trie THEN Append(m, c) ELSE Root)
    BY <2>2, <2>6, LongestGrows
  <2>8. Steps(g, i) = Append(m, c)
    BY DEF m, c
  <2>. HIDE DEF Steps
  <2>. QED BY <2>2, <2>7, <2>8
<1>. HIDE DEF Steps, fail
<1>5. \A i \in 0..Len(text) : LongestOf(trie, Read(i), 0, w[i])
  <2>1. \A i \in 0..Len(text) : \E m : LongestOf(trie, Read(i), 0, m)
    BY <1>1, LongestExists DEF IsTrie
  <2>. QED BY <2>1
<1>. HIDE DEF w, Longest
<1>6. Goes(w)
  <2>1. \A i \in 0..Len(text) : w[i] = IF i > 0 /\ Steps(w[i - 1], i) \in trie THEN Steps(w[i - 1], i) ELSE Root
    <3>1. CASE 0 \in 0..Len(text)
      <4>1. w[0] = Root
        BY <1>1, <1>3, <1>5, <3>1, LongestIsOne
      <4>2. ASSUME NEW i \in 0..Len(text), i > 0
            PROVE w[i] = IF Steps(w[i - 1], i) \in trie THEN Steps(w[i - 1], i) ELSE Root
        <5>1. i - 1 \in 0..Len(text)
          BY <4>2
        <5>2. LongestOf(trie, Read(i), 0, IF Steps(w[i - 1], i) \in trie THEN Steps(w[i - 1], i) ELSE Root)
          BY <1>4, <1>5, <4>2, <5>1
        <5>. QED BY <1>1, <1>5, <5>2, LongestIsOne
      <4>. QED BY <4>1, <4>2
    <3>2. 0 \in 0..Len(text)
      OBVIOUS
    <3>. QED BY <3>1, <3>2
  <2>2. w = [i \in 0..Len(text) |-> w[i]]
    BY DEF w
  <2>. QED BY <2>1, <2>2
<1>. DEFINE pos == Follow(trie, text)
<1>7. Goes(pos)
  <2>1. pos = CHOOSE a : Goes(a)
    BY DEF Follow, Steps, fail
  <2>2. \E a : Goes(a)
    BY <1>6
  <2>. HIDE DEF Goes, pos
  <2>. QED BY <2>1, <2>2
<1>8. \A i \in 0..Len(text) : pos[i] = IF i > 0 /\ Steps(pos[i - 1], i) \in trie THEN Steps(pos[i - 1], i) ELSE Root
  BY <1>7
<1>. HIDE DEF pos, Goes
<1>. DEFINE B == {i \in 0..Len(text) : ~LongestOf(trie, Read(i), 0, pos[i])}
<1>9. B = {}
  <2>. SUFFICES ASSUME B # {} PROVE FALSE
    OBVIOUS
  <2>1. PICK i \in B : \A j \in B : i <= j
    <3>1. B \subseteq Nat
      OBVIOUS
    <3>. HIDE DEF B
    <3>. QED BY <3>1, LeastNat
  <2>2. i \in 0..Len(text) /\ ~LongestOf(trie, Read(i), 0, pos[i])
    BY <2>1
  <2>3. CASE i = 0
    BY <1>3, <1>8, <2>2, <2>3
  <2>4. CASE i > 0
    <3>1. i - 1 \in 0..Len(text) /\ i - 1 \notin B
      BY <2>1, <2>2, <2>4
    <3>2. LongestOf(trie, Read(i - 1), 0, pos[i - 1])
      BY <3>1
    <3>. QED BY <1>4, <1>8, <2>2, <2>4, <3>2
  <2>. QED BY <2>2, <2>3, <2>4
<1>. QED BY <1>9 DEF pos, Read

(* What f says of the suffixes of a string, the longest first.  *)
Gathered(f, s) == FlattenSeq([k \in 1..Len(s) |-> f[Shed(s, k - 1)]])

LEMMA GatherStep ==
  ASSUME NEW A, NEW O, NEW f \in [Seq(A) -> Seq(O)], NEW s \in Seq(A)
  PROVE  /\ Gathered(f, s) \in Seq(O)
         /\ Gathered(f, Root) = <<>>
         /\ s # Root => Gathered(f, s) = f[s] \o Gathered(f, Shed(s, 1))
<1>. DEFINE Pieces(u) == [k \in 1..Len(u) |-> f[Shed(u, k - 1)]]
<1>1. ASSUME NEW u \in Seq(A)
      PROVE Pieces(u) \in Seq(Seq(O)) /\ Len(Pieces(u)) = Len(u)
              /\ \A k \in 1..Len(u) : Pieces(u)[k] = f[Shed(u, k - 1)]
  <2>1. \A k \in 1..Len(u) : Shed(u, k - 1) \in Seq(A)
    <3>1. \A k \in 1..Len(u) : k - 1 \in 0..Len(u)
      OBVIOUS
    <3>. QED BY <3>1, ShedFacts
  <2>. QED BY <2>1
<1>2. \A u : Gathered(f, u) = FlattenSeq(Pieces(u))
  BY DEF Gathered
<1>. HIDE DEF Pieces
<1>3. Gathered(f, s) \in Seq(O)
  BY <1>1, <1>2, FlatType
<1>4. Gathered(f, Root) = <<>>
  <2>1. Root \in Seq(A) /\ Len(Root) = 0
    BY DEF Root
  <2>2. Pieces(Root) = <<>>
    <3>. DEFINE p == Pieces(Root)
    <3>1. p \in Seq(Seq(O)) /\ Len(p) = 0
      BY <1>1, <2>1
    <3>. HIDE DEF p
    <3>2. p = <<>>
      BY <3>1
    <3>. QED BY <3>2 DEF p
  <2>. QED BY <1>2, <2>2, FlatEmpty
<1>5. ASSUME s # Root PROVE Gathered(f, s) = f[s] \o Gathered(f, Shed(s, 1))
  <2>. DEFINE r == Shed(s, 1)
              x == f[s]
              t == <<x>> \o Pieces(r)
  <2>1. 1 \in 0..Len(s) /\ Len(s) \in Nat \ {0}
    BY <1>5 DEF Root
  <2>2. r \in Seq(A) /\ Len(r) = Len(s) - 1 /\ x \in Seq(O) /\ <<x>> \in Seq(Seq(O)) /\ Len(<<x>>) = 1
          /\ <<x>>[1] = x
    BY <2>1, ShedFacts
  <2>3. \A k \in 1..Len(r) : Shed(r, k - 1) = Shed(s, k)
    <3>1. \A k \in 1..Len(r) : k - 1 \in 0..(Len(s) - 1) /\ 1 + (k - 1) = k
      BY <2>1, <2>2
    <3>. QED BY <2>1, <3>1, ShedTwice
  <2>. HIDE DEF r, x
  <2>4. Pieces(r) \in Seq(Seq(O)) /\ Len(Pieces(r)) = Len(r)
          /\ \A k \in 1..Len(r) : Pieces(r)[k] = f[Shed(s, k)]
    BY <1>1, <2>2, <2>3
  <2>5. t \in Seq(Seq(O)) /\ Len(t) = 1 + Len(r) /\ t[1] = x /\ \A k \in 1..Len(r) : t[1 + k] = Pieces(r)[k]
    <3>1. Len(t) = Len(<<x>>) + Len(Pieces(r))
            /\ \A i \in 1..Len(t) : t[i] = IF i <= Len(<<x>>) THEN <<x>>[i] ELSE Pieces(r)[i - Len(<<x>>)]
      BY <2>2, <2>4, ConcatProperties
    <3>2. t \in Seq(Seq(O))
      BY <2>2, <2>4, ConcatProperties
    <3>. HIDE DEF t
    <3>3. Len(t) = 1 + Len(r) /\ Len(r) \in Nat
      BY <2>2, <2>4, <3>1
    <3>4. t[1] = x
      BY <2>2, <3>1, <3>3
    <3>5. ASSUME NEW k \in 1..Len(r) PROVE t[1 + k] = Pieces(r)[k]
      <4>1. 1 + k \in 1..Len(t) /\ ~(1 + k <= 1) /\ (1 + k) - 1 = k
        BY <3>3
      <4>. QED BY <2>2, <3>1, <4>1
    <3>. QED BY <3>2, <3>3, <3>4, <3>5
  <2>. HIDE DEF t
  <2>6. ASSUME NEW i \in 1..Len(t) PROVE t[i] = Pieces(s)[i]
    <3>1. i \in 1..Len(s)
      BY <2>1, <2>2, <2>5
    <3>2. Pieces(s)[i] = f[Shed(s, i - 1)]
      BY <1>1, <3>1
    <3>3. CASE i = 1
      BY <2>5, <3>2, <3>3, ShedNone DEF x
    <3>4. CASE i # 1
      <4>1. i - 1 \in 1..Len(r) /\ 1 + (i - 1) = i
        BY <2>1, <2>2, <3>1, <3>4
      <4>. QED BY <2>4, <2>5, <3>2, <4>1
    <3>. QED BY <3>3, <3>4
  <2>7. t = Pieces(s)
    <3>1. Pieces(s) \in Seq(Seq(O)) /\ Len(Pieces(s)) = Len(t)
      BY <1>1, <2>1, <2>2, <2>5
    <3>. QED BY <2>5, <2>6, <3>1, SeqEqual
  <2>8. FlattenSeq(t) = FlattenSeq(<<x>>) \o FlattenSeq(Pieces(r))
    BY <2>2, <2>4, FlatConcat DEF t
  <2>9. FlattenSeq(<<x>>) = x
    BY <2>2, FlatOne
  <2>. QED BY <1>2, <2>7, <2>8, <2>9 DEF x, r
<1>. QED BY <1>3, <1>4, <1>5

(* Suffixes of which f says nothing may be left out. *)
LEMMA GatherSkips ==
  ASSUME NEW A, NEW O, NEW f \in [Seq(A) -> Seq(O)], NEW s \in Seq(A),
         NEW j \in Nat, NEW k \in j..Len(s), \A i \in j..(k - 1) : f[Shed(s, i)] = <<>>
  PROVE  Gathered(f, Shed(s, j)) = Gathered(f, Shed(s, k))
<1>. DEFINE B == {d \in 0..(k - j) : Gathered(f, Shed(s, k - d)) # Gathered(f, Shed(s, k))}
<1>1. B = {}
  <2>. SUFFICES ASSUME B # {} PROVE FALSE
    OBVIOUS
  <2>1. PICK d \in B : \A e \in B : d <= e
    <3>1. B \subseteq Nat
      OBVIOUS
    <3>. HIDE DEF B
    <3>. QED BY <3>1, LeastNat
  <2>2. d \in 0..(k - j) /\ Gathered(f, Shed(s, k - d)) # Gathered(f, Shed(s, k))
    BY <2>1
  <2>3. d # 0
    <3>1. k - 0 = k
      OBVIOUS
    <3>. QED BY <2>2, <3>1
  <2>. DEFINE i == k - d
  <2>4. i \in 0..Len(s) /\ i \in j..(k - 1) /\ 1 \in 0..(Len(s) - i) /\ i + 1 = k - (d - 1)
          /\ d - 1 \in 0..(k - j) /\ d - 1 < d
    BY <2>2, <2>3
  <2>5. Gathered(f, Shed(s, i + 1)) = Gathered(f, Shed(s, k))
    <3>1. d - 1 \notin B
      <4>. HIDE DEF B
      <4>. QED BY <2>1, <2>2, <2>4
    <3>. QED BY <2>4, <3>1
  <2>. HIDE DEF i, B
  <2>6. Shed(s, i) \in Seq(A) /\ Shed(s, i) # Root /\ Shed(Shed(s, i), 1) = Shed(s, i + 1)
    <3>1. Shed(s, i) \in Seq(A) /\ Len(Shed(s, i)) = Len(s) - i
      BY <2>4, ShedFacts
    <3>2. Shed(s, i) # Root
      BY <2>4, <3>1 DEF Root
    <3>. QED BY <2>4, <3>1, <3>2, ShedTwice
  <2>7. Gathered(f, Shed(s, i)) = f[Shed(s, i)] \o Gathered(f, Shed(s, i + 1))
    <3>. DEFINE u == Shed(s, i)
    <3>. HIDE DEF u
    <3>1. u \in Seq(A) /\ u # Root /\ Shed(u, 1) = Shed(s, i + 1)
      BY <2>6 DEF u
    <3>2. Gathered(f, u) = f[u] \o Gathered(f, Shed(u, 1))
      BY <3>1, GatherStep, SMTT(30)
    <3>. QED BY <3>1, <3>2 DEF u
  <2>8. i + 1 \in 0..Len(s) /\ Shed(s, i + 1) \in Seq(A)
    <3>1. i + 1 \in 0..Len(s)
      BY <2>4
    <3>. QED BY <3>1, ShedFacts
  <2>9. Gathered(f, Shed(s, i + 1)) \in Seq(O)
    BY <2>8, GatherStep
  <2>10. <<>> \o Gathered(f, Shed(s, i + 1)) = Gathered(f, Shed(s, i + 1))
    BY <2>9, ConcatEmptySeq
  <2>. QED BY <2>2, <2>4, <2>5, <2>7, <2>10 DEF i
<1>2. k - j \in 0..(k - j) /\ k - (k - j) = j
  OBVIOUS
<1>3. Gathered(f, Shed(s, k - (k - j))) = Gathered(f, Shed(s, k))
  BY <1>1, <1>2
<1>. QED BY <1>2, <1>3

LEMMA GatherLongest ==
  ASSUME NEW A, NEW O, NEW S, NEW f \in [Seq(A) -> Seq(O)], \A u \in Seq(A) \ S : f[u] = <<>>,
         NEW s \in Seq(A), NEW j \in 0..Len(s), NEW m, LongestOf(S, s, j, m)
  PROVE  Gathered(f, Shed(s, j)) = Gathered(f, m)
<1>1. PICK k \in j..Len(s) : m = Shed(s, k) /\ \A i \in j..(k - 1) : Shed(s, i) \notin S
  BY DEF LongestOf
<1>2. ASSUME NEW i \in j..(k - 1) PROVE f[Shed(s, i)] = <<>>
  <2>1. i \in 0..Len(s)
    OBVIOUS
  <2>2. Shed(s, i) \in Seq(A)
    BY <2>1, ShedFacts
  <2>. QED BY <1>1, <2>2
<1>. QED BY <1>1, <1>2, GatherSkips

(* What is gathered is what f says of a suffix. *)
LEMMA GatherHolds ==
  ASSUME NEW A, NEW O, NEW f \in [Seq(A) -> Seq(O)], NEW s \in Seq(A)
  PROVE  \A e : e \in ToSet(Gathered(f, s)) <=> \E k \in 0..(Len(s) - 1) : e \in ToSet(f[Shed(s, k)])
<1>. DEFINE t == [k \in 1..Len(s) |-> f[Shed(s, k - 1)]]
<1>1. t \in Seq(Seq(O)) /\ Len(t) = Len(s) /\ \A k \in 1..Len(s) : t[k] = f[Shed(s, k - 1)]
  <2>1. \A k \in 1..Len(s) : Shed(s, k - 1) \in Seq(A)
    <3>1. \A k \in 1..Len(s) : k - 1 \in 0..Len(s)
      OBVIOUS
    <3>. QED BY <3>1, ShedFacts
  <2>. QED BY <2>1
<1>2. Gathered(f, s) = FlattenSeq(t)
  BY DEF Gathered
<1>. HIDE DEF t
<1>3. \A e : e \in ToSet(FlattenSeq(t)) <=> \E i \in 1..Len(t) : e \in ToSet(t[i])
  BY <1>1, FlatHolds
<1>4. ASSUME NEW e
      PROVE (\E i \in 1..Len(t) : e \in ToSet(t[i])) <=> \E k \in 0..(Len(s) - 1) : e \in ToSet(f[Shed(s, k)])
  <2>1. ASSUME NEW i \in 1..Len(t), e \in ToSet(t[i])
        PROVE \E k \in 0..(Len(s) - 1) : e \in ToSet(f[Shed(s, k)])
    <3>1. i - 1 \in 0..(Len(s) - 1)
      BY <1>1
    <3>. QED BY <1>1, <2>1, <3>1
  <2>2. ASSUME NEW k \in 0..(Len(s) - 1), e \in ToSet(f[Shed(s, k)])
        PROVE \E i \in 1..Len(t) : e \in ToSet(t[i])
    <3>1. k + 1 \in 1..Len(s) /\ (k + 1) - 1 = k
      OBVIOUS
    <3>2. t[k + 1] = f[Shed(s, k)]
      BY <1>1, <3>1
    <3>. QED BY <1>1, <2>2, <3>1, <3>2
  <2>. QED BY <2>1, <2>2
<1>. QED BY <1>2, <1>3, <1>4

(* What nodes report after a build: what each string that is a suffix of   *)
(* theirs reported before, the longest first.                              *)
Says(trie, out, A) == [s \in Seq(A) |-> IF s \in trie THEN out[s] ELSE <<>>]

LEMMA InheritedGathers ==
  ASSUME NEW A, NEW O, NEW trie, IsTrie(trie, A), NEW out \in [trie -> Seq(O)], out[Root] = <<>>
  PROVE  /\ Inherited(trie, out) \in [trie -> Seq(O)]
         /\ \A n \in trie : Inherited(trie, out)[n] = Gathered(Says(trie, out, A), n)
<1>. DEFINE fail == FailLinks(trie)
            f == Says(trie, out, A)
            Next1(a, n) == IF Len(n) <= 1 THEN out[n] ELSE out[n] \o a[fail[n]]
            Goes(a) == a = [n \in trie |-> Next1(a, n)]
            w == [n \in trie |-> Gathered(f, n)]
<1>1. /\ f \in [Seq(A) -> Seq(O)] /\ (\A u \in Seq(A) \ trie : f[u] = <<>>) /\ (\A n \in trie : f[n] = out[n])
      /\ trie \subseteq Seq(A) /\ \A n \in trie : Len(n) \in Nat
  BY DEF Says, IsTrie
<1>2. \A n \in trie : n # Root => LongestOf(trie, n, 1, fail[n])
  BY FailureLinks DEF LinksFit
<1>. HIDE DEF fail, f
<1>3. ASSUME NEW n \in trie, Len(n) > 1
      PROVE  fail[n] \in trie /\ Len(fail[n]) < Len(n) /\ Gathered(f, n) = out[n] \o Gathered(f, fail[n])
  <2>1. n # Root /\ n \in Seq(A) /\ 1 \in 0..Len(n)
    BY <1>1, <1>3 DEF Root
  <2>2. LongestOf(trie, n, 1, fail[n])
    BY <1>2, <2>1
  <2>3. PICK k \in 1..Len(n) : fail[n] = Shed(n, k) /\ fail[n] \in trie
    BY <2>2 DEF LongestOf
  <2>4. Len(fail[n]) = Len(n) - k
    BY <2>1, <2>3, ShedFacts
  <2>5. Gathered(f, Shed(n, 1)) = Gathered(f, fail[n])
    BY <1>1, <2>1, <2>2, GatherLongest
  <2>6. Gathered(f, n) = f[n] \o Gathered(f, Shed(n, 1))
    BY <1>1, <2>1, GatherStep, SMTT(30)
  <2>7. f[n] = out[n] /\ Len(n) \in Nat
    BY <1>1
  <2>8. Len(fail[n]) < Len(n)
    BY <2>3, <2>4, <2>7
  <2>. QED BY <2>3, <2>5, <2>6, <2>7, <2>8
<1>4. ASSUME NEW n \in trie, Len(n) <= 1 PROVE Gathered(f, n) = out[n]
  <2>1. CASE n = Root
    <3>1. n \in Seq(A)
      BY <1>1
    <3>2. Gathered(f, Root) = <<>>
      BY <1>1, <3>1, GatherStep
    <3>. QED BY <2>1, <3>2
  <2>2. CASE n # Root
    <3>1. n \in Seq(A) /\ Len(n) = 1
      <4>1. n \in Seq(A)
        BY <1>1
      <4>2. Len(n) # 0
        BY <2>2, <4>1 DEF Root
      <4>3. Len(n) \in Nat
        BY <4>1
      <4>0. Len(n) <= 1
        BY <1>4
      <4>4. Len(n) = 1
        <5>. DEFINE l == Len(n)
        <5>1. l <= 1 /\ l # 0 /\ l \in Nat
          BY <4>0, <4>2, <4>3
        <5>. HIDE DEF l
        <5>2. l = 1
          BY <5>1
        <5>. QED BY <5>2 DEF l
      <4>. QED BY <4>1, <4>4
    <3>2. Shed(n, 1) = Root
      BY <3>1, ShedNone
    <3>3. Gathered(f, n) = f[n] \o <<>>
      <4>1. f \in [Seq(A) -> Seq(O)] /\ n \in Seq(A)
        BY <1>1, <3>1
      <4>2. Gathered(f, n) = f[n] \o Gathered(f, Shed(n, 1))
        BY <2>2, <4>1, GatherStep, SMTT(30)
      <4>3. Gathered(f, Root) = <<>>
        BY <4>1, GatherStep
      <4>. QED BY <3>2, <4>2, <4>3
    <3>4. f[n] = out[n] /\ out[n] \in Seq(O)
      BY <1>1
    <3>. QED BY <3>3, <3>4, ConcatEmptySeq
  <2>. QED BY <2>1, <2>2
<1>5. Goes(w)
  <2>1. \A n \in trie : w[n] = Next1(w, n)
    BY <1>1, <1>3, <1>4
  <2>2. w = [n \in trie |-> w[n]]
    OBVIOUS
  <2>. HIDE DEF w, Next1
  <2>. QED BY <2>1, <2>2
<1>. DEFINE all == Inherited(trie, out)
<1>6. Goes(all)
  <2>1. all = CHOOSE a : Goes(a)
    BY DEF Inherited, fail
  <2>2. \E a : Goes(a)
    BY <1>5
  <2>. HIDE DEF Goes, all
  <2>. QED BY <2>1, <2>2
<1>7. all = [n \in trie |-> all[n]] /\ \A n \in trie : all[n] = Next1(all, n)
  BY <1>6
<1>. HIDE DEF all, Goes, w
<1>. DEFINE B == {Len(n) : n \in {g \in trie : all[g] # Gathered(f, g)}}
<1>8. B = {}
  <2>. SUFFICES ASSUME B # {} PROVE FALSE
    OBVIOUS
  <2>1. PICK l \in B : \A i \in B : l <= i
    <3>1. B \subseteq Nat
      BY <1>1
    <3>. HIDE DEF B
    <3>. QED BY <3>1, LeastNat
  <2>2. PICK n \in trie : l = Len(n) /\ all[n] # Gathered(f, n)
    BY <2>1
  <2>3. CASE Len(n) <= 1
    BY <1>4, <1>7, <2>2, <2>3
  <2>4. CASE Len(n) > 1
    <3>1. Len(fail[n]) \notin B
      <4>1. Len(fail[n]) \in Nat /\ Len(fail[n]) < Len(n) /\ Len(n) \in Nat
        BY <1>1, <1>3, <2>4
      <4>. HIDE DEF B
      <4>. QED BY <2>1, <2>2, <4>1
    <3>2. all[fail[n]] = Gathered(f, fail[n])
      BY <1>3, <2>4, <3>1
    <3>3. all[n] = out[n] \o all[fail[n]]
      BY <1>1, <1>7, <2>4
    <3>. QED BY <1>3, <2>2, <2>4, <3>2, <3>3
  <2>. QED BY <1>1, <2>2, <2>3, <2>4
<1>9. \A n \in trie : all[n] = Gathered(f, n)
  BY <1>8
<1>10. \A n \in trie : Gathered(f, n) \in Seq(O)
  BY <1>1, GatherStep
<1>11. all \in [trie -> Seq(O)]
  BY <1>7, <1>9, <1>10
<1>. QED BY <1>9, <1>11 DEF all, f

(* The suffixes of a string are what is left when letters are dropped. *)
IsShed(p, n) == \E k \in 0..Len(n) : p = Shed(n, k)

LEMMA SuffixIsShed ==
  ASSUME NEW A, NEW s \in Seq(A), NEW t \in Seq(A)
  PROVE  IsSuffix(s, t) <=> IsShed(s, t)
<1>. DEFINE rs == Reverse(s)
            rt == Reverse(t)
            l == Len(s)
            d == Len(t) - Len(s)
<1>1. /\ rs \in Seq(A) /\ Len(rs) = Len(s) /\ \A i \in 1..Len(s) : rs[i] = s[(Len(s) - i) + 1]
      /\ rt \in Seq(A) /\ Len(rt) = Len(t) /\ \A i \in 1..Len(t) : rt[i] = t[(Len(t) - i) + 1]
  BY DEF Reverse
<1>2. IsSuffix(s, t) <=> Len(rs) <= Len(rt) /\ SubSeq(rs, 1, Len(rs)) = SubSeq(rt, 1, Len(rs))
  BY DEF IsSuffix, IsPrefix
<1>. HIDE DEF rs, rt
<1>3. SubSeq(rs, 1, Len(rs)) = rs
  BY <1>1, SubSeqFull
<1>4. ASSUME l <= Len(t)
      PROVE  /\ d \in 0..Len(t) /\ Shed(t, d) \in Seq(A) /\ Len(Shed(t, d)) = l
             /\ \A i \in 1..l : Shed(t, d)[i] = t[d + i]
             /\ SubSeq(rt, 1, l) \in Seq(A) /\ Len(SubSeq(rt, 1, l)) = l
             /\ \A i \in 1..l : SubSeq(rt, 1, l)[i] = t[(Len(t) - i) + 1]
  <2>1. d \in 0..Len(t) /\ Len(t) - d = l /\ l \in Nat
    BY <1>4
  <2>2. Shed(t, d) \in Seq(A) /\ Len(Shed(t, d)) = Len(t) - d
          /\ \A i \in 1..(Len(t) - d) : Shed(t, d)[i] = t[d + i]
    <3>. HIDE DEF d
    <3>. QED BY <2>1, ShedFacts
  <2>3. \A i \in 1..l : rt[i] \in A /\ rt[i] = t[(Len(t) - i) + 1]
    <3>1. \A i \in 1..l : i \in 1..Len(t) /\ i \in 1..Len(rt)
      BY <1>1, <1>4, <2>1
    <3>2. \A i \in 1..Len(rt) : rt[i] \in A
      BY <1>1, ElementOfSeq
    <3>. HIDE DEF l
    <3>. QED BY <1>1, <3>1, <3>2
  <2>4. /\ SubSeq(rt, 1, l) \in Seq(A) /\ Len(SubSeq(rt, 1, l)) = IF 1 <= l THEN l - 1 + 1 ELSE 0
        /\ \A i \in 1..(l - 1 + 1) : SubSeq(rt, 1, l)[i] = rt[1 + i - 1]
    BY <1>1, <2>1, <2>3, SubSeqProperties
  <2>5. Len(SubSeq(rt, 1, l)) = l
    BY <2>1, <2>4
  <2>6. \A i \in 1..l : SubSeq(rt, 1, l)[i] = t[(Len(t) - i) + 1]
    <3>1. \A i \in 1..l : i \in 1..(l - 1 + 1) /\ 1 + i - 1 = i
      BY <2>1
    <3>. QED BY <2>3, <2>4, <3>1
  <2>. QED BY <2>1, <2>2, <2>4, <2>5, <2>6
<1>5. ASSUME IsSuffix(s, t) PROVE IsShed(s, t)
  <2>1. l <= Len(t) /\ rs = SubSeq(rt, 1, l)
    BY <1>1, <1>2, <1>3, <1>5
  <2>2. ASSUME NEW i \in 1..l PROVE s[(l - i) + 1] = t[(Len(t) - i) + 1]
    <3>1. rs[i] = s[(l - i) + 1]
      BY <1>1
    <3>2. SubSeq(rt, 1, l)[i] = t[(Len(t) - i) + 1]
      BY <1>4, <2>1
    <3>. QED BY <2>1, <3>1, <3>2
  <2>3. ASSUME NEW i \in 1..l PROVE s[i] = Shed(t, d)[i]
    <3>1. l - i + 1 \in 1..l /\ (l - (l - i + 1)) + 1 = i /\ (Len(t) - (l - i + 1)) + 1 = d + i
      OBVIOUS
    <3>. QED BY <1>4, <2>1, <2>2, <3>1
  <2>4. s = Shed(t, d)
    BY <1>4, <2>1, <2>3, SeqEqual
  <2>. QED BY <1>4, <2>1, <2>4 DEF IsShed
<1>6. ASSUME IsShed(s, t) PROVE IsSuffix(s, t)
  <2>1. PICK k \in 0..Len(t) : s = Shed(t, k)
    BY <1>6 DEF IsShed
  <2>2. l = Len(t) - k /\ k = d /\ l <= Len(t)
    <3>1. Len(Shed(t, k)) = Len(t) - k
      BY <2>1, ShedFacts
    <3>. QED BY <2>1, <3>1
  <2>3. \A i \in 1..l : s[i] = t[d + i]
    BY <1>4, <2>1, <2>2
  <2>4. ASSUME NEW i \in 1..l PROVE rs[i] = SubSeq(rt, 1, l)[i]
    <3>1. (l - i) + 1 \in 1..l /\ d + ((l - i) + 1) = (Len(t) - i) + 1
      OBVIOUS
    <3>. QED BY <1>1, <1>4, <2>2, <2>3, <3>1
  <2>5. rs = SubSeq(rt, 1, l)
    BY <1>1, <1>4, <2>2, <2>4, SeqEqual
  <2>. QED BY <1>1, <1>2, <1>3, <2>2, <2>5
<1>. QED BY <1>5, <1>6

LEMMA ShedOfShed ==
  ASSUME NEW A, NEW s \in Seq(A), NEW p, NEW m, IsShed(m, s), IsShed(p, m)
  PROVE  IsShed(p, s)
<1>1. PICK k \in 0..Len(s) : m = Shed(s, k)
  BY DEF IsShed
<1>2. PICK h \in 0..Len(m) : p = Shed(m, h)
  BY DEF IsShed
<1>3. Len(m) = Len(s) - k
  BY <1>1, ShedFacts
<1>4. k + h \in 0..Len(s) /\ p = Shed(s, k + h)
  BY <1>1, <1>2, <1>3, ShedTwice
<1>. QED BY <1>4 DEF IsShed

(* What is in S and a suffix of a string is one of its longest suffix in S. *)
LEMMA LongestHasAll ==
  ASSUME NEW A, NEW S, NEW s \in Seq(A), NEW m, LongestOf(S, s, 0, m)
  PROVE  IsShed(m, s) /\ \A p \in S : IsShed(p, s) => IsShed(p, m)
<1>1. PICK k \in 0..Len(s) : m = Shed(s, k) /\ \A i \in 0..(k - 1) : Shed(s, i) \notin S
  BY DEF LongestOf
<1>2. ASSUME NEW p \in S, IsShed(p, s) PROVE IsShed(p, m)
  <2>1. PICK h \in 0..Len(s) : p = Shed(s, h)
    BY <1>2 DEF IsShed
  <2>2. h \notin 0..(k - 1)
    BY <1>1, <2>1
  <2>3. Len(m) = Len(s) - k
    BY <1>1, ShedFacts
  <2>4. h - k \in 0..(Len(s) - k) /\ k + (h - k) = h
    BY <2>2
  <2>5. p = Shed(m, h - k)
    BY <1>1, <2>1, <2>4, ShedTwice
  <2>. QED BY <2>3, <2>4, <2>5 DEF IsShed
<1>. QED BY <1>1, <1>2 DEF IsShed

LEMMA ShedOfRead ==
  ASSUME NEW A, NEW text \in Seq(A), NEW i \in 1..Len(text), NEW k \in 1..i
  PROVE  Shed(SubSeq(text, 1, i), k - 1) = SubSeq(text, k, i)
<1>. DEFINE r == SubSeq(text, 1, i)
            u == SubSeq(text, k, i)
<1>1. i \in Nat /\ k \in Nat /\ (\A j \in 1..i : text[j] \in A) /\ (\A j \in k..i : text[j] \in A)
  OBVIOUS
<1>2. /\ r \in Seq(A) /\ Len(r) = IF 1 <= i THEN i - 1 + 1 ELSE 0
      /\ \A j \in 1..(i - 1 + 1) : r[j] = text[1 + j - 1]
  BY <1>1, SubSeqProperties
<1>3. /\ u \in Seq(A) /\ Len(u) = IF k <= i THEN i - k + 1 ELSE 0
      /\ \A j \in 1..(i - k + 1) : u[j] = text[k + j - 1]
  BY <1>1, SubSeqProperties
<1>. HIDE DEF r, u
<1>4. Len(r) = i /\ Len(u) = i - k + 1
  BY <1>1, <1>2, <1>3
<1>5. \A j \in 1..i : r[j] = text[j]
  <2>1. \A j \in 1..i : j \in 1..(i - 1 + 1) /\ 1 + j - 1 = j
    OBVIOUS
  <2>. QED BY <1>2, <2>1
<1>6. k - 1 \in 0..Len(r) /\ Len(r) - (k - 1) = i - k + 1
  BY <1>4
<1>7. /\ Shed(r, k - 1) \in Seq(A) /\ Len(Shed(r, k - 1)) = Len(r) - (k - 1)
      /\ \A j \in 1..(Len(r) - (k - 1)) : Shed(r, k - 1)[j] = r[(k - 1) + j]
  BY <1>2, <1>6, ShedFacts
<1>8. ASSUME NEW j \in 1..(i - k + 1) PROVE Shed(r, k - 1)[j] = u[j]
  <2>1. (k - 1) + j \in 1..i /\ (k - 1) + j = k + j - 1
    OBVIOUS
  <2>. QED BY <1>3, <1>5, <1>6, <1>7, <2>1
<1>9. Shed(r, k - 1) = u
  BY <1>3, <1>4, <1>6, <1>7, <1>8, SeqEqual
<1>. QED BY <1>9 DEF r, u

(* A match of every report at every end. *)
LEMMA MatchesHold ==
  ASSUME NEW O, NEW found \in Seq(Seq(O))
  PROVE  \A x : x \in ToSet(Matches(found))
           <=> \E i \in 1..Len(found) : \E e \in ToSet(found[i]) : x = Match(e, i)
<1>. DEFINE M == {Match(e, i) : e \in O, i \in Nat}
            t == [i \in 1..Len(found) |-> [k \in 1..Len(found[i]) |-> Match(found[i][k], i)]]
<1>1. \A i \in 1..Len(found) : found[i] \in Seq(O) /\ i \in Nat
  OBVIOUS
<1>2. ASSUME NEW i \in 1..Len(found)
      PROVE  t[i] \in Seq(M) /\ \A x : x \in ToSet(t[i]) <=> \E e \in ToSet(found[i]) : x = Match(e, i)
  <2>1. \A k \in 1..Len(found[i]) : found[i][k] \in O
    BY <1>1
  <2>2. t[i] = [k \in 1..Len(found[i]) |-> Match(found[i][k], i)] /\ Len(found[i]) \in Nat
    BY <1>1
  <2>3. ASSUME NEW k \in 1..Len(found[i]) PROVE Match(found[i][k], i) \in M
    <3>1. found[i][k] \in O /\ i \in Nat
      BY <1>1, <2>1
    <3>2. \A e \in O, n \in Nat : Match(e, n) \in M
      OBVIOUS
    <3>. HIDE DEF M
    <3>. QED BY <3>1, <3>2
  <2>. HIDE DEF M, t
  <2>4. t[i] \in Seq(M) /\ DOMAIN t[i] = 1..Len(found[i]) /\ DOMAIN found[i] = 1..Len(found[i])
    BY <1>1, <2>2, <2>3
  <2>. QED BY <2>2, <2>4 DEF ToSet
<1>3. t \in Seq(Seq(M)) /\ Len(t) = Len(found)
  <2>1. \A i \in 1..Len(found) : t[i] \in Seq(M)
    BY <1>2
  <2>2. Len(found) \in Nat /\ t = [i \in 1..Len(found) |-> t[i]]
    OBVIOUS
  <2>. HIDE DEF M, t
  <2>. QED BY <2>1, <2>2
<1>4. Matches(found) = FlattenSeq(t)
  BY DEF Matches
<1>. HIDE DEF t, M
<1>5. \A x : x \in ToSet(FlattenSeq(t)) <=> \E i \in 1..Len(t) : x \in ToSet(t[i])
  BY <1>3, FlatHolds
<1>6. ASSUME NEW x
      PROVE (\E i \in 1..Len(t) : x \in ToSet(t[i]))
              <=> \E i \in 1..Len(found) : \E e \in ToSet(found[i]) : x = Match(e, i)
  BY <1>2, <1>3
<1>. QED BY <1>4, <1>5, <1>6

Addition == [pattern : Pattern \ {Root}, label : Tag]

(* What one addition leaves of a pattern, for additions that are given. *)
HeldOf(adds, p) ==
  IF \E k \in DOMAIN adds : adds[k].pattern = p
  THEN <<[pattern |-> p,
          label |-> adds[CHOOSE k \in DOMAIN adds :
                           adds[k].pattern = p /\ \A j \in DOMAIN adds : adds[j].pattern = p => j <= k].label]>>
  ELSE <<>>
Holding(adds) == [s \in Seq(Letter) |-> HeldOf(adds, s)]
Distinct(adds) == \A j, k \in DOMAIN adds : adds[j].pattern = adds[k].pattern => j = k

(* Nodes report additions whose patterns are suffixes of theirs, and every *)
(* addition is reported by its own node; after a build by all nodes it is  *)
(* a suffix of.                                                            *)
OwnReports(adds, trie, out) ==
  /\ \A n \in trie : \A e \in ToSet(out[n]) : \E k \in DOMAIN adds : e = adds[k] /\ IsShed(adds[k].pattern, n)
  /\ \A k \in DOMAIN adds : adds[k] \in ToSet(out[adds[k].pattern])
AllReports(adds, trie, out) ==
  \A n \in trie : \A k \in DOMAIN adds : IsShed(adds[k].pattern, n) => adds[k] \in ToSet(out[n])

AcShape ==
  /\ added \in Seq(Addition)
  /\ IsTrie(nodes, Letter) /\ \A k \in DOMAIN added : added[k].pattern \in nodes
  /\ outputs \in [nodes -> Seq(Addition)] /\ outputs[Root] = <<>>
  /\ built \in BOOLEAN /\ builds \in 0..2 /\ (builds = 0 => ~built)
  /\ ~built => scanned = <<>> /\ hits = <<>>
ReportsSoFar ==
  /\ OwnReports(added, nodes, outputs)
  /\ built => AllReports(added, nodes, outputs)
  /\ Distinct(added) =>
       /\ builds = 0 => \A n \in nodes : outputs[n] = HeldOf(added, n)
       /\ builds = 1 /\ built => \A n \in nodes : outputs[n] = Gathered(Holding(added), n)
AcInv == AcShape /\ ReportsSoFar /\ MatchesAreOccurrences /\ BackendsAgree

LEMMA HeldIs ==
  ASSUME NEW adds \in Seq(Addition)
  PROVE  /\ \A p \in Seq(Letter) : HeldOf(adds, p) \in Seq([pattern : Seq(Letter), label : Tag])
         /\ \A p : (\A k \in DOMAIN adds : adds[k].pattern # p) => HeldOf(adds, p) = <<>>
         /\ Distinct(adds) => \A k \in DOMAIN adds : HeldOf(adds, adds[k].pattern) = <<adds[k]>>
<1>1. \A k \in DOMAIN adds : adds[k] \in Addition /\ k \in Nat
  OBVIOUS
<1>2. ASSUME NEW p, \A k \in DOMAIN adds : adds[k].pattern # p PROVE HeldOf(adds, p) = <<>>
  BY <1>2 DEF HeldOf
<1>. DEFINE LastOne(p, k) == adds[k].pattern = p /\ \A j \in DOMAIN adds : adds[j].pattern = p => j <= k
            Last1(p) == CHOOSE k \in DOMAIN adds : LastOne(p, k)
<1>3. ASSUME NEW p, NEW k \in DOMAIN adds, adds[k].pattern = p
      PROVE  \E j \in DOMAIN adds : LastOne(p, j)
  <2>. DEFINE B == {Len(adds) - j : j \in {i \in DOMAIN adds : adds[i].pattern = p}}
  <2>1. B \subseteq Nat /\ B # {}
    BY <1>3
  <2>2. PICK b \in B : \A c \in B : b <= c
    <3>. HIDE DEF B
    <3>. QED BY <2>1, LeastNat
  <2>3. PICK j \in DOMAIN adds : b = Len(adds) - j /\ adds[j].pattern = p
    BY <2>2
  <2>4. ASSUME NEW i \in DOMAIN adds, adds[i].pattern = p PROVE i <= j
    <3>1. Len(adds) - i \in B
      BY <2>4
    <3>2. Len(adds) - j <= Len(adds) - i
      <4>. HIDE DEF B
      <4>. QED BY <2>2, <2>3, <3>1
    <3>3. Len(adds) \in Nat /\ i \in Nat /\ j \in Nat
      OBVIOUS
    <3>. QED BY <3>2, <3>3
  <2>. QED BY <2>3, <2>4
<1>4. ASSUME NEW p, NEW k \in DOMAIN adds, adds[k].pattern = p
      PROVE  Last1(p) \in DOMAIN adds /\ LastOne(p, Last1(p))
               /\ HeldOf(adds, p) = <<[pattern |-> p, label |-> adds[Last1(p)].label]>>
  <2>1. Last1(p) \in DOMAIN adds /\ LastOne(p, Last1(p))
    BY <1>3, <1>4
  <2>2. HeldOf(adds, p) = <<[pattern |-> p, label |-> adds[Last1(p)].label]>>
    BY <1>4 DEF HeldOf
  <2>. QED BY <2>1, <2>2
<1>. HIDE DEF Last1
<1>5. ASSUME NEW p \in Seq(Letter) PROVE HeldOf(adds, p) \in Seq([pattern : Seq(Letter), label : Tag])
  <2>1. CASE \E k \in DOMAIN adds : adds[k].pattern = p
    <3>1. Last1(p) \in DOMAIN adds /\ HeldOf(adds, p) = <<[pattern |-> p, label |-> adds[Last1(p)].label]>>
      BY <1>4, <2>1
    <3>2. adds[Last1(p)].label \in Tag
      BY <1>1, <3>1 DEF Addition
    <3>. QED BY <3>1, <3>2
  <2>2. CASE ~\E k \in DOMAIN adds : adds[k].pattern = p
    <3>1. \A k \in DOMAIN adds : adds[k].pattern # p
      BY <2>2
    <3>2. HeldOf(adds, p) = <<>>
      BY <1>2, <3>1
    <3>. QED BY <3>2
  <2>. QED BY <2>1, <2>2
<1>6. ASSUME Distinct(adds), NEW k \in DOMAIN adds PROVE HeldOf(adds, adds[k].pattern) = <<adds[k]>>
  <2>. DEFINE p == adds[k].pattern
  <2>1. Last1(p) \in DOMAIN adds /\ LastOne(p, Last1(p))
          /\ HeldOf(adds, p) = <<[pattern |-> p, label |-> adds[Last1(p)].label]>>
    BY <1>4
  <2>2. Last1(p) = k
    BY <1>6, <2>1 DEF Distinct
  <2>3. adds[k] = [pattern |-> p, label |-> adds[k].label]
    BY <1>1 DEF Addition
  <2>. QED BY <2>1, <2>2, <2>3
<1>. QED BY <1>2, <1>5, <1>6

LEMMA PatternsAreStrings ==
  /\ \A p \in Pattern : p \in Seq(Letter)
  /\ \A t \in Scanned : t \in Seq(Letter)
BY PatternsAssumption

(* The accelerated backend, for additions that are given. *)
NativeOf(adds, text) ==
  Matches([i \in 1..Len(text) |-> FlattenSeq([k \in 1..i |-> HeldOf(adds, SubSeq(text, k, i))])])

LEMMA NativeIs ==
  /\ \A text : NativeScan(text) = NativeOf(added, text)
  /\ \A adds : NativeOf(adds, <<>>) = <<>>
<1>1. \A text : NativeScan(text) = NativeOf(added, text)
  BY DEF NativeScan, NativeOf, Reported, LastLabel, HeldOf
<1>2. ASSUME NEW adds PROVE NativeOf(adds, <<>>) = <<>>
  <2>. DEFINE found == [i \in 1..Len(<<>>) |-> FlattenSeq([k \in 1..i |-> HeldOf(adds, SubSeq(<<>>, k, i))])]
  <2>1. NativeOf(adds, <<>>) = Matches(found)
    BY DEF NativeOf
  <2>2. Len(<<>>) = 0 /\ 1..0 = {}
    OBVIOUS
  <2>3. found = <<>>
    BY <2>2
  <2>. HIDE DEF found
  <2>4. [i \in 1..Len(<<>>) |-> [k \in 1..Len(<<>>[i]) |-> Match(<<>>[i][k], i)]] = <<>>
    BY <2>2
  <2>. QED BY <2>1, <2>3, <2>4, FlatEmpty DEF Matches
<1>. QED BY <1>1, <1>2

(* What a pattern of an addition is. *)
LEMMA AddedPatterns ==
  ASSUME AcShape, NEW k \in DOMAIN added
  PROVE  added[k] \in Addition /\ added[k].pattern \in Seq(Letter) /\ added[k].pattern # Root
           /\ added[k].pattern \in nodes
<1>1. added[k] \in Addition
  BY DEF AcShape
<1>2. added[k].pattern \in Pattern \ {Root}
  BY <1>1 DEF Addition
<1>. QED BY <1>1, <1>2, PatternsAreStrings DEF AcShape

(* A build lets every node report what is a suffix of it. *)
LEMMA BuildReports ==
  ASSUME AcShape, ReportsSoFar
  PROVE  /\ Inherited(nodes, outputs) \in [nodes -> Seq(Addition)]
         /\ Inherited(nodes, outputs)[Root] = <<>>
         /\ OwnReports(added, nodes, Inherited(nodes, outputs))
         /\ AllReports(added, nodes, Inherited(nodes, outputs))
         /\ Distinct(added) /\ builds = 0
              => \A n \in nodes : Inherited(nodes, outputs)[n] = Gathered(Holding(added), n)
<1>. DEFINE all == Inherited(nodes, outputs)
            f == Says(nodes, outputs, Letter)
<1>1. /\ IsTrie(nodes, Letter) /\ outputs \in [nodes -> Seq(Addition)] /\ outputs[Root] = <<>>
      /\ Root \in nodes /\ Root \in Seq(Letter) /\ \A n \in nodes : n \in Seq(Letter)
  BY DEF AcShape, IsTrie
<1>2. all \in [nodes -> Seq(Addition)] /\ \A n \in nodes : all[n] = Gathered(f, n)
  BY <1>1, InheritedGathers
<1>3. /\ f \in [Seq(Letter) -> Seq(Addition)]
      /\ \A s \in Seq(Letter) : f[s] = IF s \in nodes THEN outputs[s] ELSE <<>>
  BY <1>1 DEF Says
<1>. HIDE DEF all
<1>4. all[Root] = <<>>
  <2>. HIDE DEF f
  <2>. QED BY <1>1, <1>2, <1>3, GatherStep
<1>5. \A n \in nodes : \A e : e \in ToSet(all[n]) <=> \E k \in 0..(Len(n) - 1) : e \in ToSet(f[Shed(n, k)])
  <2>. HIDE DEF f
  <2>1. ASSUME NEW n \in nodes
        PROVE  \A e : e \in ToSet(Gathered(f, n)) <=> \E k \in 0..(Len(n) - 1) : e \in ToSet(f[Shed(n, k)])
    <3>1. f \in [Seq(Letter) -> Seq(Addition)] /\ n \in Seq(Letter)
      BY <1>1, <1>3
    <3>. QED BY <3>1, GatherHolds
  <2>. QED BY <1>2, <2>1
<1>6. \A n \in nodes : \A k \in 0..(Len(n) - 1) : Shed(n, k) \in Seq(Letter) /\ k \in 0..Len(n)
  <2>1. \A n \in nodes : \A k \in 0..(Len(n) - 1) : k \in 0..Len(n)
    BY <1>1
  <2>. QED BY <1>1, <2>1, ShedFacts
<1>. HIDE DEF f
<1>7. ASSUME NEW n \in nodes, NEW e \in ToSet(all[n])
      PROVE  \E k \in DOMAIN added : e = added[k] /\ IsShed(added[k].pattern, n)
  <2>1. PICK k \in 0..(Len(n) - 1) : e \in ToSet(f[Shed(n, k)])
    BY <1>5, <1>7
  <2>2. Shed(n, k) \in nodes /\ e \in ToSet(outputs[Shed(n, k)])
    <3>1. f[Shed(n, k)] = IF Shed(n, k) \in nodes THEN outputs[Shed(n, k)] ELSE <<>>
      BY <1>3, <1>6
    <3>2. ToSet(<<>>) = {}
      BY DEF ToSet
    <3>. QED BY <2>1, <3>1, <3>2
  <2>3. PICK h \in DOMAIN added : e = added[h] /\ IsShed(added[h].pattern, Shed(n, k))
    BY <2>2 DEF ReportsSoFar, OwnReports
  <2>4. IsShed(Shed(n, k), n)
    BY <1>6 DEF IsShed
  <2>5. IsShed(added[h].pattern, n)
    BY <1>1, <2>3, <2>4, ShedOfShed
  <2>. QED BY <2>3, <2>5
<1>8. ASSUME NEW n \in nodes, NEW k \in DOMAIN added, IsShed(added[k].pattern, n)
      PROVE  added[k] \in ToSet(all[n])
  <2>1. PICK h \in 0..Len(n) : added[k].pattern = Shed(n, h)
    BY <1>8 DEF IsShed
  <2>2. h # Len(n)
    BY <1>1, <2>1, AddedPatterns, ShedNone
  <2>3. h \in 0..(Len(n) - 1)
    <3>1. Len(n) \in Nat
      BY <1>1
    <3>. QED BY <2>1, <2>2, <3>1
  <2>4. added[k] \in ToSet(f[Shed(n, h)])
    BY <1>3, <2>1, AddedPatterns DEF ReportsSoFar, OwnReports
  <2>. QED BY <1>5, <2>3, <2>4
<1>9. \A k \in DOMAIN added : added[k] \in ToSet(all[added[k].pattern])
  <2>1. \A k \in DOMAIN added : added[k].pattern \in nodes /\ IsShed(added[k].pattern, added[k].pattern)
    <3>1. \A s \in Seq(Letter) : Shed(s, 0) = s /\ 0 \in 0..Len(s)
      BY ShedNone
    <3>. QED BY <3>1, AddedPatterns DEF IsShed
  <2>. QED BY <1>8, <2>1
<1>10. ASSUME Distinct(added), builds = 0 PROVE \A n \in nodes : all[n] = Gathered(Holding(added), n)
  <2>1. \A s \in nodes : outputs[s] = HeldOf(added, s)
    BY <1>10 DEF ReportsSoFar
  <2>2. \A s \in Seq(Letter) \ nodes : HeldOf(added, s) = <<>>
    <3>1. added \in Seq(Addition)
      BY DEF AcShape
    <3>2. \A s \in Seq(Letter) \ nodes : \A k \in DOMAIN added : added[k].pattern # s
      BY DEF AcShape
    <3>. QED BY <3>1, <3>2, HeldIs
  <2>3. Holding(added) = f
    <3>1. \A s \in Seq(Letter) : f[s] = HeldOf(added, s)
      BY <1>3, <2>1, <2>2
    <3>2. f = [s \in Seq(Letter) |-> f[s]]
      BY <1>3
    <3>. QED BY <3>1, <3>2 DEF Holding
  <2>. QED BY <1>2, <2>3
<1>11. OwnReports(added, nodes, all) /\ AllReports(added, nodes, all)
  BY <1>7, <1>8, <1>9 DEF OwnReports, AllReports
<1>. QED BY <1>2, <1>4, <1>10, <1>11 DEF all

(* What is found is a match of every addition, wherever its pattern ends.  *)
FindsAll(adds, text, found) ==
  \A x : x \in ToSet(found) <=>
         \E i \in 1..Len(text) : \E k \in DOMAIN adds : IsShed(adds[k].pattern, SubSeq(text, 1, i))
           /\ x = Match(adds[k], i)

LEMMA ReportsHold ==
  ASSUME NEW adds \in Seq(Addition), NEW trie, IsTrie(trie, Letter), \A k \in DOMAIN adds : adds[k].pattern \in trie,
         NEW out \in [trie -> Seq(Addition)], OwnReports(adds, trie, out), AllReports(adds, trie, out),
         NEW text \in Seq(Letter)
  PROVE  FindsAll(adds, text, Reports(trie, out, text))
<1>. DEFINE pos == Follow(trie, text)
            found == [i \in 1..Len(text) |-> out[pos[i]]]
<1>1. \A i \in 0..Len(text) : LongestOf(trie, SubSeq(text, 1, i), 0, pos[i])
  BY ScanFollows
<1>2. \A i \in 1..Len(text) : i \in 0..Len(text) /\ SubSeq(text, 1, i) \in Seq(Letter)
  <2>1. \A i \in 1..Len(text) : \A j \in 1..i : text[j] \in Letter
    OBVIOUS
  <2>2. \A i \in 1..Len(text) : i \in Nat
    OBVIOUS
  <2>3. ASSUME NEW i \in 1..Len(text) PROVE SubSeq(text, 1, i) \in Seq(Letter)
    BY <2>1, <2>2, SubSeqProperties
  <2>. QED BY <2>3
<1>. HIDE DEF pos
<1>3. \A i \in 1..Len(text) : pos[i] \in trie
  BY <1>1, <1>2 DEF LongestOf
<1>4. found \in Seq(Seq(Addition)) /\ Len(found) = Len(text) /\ \A i \in 1..Len(text) : found[i] = out[pos[i]]
  BY <1>3
<1>5. Reports(trie, out, text) = Matches(found)
  BY DEF Reports, pos
<1>. HIDE DEF found
<1>6. \A x : x \in ToSet(Matches(found)) <=> \E i \in 1..Len(found) : \E e \in ToSet(found[i]) : x = Match(e, i)
  BY <1>4, MatchesHold
<1>7. ASSUME NEW i \in 1..Len(text), NEW e
      PROVE  e \in ToSet(out[pos[i]])
               <=> \E k \in DOMAIN adds : IsShed(adds[k].pattern, SubSeq(text, 1, i)) /\ e = adds[k]
  <2>. DEFINE r == SubSeq(text, 1, i)
              m == pos[i]
  <2>1. r \in Seq(Letter) /\ LongestOf(trie, r, 0, m) /\ m \in trie
    BY <1>1, <1>2, <1>3
  <2>. HIDE DEF r, m
  <2>2. IsShed(m, r) /\ \A p \in trie : IsShed(p, r) => IsShed(p, m)
    BY <2>1, LongestHasAll
  <2>3. ASSUME e \in ToSet(out[m]) PROVE \E k \in DOMAIN adds : IsShed(adds[k].pattern, r) /\ e = adds[k]
    <3>1. PICK k \in DOMAIN adds : e = adds[k] /\ IsShed(adds[k].pattern, m)
      BY <2>1, <2>3 DEF OwnReports
    <3>2. IsShed(adds[k].pattern, r)
      BY <2>1, <2>2, <3>1, ShedOfShed
    <3>. QED BY <3>1, <3>2
  <2>4. ASSUME NEW k \in DOMAIN adds, IsShed(adds[k].pattern, r) PROVE adds[k] \in ToSet(out[m])
    BY <2>1, <2>2, <2>4 DEF AllReports
  <2>. QED BY <2>3, <2>4 DEF r, m
<1>8. ASSUME NEW x
      PROVE  (\E i \in 1..Len(found) : \E e \in ToSet(found[i]) : x = Match(e, i)) <=>
             \E i \in 1..Len(text) : \E k \in DOMAIN adds : IsShed(adds[k].pattern, SubSeq(text, 1, i))
               /\ x = Match(adds[k], i)
  <2>1. ASSUME NEW i \in 1..Len(found), NEW e \in ToSet(found[i]), x = Match(e, i)
        PROVE  \E n \in 1..Len(text) : \E k \in DOMAIN adds : IsShed(adds[k].pattern, SubSeq(text, 1, n)) /\ x = Match(adds[k], n)
    <3>1. i \in 1..Len(text) /\ e \in ToSet(out[pos[i]])
      BY <1>4, <2>1
    <3>2. PICK k \in DOMAIN adds : IsShed(adds[k].pattern, SubSeq(text, 1, i)) /\ e = adds[k]
      BY <1>7, <3>1
    <3>. QED BY <2>1, <3>1, <3>2
  <2>2. ASSUME NEW i \in 1..Len(text), NEW k \in DOMAIN adds, IsShed(adds[k].pattern, SubSeq(text, 1, i)), x = Match(adds[k], i)
        PROVE  \E n \in 1..Len(found) : \E e \in ToSet(found[n]) : x = Match(e, n)
    <3>1. adds[k] \in ToSet(out[pos[i]])
      BY <1>7, <2>2
    <3>2. adds[k] \in ToSet(found[i]) /\ i \in 1..Len(found)
      BY <1>4, <3>1
    <3>. QED BY <2>2, <3>2
  <2>. QED BY <2>1, <2>2
<1>. QED BY <1>5, <1>6, <1>8, ZenonT(30) DEF FindsAll

LEMMA ReportsAreNative ==
  ASSUME NEW adds \in Seq(Addition), NEW trie, IsTrie(trie, Letter), \A k \in DOMAIN adds : adds[k].pattern \in trie,
         NEW out, \A n \in trie : out[n] = Gathered(Holding(adds), n),
         NEW text \in Seq(Letter)
  PROVE  Reports(trie, out, text) = NativeOf(adds, text)
<1>. DEFINE pos == Follow(trie, text)
            h == Holding(adds)
            O == [pattern : Seq(Letter), label : Tag]
            Native(i) == FlattenSeq([k \in 1..i |-> HeldOf(adds, SubSeq(text, k, i))])
<1>1. \A i \in 0..Len(text) : LongestOf(trie, SubSeq(text, 1, i), 0, pos[i])
  BY ScanFollows
<1>2. h \in [Seq(Letter) -> Seq(O)] /\ (\A u \in Seq(Letter) \ trie : h[u] = <<>>)
        /\ (\A u \in Seq(Letter) : h[u] = HeldOf(adds, u))
  <2>1. \A u \in Seq(Letter) : HeldOf(adds, u) \in Seq(O)
    BY HeldIs
  <2>2. ASSUME NEW u \in Seq(Letter) \ trie PROVE HeldOf(adds, u) = <<>>
    <3>1. \A k \in DOMAIN adds : adds[k].pattern # u
      OBVIOUS
    <3>. QED BY <3>1, HeldIs
  <2>. HIDE DEF O
  <2>. QED BY <2>1, <2>2 DEF Holding
<1>. HIDE DEF pos, h, O
<1>3. ASSUME NEW i \in 1..Len(text) PROVE out[pos[i]] = Native(i)
  <2>. DEFINE r == SubSeq(text, 1, i)
              m == pos[i]
  <2>1. i \in 0..Len(text) /\ r \in Seq(Letter) /\ Len(r) = i
    <3>1. (\A j \in 1..i : text[j] \in Letter) /\ i \in Nat
      OBVIOUS
    <3>2. r \in Seq(Letter) /\ Len(r) = IF 1 <= i THEN i - 1 + 1 ELSE 0
      BY <3>1, SubSeqProperties
    <3>. HIDE DEF r
    <3>. QED BY <3>1, <3>2
  <2>2. LongestOf(trie, r, 0, m) /\ m \in trie
    <3>1. LongestOf(trie, r, 0, m)
      BY <1>1, <2>1
    <3>. QED BY <3>1 DEF LongestOf
  <2>3. \A k \in 1..i : Shed(r, k - 1) = SubSeq(text, k, i)
    BY ShedOfRead
  <2>4. \A k \in 1..i : Shed(r, k - 1) \in Seq(Letter)
    <3>. HIDE DEF r
    <3>1. \A k \in 1..i : k - 1 \in 0..Len(r)
      BY <2>1
    <3>. QED BY <2>1, <3>1, ShedFacts
  <2>. HIDE DEF r, m
  <2>5. Gathered(h, r) = Gathered(h, m)
    <3>1. Shed(r, 0) = r /\ 0 \in 0..Len(r)
      BY <2>1, ShedNone
    <3>2. Gathered(h, Shed(r, 0)) = Gathered(h, m)
      BY <1>2, <2>1, <2>2, <3>1, GatherLongest
    <3>. QED BY <3>1, <3>2
  <2>6. Gathered(h, r) = Native(i)
    <3>1. [k \in 1..Len(r) |-> h[Shed(r, k - 1)]] = [k \in 1..i |-> HeldOf(adds, SubSeq(text, k, i))]
      BY <1>2, <2>1, <2>3, <2>4
    <3>. QED BY <3>1 DEF Gathered
  <2>7. out[m] = Gathered(h, m)
    BY <2>2 DEF h
  <2>. QED BY <2>5, <2>6, <2>7 DEF m
<1>4. [i \in 1..Len(text) |-> out[pos[i]]] = [i \in 1..Len(text) |-> Native(i)]
  <2>. HIDE DEF Native
  <2>. QED BY <1>3
<1>. QED BY <1>4 DEF Reports, NativeOf, pos

(* What is promised of a scan, for additions, a text and matches that are  *)
(* given.                                                                  *)
Exact(adds, text, found) ==
  Range(found) = UNION {{Match(adds[k], i) : i \in {j \in DOMAIN text : IsSuffix(adds[k].pattern, SubSeq(text, 1, j))}}
                          : k \in DOMAIN adds}
Agrees(adds, times, text, found) == times <= 1 /\ Distinct(adds) => found = NativeOf(adds, text)

LEMMA Promises ==
  /\ MatchesAreOccurrences <=> Exact(added, scanned, hits)
  /\ BackendsAgree <=> Agrees(added, builds, scanned, hits)
<1>1. MatchesAreOccurrences <=> Exact(added, scanned, hits)
  BY DEF MatchesAreOccurrences, Exact
<1>2. BackendsAgree <=> Agrees(added, builds, scanned, hits)
  BY NativeIs DEF BackendsAgree, Agrees, Distinct
<1>. QED BY <1>1, <1>2

LEMMA NothingScanned ==
  ASSUME NEW adds, NEW times PROVE Exact(adds, <<>>, <<>>) /\ Agrees(adds, times, <<>>, <<>>)
<1>1. Agrees(adds, times, <<>>, <<>>)
  BY NativeIs DEF Agrees
<1>2. Range(<<>>) = {} /\ DOMAIN <<>> = {}
  BY DEF Range
<1>3. \A k : {Match(adds[k], i) : i \in {j \in DOMAIN <<>> : IsSuffix(adds[k].pattern, SubSeq(<<>>, 1, j))}} = {}
  BY <1>2
<1>4. Exact(adds, <<>>, <<>>)
  BY <1>2, <1>3 DEF Exact
<1>. QED BY <1>1, <1>4

LEMMA ReportsAreExact ==
  ASSUME NEW adds \in Seq(Addition), NEW trie, IsTrie(trie, Letter), \A k \in DOMAIN adds : adds[k].pattern \in trie,
         NEW out \in [trie -> Seq(Addition)], OwnReports(adds, trie, out), AllReports(adds, trie, out),
         NEW text \in Seq(Letter)
  PROVE  Exact(adds, text, Reports(trie, out, text))
<1>0. FindsAll(adds, text, Reports(trie, out, text))
  BY ReportsHold
<1>. DEFINE found == Reports(trie, out, text)
            Occur(k) == {Match(adds[k], i) : i \in {j \in DOMAIN text : IsSuffix(adds[k].pattern, SubSeq(text, 1, j))}}
<1>1. \A x : x \in ToSet(found) <=>
             \E i \in 1..Len(text) : \E k \in DOMAIN adds : IsShed(adds[k].pattern, SubSeq(text, 1, i))
               /\ x = Match(adds[k], i)
  BY <1>0 DEF FindsAll
<1>2. \A i \in 1..Len(text) : \A k \in DOMAIN adds : IsShed(adds[k].pattern, SubSeq(text, 1, i))
        <=> IsSuffix(adds[k].pattern, SubSeq(text, 1, i))
  <2>1. \A k \in DOMAIN adds : adds[k].pattern \in Seq(Letter)
    <3>1. \A k \in DOMAIN adds : adds[k] \in Addition
      OBVIOUS
    <3>. QED BY <3>1, PatternsAreStrings DEF Addition
  <2>2. ASSUME NEW i \in 1..Len(text) PROVE SubSeq(text, 1, i) \in Seq(Letter)
    <3>1. (\A j \in 1..i : text[j] \in Letter) /\ i \in Nat
      OBVIOUS
    <3>. QED BY <3>1, SubSeqProperties
  <2>. QED BY <2>1, <2>2, SuffixIsShed
<1>3. DOMAIN text = 1..Len(text)
  OBVIOUS
<1>. HIDE DEF found
<1>4. ASSUME NEW x PROVE x \in Range(found) <=> \E k \in DOMAIN adds : x \in Occur(k)
  <2>1. x \in Range(found) <=> x \in ToSet(found)
    BY DEF Range, ToSet
  <2>. QED BY <1>1, <1>2, <1>3, <2>1
<1>. HIDE DEF Occur
<1>5. Range(found) = UNION {Occur(k) : k \in DOMAIN adds}
  BY <1>4
<1>. QED BY <1>5 DEF Exact, found, Occur

LEMMA AcInitInvariant == AcInit => AcInv
<1>. SUFFICES ASSUME AcInit PROVE AcInv
  OBVIOUS
<1>1. AcShape
  <2>1. added = <<>> /\ nodes = {Root} /\ outputs = [n \in {Root} |-> <<>>] /\ built = FALSE
          /\ builds = 0 /\ scanned = <<>> /\ hits = <<>>
    BY DEF AcInit
  <2>2. IsTrie(nodes, Letter)
    BY <2>1 DEF IsTrie, Root
  <2>3. outputs \in [nodes -> Seq(Addition)] /\ outputs[Root] = <<>>
    <3>1. <<>> \in Seq(Addition)
      OBVIOUS
    <3>. DEFINE none == <<>>
    <3>2. none \in Seq(Addition) /\ outputs = [n \in {Root} |-> none] /\ nodes = {Root}
      BY <2>1, <3>1
    <3>. HIDE DEF none
    <3>3. outputs \in [nodes -> Seq(Addition)] /\ outputs[Root] = none
      BY <3>2
    <3>. QED BY <3>3 DEF none
  <2>4. added \in Seq(Addition) /\ \A k \in DOMAIN added : added[k].pattern \in nodes
    BY <2>1
  <2>5. built \in BOOLEAN /\ builds \in 0..2 /\ (builds = 0 => ~built)
          /\ (~built => scanned = <<>> /\ hits = <<>>)
    <3>1. ~built /\ built \in BOOLEAN
      BY <2>1
    <3>2. builds \in 0..2
      BY <2>1
    <3>. QED BY <2>1, <3>1, <3>2
  <2>. QED BY <2>2, <2>3, <2>4, <2>5 DEF AcShape
<1>2. ReportsSoFar
  <2>1. added = <<>> /\ nodes = {Root} /\ outputs[Root] = <<>> /\ built = FALSE /\ builds = 0
          /\ DOMAIN added = {}
    BY DEF AcInit
  <2>2. ToSet(<<>>) = {}
    BY DEF ToSet
  <2>3. OwnReports(added, nodes, outputs)
    BY <2>1, <2>2 DEF OwnReports
  <2>4. HeldOf(added, Root) = <<>>
    BY <2>1 DEF HeldOf
  <2>. QED BY <2>1, <2>3, <2>4 DEF ReportsSoFar
<1>3. MatchesAreOccurrences /\ BackendsAgree
  BY NothingScanned, Promises DEF AcInit
<1>. QED BY <1>1, <1>2, <1>3 DEF AcInv

(* A trie into which a string is put is one.  *)
LEMMA GrownTrie ==
  ASSUME NEW A, NEW trie, IsTrie(trie, A), NEW p \in Seq(A)
  PROVE  IsTrie(trie \cup PrefixesOf(p), A) /\ p \in PrefixesOf(p)
<1>1. ASSUME NEW n \in 0..Len(p)
      PROVE  /\ SubSeq(p, 1, n) \in Seq(A) /\ Len(SubSeq(p, 1, n)) = n
             /\ n > 0 => Front(SubSeq(p, 1, n)) = SubSeq(p, 1, n - 1) /\ n - 1 \in 0..Len(p)
  <2>1. /\ SubSeq(p, 1, n) \in Seq(A) /\ Len(SubSeq(p, 1, n)) = n
    <3>1. (\A j \in 1..n : p[j] \in A) /\ n \in Nat
      OBVIOUS
    <3>. QED BY <3>1, SubSeqProperties
  <2>2. ASSUME n > 0 PROVE Front(SubSeq(p, 1, n)) = SubSeq(p, 1, n - 1) /\ n - 1 \in 0..Len(p)
    <3>1. n - 1 \in Nat /\ n - 1 < Len(p) /\ (n - 1) + 1 = n
      BY <2>2
    <3>2. /\ SubSeq(p, 1, n - 1) \in Seq(A) /\ p[n] \in A
          /\ SubSeq(p, 1, n) = Append(SubSeq(p, 1, n - 1), p[n])
      BY <3>1, FirstOnes
    <3>. DEFINE q == SubSeq(p, 1, n - 1)
    <3>3. q \in Seq(A) /\ p[n] \in A /\ SubSeq(p, 1, n) = Append(q, p[n])
      BY <3>2
    <3>. HIDE DEF q
    <3>4. Front(Append(q, p[n])) = q
      BY <3>3, FrontOfAppend
    <3>5. Front(SubSeq(p, 1, n)) = q
      BY <3>3, <3>4
    <3>6. n - 1 \in 0..Len(p)
      BY <3>1
    <3>. QED BY <3>5, <3>6 DEF q
  <2>. QED BY <2>1, <2>2
<1>2. p \in PrefixesOf(p)
  <2>1. SubSeq(p, 1, Len(p)) = p /\ Len(p) \in 0..Len(p)
    BY SubSeqFull
  <2>. QED BY <2>1 DEF PrefixesOf
<1>3. \A n \in PrefixesOf(p) : n \in Seq(A) /\ (n # Root => Front(n) \in PrefixesOf(p))
  <2>1. ASSUME NEW n \in PrefixesOf(p) PROVE n \in Seq(A) /\ (n # Root => Front(n) \in PrefixesOf(p))
    <3>1. PICK k \in 0..Len(p) : n = SubSeq(p, 1, k)
      BY DEF PrefixesOf
    <3>2. n # Root => k > 0
      BY <1>1, <3>1, SubSeqEmpty DEF Root
    <3>. QED BY <1>1, <3>1, <3>2 DEF PrefixesOf
  <2>. QED BY <2>1
<1>. QED BY <1>2, <1>3 DEF IsTrie

LEMMA AddKeeps ==
  ASSUME AcInv, NEW p \in Pattern, NEW l \in Tag, Add(p, l)
  PROVE  AcInv'
<1>. DEFINE o == [pattern |-> p, label |-> l]
            n1 == Len(added) + 1
<1>1. /\ added \in Seq(Addition) /\ IsTrie(nodes, Letter)
           /\ (\A k \in DOMAIN added : added[k].pattern \in nodes)
      /\ outputs \in [nodes -> Seq(Addition)] /\ outputs[Root] = <<>> /\ builds \in 0..2
  BY DEF AcInv, AcShape
<1>2. p \in Seq(Letter) /\ p # Root /\ o \in Addition
  BY PatternsAreStrings DEF Add, Addition
<1>. HIDE DEF o
<1>3. /\ added' = Append(added, o) /\ added' \in Seq(Addition)
      /\ DOMAIN added' = DOMAIN added \cup {n1} /\ n1 \notin DOMAIN added
      /\ added'[n1] = o /\ \A k \in DOMAIN added : added'[k] = added[k]
  <2>1. added' = Append(added, o)
    BY DEF Add, o
  <2>. QED BY <1>1, <1>2, <2>1
<1>4. nodes' = nodes \cup PrefixesOf(p) /\ IsTrie(nodes', Letter) /\ p \in nodes' /\ Root \in nodes
  <2>1. nodes' = nodes \cup PrefixesOf(p)
    BY DEF Add
  <2>2. Root \in nodes
    BY <1>1 DEF IsTrie
  <2>. QED BY <1>1, <1>2, <2>1, <2>2, GrownTrie
<1>5. /\ outputs' \in [nodes' -> Seq(Addition)]
      /\ outputs'[p] = IF p \in nodes THEN Append(outputs[p], o) ELSE <<o>>
      /\ \A n \in nodes' \ {p} : outputs'[n] = IF n \in nodes THEN outputs[n] ELSE <<>>
  <2>. DEFINE out == [n \in nodes' |-> IF n \in nodes THEN outputs[n] ELSE <<>>]
  <2>1. outputs' = [out EXCEPT ![p] = Append(@, o)]
    BY <1>4 DEF Add, o
  <2>2. out \in [nodes' -> Seq(Addition)] /\ \A n \in nodes' : out[n] = IF n \in nodes THEN outputs[n] ELSE <<>>
    BY <1>1
  <2>. HIDE DEF out
  <2>3. Append(out[p], o) \in Seq(Addition)
    BY <1>2, <1>4, <2>2
  <2>4. outputs' \in [nodes' -> Seq(Addition)] /\ outputs'[p] = Append(out[p], o)
          /\ \A n \in nodes' \ {p} : outputs'[n] = out[n]
    BY <1>4, <2>1, <2>2, <2>3
  <2>5. Append(<<>>, o) = <<o>>
    OBVIOUS
  <2>. QED BY <1>4, <2>2, <2>4, <2>5
<1>6. /\ \A k \in DOMAIN added' : added'[k].pattern \in nodes'
      /\ outputs'[Root] = <<>> /\ builds' = builds /\ built' = FALSE /\ scanned' = <<>> /\ hits' = <<>>
  <2>1. builds' = builds /\ built' = FALSE /\ scanned' = <<>> /\ hits' = <<>>
    BY DEF Add
  <2>2. outputs'[Root] = <<>>
    BY <1>1, <1>2, <1>4, <1>5
  <2>3. o.pattern = p
    BY DEF o
  <2>. QED BY <1>1, <1>3, <1>4, <2>1, <2>2, <2>3
<1>7. AcShape'
  BY <1>1, <1>3, <1>4, <1>5, <1>6 DEF AcShape
<1>8. OwnReports(added', nodes', outputs')
  <2>1. ToSet(<<>>) = {} /\ \A s \in Seq(Addition) : ToSet(Append(s, o)) = ToSet(s) \cup {o}
    <3>1. ASSUME NEW s \in Seq(Addition) PROVE ToSet(Append(s, o)) = ToSet(s) \cup {o}
      <4>. DEFINE a == Append(s, o)
                  m == Len(s)
      <4>1. m \in Nat /\ DOMAIN s = 1..m /\ DOMAIN a = 1..(m + 1) /\ (\A i \in 1..m : a[i] = s[i])
              /\ a[m + 1] = o
        BY <1>2
      <4>2. ToSet(a) = {a[i] : i \in 1..(m + 1)} /\ ToSet(s) = {s[i] : i \in 1..m}
        BY <4>1 DEF ToSet
      <4>. HIDE DEF a, m
      <4>3. 1..(m + 1) = 1..m \cup {m + 1}
        BY <4>1
      <4>4. \A y : y \in ToSet(a) <=> y \in ToSet(s) \cup {o}
        BY <4>1, <4>2, <4>3
      <4>5. ToSet(a) = ToSet(s) \cup {o}
        BY <4>4
      <4>. QED BY <4>5 DEF a
    <3>2. ToSet(<<>>) = {}
      BY DEF ToSet
    <3>. QED BY <3>1, <3>2
  <2>2. \A n \in nodes' : ToSet(outputs'[n]) = (IF n \in nodes THEN ToSet(outputs[n]) ELSE {}) \cup (IF n = p THEN {o} ELSE {})
    <3>1. p \in nodes => outputs[p] \in Seq(Addition)
      BY <1>1
    <3>2. ToSet(<<o>>) = {o}
      BY DEF ToSet
    <3>3. ToSet(outputs'[p]) = (IF p \in nodes THEN ToSet(outputs[p]) ELSE {}) \cup {o}
      BY <1>5, <2>1, <3>1, <3>2
    <3>. QED BY <1>5, <2>1, <3>3
  <2>3. OwnReports(added, nodes, outputs)
    BY DEF AcInv, ReportsSoFar
  <2>4. IsShed(p, p) /\ o.pattern = p
    <3>1. Shed(p, 0) = p /\ 0 \in 0..Len(p)
      BY <1>2, ShedNone
    <3>. QED BY <3>1 DEF IsShed, o
  <2>5. ASSUME NEW n \in nodes', NEW e \in ToSet(outputs'[n])
        PROVE  \E k \in DOMAIN added' : e = added'[k] /\ IsShed(added'[k].pattern, n)
    <3>1. CASE n \in nodes /\ e \in ToSet(outputs[n])
      <4>1. PICK k \in DOMAIN added : e = added[k] /\ IsShed(added[k].pattern, n)
        BY <2>3, <3>1 DEF OwnReports
      <4>. QED BY <1>3, <4>1
    <3>2. CASE n = p /\ e = o
      BY <1>3, <2>4, <3>2
    <3>. QED BY <2>2, <2>5, <3>1, <3>2
  <2>6. \A k \in DOMAIN added' : added'[k] \in ToSet(outputs'[added'[k].pattern])
    <3>1. ASSUME NEW k \in DOMAIN added PROVE added[k] \in ToSet(outputs'[added[k].pattern])
      <4>1. added[k].pattern \in nodes /\ added[k].pattern \in nodes'
              /\ added[k] \in ToSet(outputs[added[k].pattern])
        BY <1>1, <1>4, <2>3 DEF OwnReports
      <4>. QED BY <2>2, <4>1
    <3>2. o \in ToSet(outputs'[p])
      BY <1>4, <2>2
    <3>. QED BY <1>3, <2>4, <3>1, <3>2
  <2>. QED BY <2>5, <2>6 DEF OwnReports
<1>9. ASSUME Distinct(added'), builds' = 0 PROVE \A n \in nodes' : outputs'[n] = HeldOf(added', n)
  <2>1. Distinct(added) /\ \A k \in DOMAIN added : added[k].pattern # p
    <3>1. Distinct(added)
      BY <1>3, <1>9 DEF Distinct
    <3>2. o.pattern = p
      BY DEF o
    <3>. QED BY <1>3, <1>9, <3>1, <3>2 DEF Distinct
  <2>2. \A n \in nodes : outputs[n] = HeldOf(added, n)
    BY <1>6, <1>9, <2>1 DEF AcInv, ReportsSoFar
  <2>3. \A k \in DOMAIN added' : HeldOf(added', added'[k].pattern) = <<added'[k]>>
    BY <1>3, <1>9, HeldIs
  <2>4. outputs'[p] = HeldOf(added', p)
    <3>1. HeldOf(added', p) = <<o>>
      BY <1>3, <2>3 DEF o
    <3>2. p \in nodes => outputs[p] = <<>>
      BY <1>1, <2>1, <2>2, HeldIs
    <3>3. Append(<<>>, o) = <<o>>
      OBVIOUS
    <3>. QED BY <1>5, <3>1, <3>2, <3>3
  <2>5. ASSUME NEW n \in nodes', n # p PROVE outputs'[n] = HeldOf(added', n)
    <3>1. CASE \E k \in DOMAIN added : added[k].pattern = n
      <4>1. PICK k \in DOMAIN added : added[k].pattern = n
        BY <3>1
      <4>2. n \in nodes /\ HeldOf(added, n) = <<added[k]>>
        BY <1>1, <2>1, <4>1, HeldIs
      <4>3. HeldOf(added', n) = <<added[k]>>
        BY <1>3, <2>3, <4>1
      <4>. QED BY <1>5, <2>2, <2>5, <4>2, <4>3
    <3>2. CASE ~\E k \in DOMAIN added : added[k].pattern = n
      <4>1. \A k \in DOMAIN added : added[k].pattern # n
        BY <3>2
      <4>2. \A k \in DOMAIN added' : added'[k].pattern # n
        BY <1>3, <2>5, <4>1 DEF o
      <4>3. HeldOf(added, n) = <<>> /\ HeldOf(added', n) = <<>>
        BY <1>1, <1>3, <4>1, <4>2, HeldIs
      <4>. QED BY <1>5, <2>2, <2>5, <4>3
    <3>. QED BY <3>1, <3>2
  <2>. QED BY <2>4, <2>5
<1>10. ReportsSoFar'
  BY <1>6, <1>8, <1>9 DEF ReportsSoFar
<1>11. MatchesAreOccurrences' /\ BackendsAgree'
  <2>1. Exact(added', scanned', hits') /\ Agrees(added', builds', scanned', hits')
    BY <1>6, NothingScanned
  <2>2. (MatchesAreOccurrences <=> Exact(added, scanned, hits))'
    BY DEF MatchesAreOccurrences, Exact
  <2>3. (BackendsAgree <=> Agrees(added, builds, scanned, hits))'
    <3>1. (NativeScan(scanned) = NativeOf(added, scanned))'
      BY DEF NativeScan, NativeOf, Reported, LastLabel, HeldOf
    <3>. QED BY <3>1 DEF BackendsAgree, Agrees, Distinct
  <2>. QED BY <2>1, <2>2, <2>3
<1>. QED BY <1>7, <1>10, <1>11 DEF AcInv

(* The same of the state after a step. *)
LEMMA PromisesAfter ==
  /\ Exact(added', scanned', hits') => MatchesAreOccurrences'
  /\ Agrees(added', builds', scanned', hits') => BackendsAgree'
<1>1. Exact(added', scanned', hits') => MatchesAreOccurrences'
  BY DEF MatchesAreOccurrences, Exact
<1>2. Agrees(added', builds', scanned', hits') => BackendsAgree'
  <2>1. (NativeScan(scanned) = NativeOf(added, scanned))'
    BY DEF NativeScan, NativeOf, Reported, LastLabel, HeldOf
  <2>. QED BY <2>1 DEF BackendsAgree, Agrees, Distinct
<1>. QED BY <1>1, <1>2

LEMMA BuiltKeeps ==
  ASSUME AcShape, ReportsSoFar, Built, builds < 2, UNCHANGED <<added, nodes>>
  PROVE  /\ outputs' \in [nodes' -> Seq(Addition)] /\ outputs'[Root] = <<>>
         /\ built' /\ builds' \in 1..2 /\ (builds' <= 1 => builds = 0)
         /\ ReportsSoFar'
<1>1. outputs' = Inherited(nodes, outputs) /\ built' = TRUE /\ builds' = builds + 1 /\ builds \in 0..1
  BY DEF Built, AcShape
<1>2. /\ outputs' \in [nodes -> Seq(Addition)] /\ outputs'[Root] = <<>>
      /\ OwnReports(added, nodes, outputs') /\ AllReports(added, nodes, outputs')
      /\ Distinct(added) /\ builds = 0 => \A n \in nodes : outputs'[n] = Gathered(Holding(added), n)
  BY <1>1, BuildReports
<1>3. ReportsSoFar'
  BY <1>1, <1>2 DEF ReportsSoFar
<1>. QED BY <1>1, <1>2, <1>3

LEMMA BuildKeeps ==
  ASSUME AcInv, Build
  PROVE  AcInv'
<1>1. Built /\ builds < 2 /\ UNCHANGED <<added, nodes, scanned, hits>> /\ AcShape /\ ReportsSoFar
  BY DEF Build, AcInv
<1>2. /\ outputs' \in [nodes' -> Seq(Addition)] /\ outputs'[Root] = <<>>
      /\ built' /\ builds' \in 1..2 /\ (builds' <= 1 => builds = 0)
      /\ ReportsSoFar'
  BY <1>1, BuiltKeeps
<1>3. AcShape'
  BY <1>1, <1>2 DEF AcShape
<1>4. Exact(added', scanned', hits')
  BY <1>1, Promises DEF AcInv
<1>5. Agrees(added', builds', scanned', hits')
  <2>1. Agrees(added, builds, scanned, hits)
    BY Promises DEF AcInv
  <2>2. builds = 0 => builds <= 1
    OBVIOUS
  <2>. QED BY <1>1, <1>2, <2>1, <2>2 DEF Agrees
<1>. QED BY <1>2, <1>3, <1>4, <1>5, PromisesAfter DEF AcInv

LEMMA ScanKeeps ==
  ASSUME AcInv, NEW text \in Scanned, Scan(text)
  PROVE  AcInv'
<1>1. /\ added' = added /\ nodes' = nodes /\ scanned' = text /\ hits' = Reports(nodes, outputs', text)
      /\ AcShape /\ ReportsSoFar /\ text \in Seq(Letter)
  BY PatternsAreStrings DEF Scan, AcInv
<1>2. /\ outputs' \in [nodes' -> Seq(Addition)] /\ outputs'[Root] = <<>>
      /\ built' \in BOOLEAN /\ built' /\ builds' \in 1..2
      /\ ReportsSoFar'
  <2>1. CASE built
    <3>1. outputs' = outputs /\ built' = built /\ builds' = builds
      BY <2>1 DEF Scan
    <3>2. ReportsSoFar'
      BY <1>1, <3>1 DEF ReportsSoFar
    <3>3. builds # 0 /\ builds \in 0..2
      BY <1>1, <2>1 DEF AcShape
    <3>4. builds' \in 1..2
      BY <3>1, <3>3
    <3>. QED BY <1>1, <2>1, <3>1, <3>2, <3>4 DEF AcShape
  <2>2. CASE ~built
    <3>1. Built /\ builds < 2
      BY <2>2 DEF Scan
    <3>2. /\ outputs' \in [nodes' -> Seq(Addition)] /\ outputs'[Root] = <<>>
          /\ built' /\ builds' \in 1..2 /\ ReportsSoFar'
      BY <1>1, <3>1, BuiltKeeps
    <3>3. built' \in BOOLEAN
      BY <3>1 DEF Built
    <3>. QED BY <3>2, <3>3
  <2>. QED BY <2>1, <2>2
<1>3. AcShape'
  <2>1. builds' \in 0..2 /\ builds' # 0
    BY <1>2
  <2>. QED BY <1>1, <1>2, <2>1 DEF AcShape
<1>4. /\ added \in Seq(Addition) /\ IsTrie(nodes, Letter)
           /\ (\A k \in DOMAIN added : added[k].pattern \in nodes)
      /\ outputs' \in [nodes -> Seq(Addition)] /\ OwnReports(added, nodes, outputs')
           /\ AllReports(added, nodes, outputs')
  BY <1>1, <1>2 DEF AcShape, ReportsSoFar
<1>5. Exact(added, text, Reports(nodes, outputs', text))
  BY <1>1, <1>4, ReportsAreExact
<1>6. ASSUME builds' <= 1, Distinct(added) PROVE Reports(nodes, outputs', text) = NativeOf(added, text)
  <2>1. builds' = 1
    BY <1>2, <1>6
  <2>2. \A n \in nodes : outputs'[n] = Gathered(Holding(added), n)
    BY <1>1, <1>2, <1>6, <2>1 DEF ReportsSoFar
  <2>. QED BY <1>1, <1>4, <2>2, ReportsAreNative
<1>7. Agrees(added', builds', scanned', hits')
  BY <1>1, <1>6 DEF Agrees
<1>. QED BY <1>1, <1>2, <1>3, <1>5, <1>7, PromisesAfter DEF AcInv

LEMMA AcNextInvariant == AcInv /\ [AcNext]_acvars => AcInv'
<1>. SUFFICES ASSUME AcInv, [AcNext]_acvars PROVE AcInv'
  OBVIOUS
<1>1. CASE UNCHANGED acvars
  <2>1. added' = added /\ nodes' = nodes /\ outputs' = outputs /\ built' = built /\ builds' = builds
          /\ scanned' = scanned /\ hits' = hits
    BY <1>1 DEF acvars
  <2>2. AcShape' /\ ReportsSoFar'
    BY <2>1 DEF AcInv, AcShape, ReportsSoFar
  <2>3. Exact(added', scanned', hits') /\ Agrees(added', builds', scanned', hits')
    BY <2>1, Promises DEF AcInv
  <2>. QED BY <2>2, <2>3, PromisesAfter DEF AcInv
<1>2. ASSUME NEW p \in Pattern, NEW l \in Tag, Add(p, l) PROVE AcInv'
  BY <1>2, AddKeeps
<1>3. CASE Build
  BY <1>3, BuildKeeps
<1>4. ASSUME NEW t \in Scanned, Scan(t) PROVE AcInv'
  BY <1>4, ScanKeeps
<1>. QED BY <1>1, <1>2, <1>3, <1>4 DEF AcNext

(* A scan is exact, with either backend. *)
THEOREM MatcherIsExact == AcSpec => []ScansAreExact
<1>1. AcInv => ScansAreExact
  <2>. SUFFICES ASSUME AcInv PROVE AcTypeOK /\ MatchesAreOccurrences /\ BackendsAgree
    BY DEF ScansAreExact
  <2>1. \A k \in DOMAIN added : added[k] \in [pattern : Pattern, label : Tag]
    <3>1. \A k \in DOMAIN added : added[k] \in Addition
      BY DEF AcInv, AcShape
    <3>. QED BY <3>1 DEF Addition
  <2>2. DOMAIN outputs = nodes /\ Root \in nodes /\ built \in BOOLEAN /\ builds \in 0..2
    BY DEF AcInv, AcShape, IsTrie
  <2>. QED BY <2>1, <2>2 DEF AcTypeOK, AcInv
<1>. QED BY AcInitInvariant, AcNextInvariant, <1>1, PTL DEF AcSpec

=============================================================================
