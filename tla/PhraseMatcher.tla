----------------------------- MODULE PhraseMatcher -----------------------------
(***************************************************************************)
(* The multi-pattern scanner of the lite detectors                         *)
(* (core/text/ahocorasick_matcher.py): a trie with failure links, built    *)
(* when it is first scanned after an addition.  A node is the string that  *)
(* leads to it.  Scan also says what the accelerated backend would find,   *)
(* which keeps one label a pattern.                                        *)
(***************************************************************************)
EXTENDS Integers, Sequences, SequencesExt, FiniteSets

CONSTANTS
  Pattern,     \* patterns that may be added: strings over a small alphabet
  Tag,
  Scanned,     \* texts that may be scanned
  MaxPatterns  \* bound: additions to one matcher

Letter == UNION {ToSet(s) : s \in Pattern \cup Scanned}

ASSUME PatternsAssumption == \A s \in Pattern \cup Scanned : s \in Seq(Letter)

VARIABLES
  added,    \* the additions, in order: [pattern, label]
  nodes,    \* the trie, as the strings that reach its nodes
  outputs,  \* what each node reports, in order
  built,
  builds,   \* how often it was built, counted up to 2
  scanned,  \* the text of the last scan since an addition
  hits      \* its matches

acvars == <<added, nodes, outputs, built, builds, scanned, hits>>

Root == <<>>
PrefixesOf(s) == {SubSeq(s, 1, n) : n \in 0..Len(s)}

(* A mutant: the walk back along links is left out.                        *)
FailToParentLink(trie) ==
  LET fail[n \in trie] ==
        LET from == IF Len(n) > 1 THEN fail[Front(n)] ELSE Root
        IN IF Len(n) > 1 /\ Append(from, Last(n)) \in trie THEN Append(from, Last(n)) ELSE Root
  IN fail

(* From each node of a part of the trie, back along links to the first     *)
(* node that has a child for the character.                                *)
BackTo(c, part, trie, fail) ==
  LET back[f \in part] == IF f = Root \/ Append(f, c) \in trie THEN f ELSE back[fail[f]]
  IN back

(* The failure link of every node: from the parent's link, back to a node  *)
(* that has a child for the character.  Links are set level by level.      *)
FailLinks(trie) ==
  LET fail[n \in trie] ==
        LET above == {f \in trie : Len(f) < Len(n)}
            from == BackTo(Last(n), above, trie, fail)[fail[Front(n)]]
        IN IF Len(n) > 1 /\ Append(from, Last(n)) \in trie THEN Append(from, Last(n)) ELSE Root
  IN fail

(* What the nodes report once the build has let each inherit what the node *)
(* of its link reports.                                                    *)
Inherited(trie, out) ==
  LET fail == FailLinks(trie)
      all[n \in trie] == IF Len(n) <= 1 THEN out[n] ELSE out[n] \o all[fail[n]]
  IN all

(* The node the scan is in after the first i characters of a text.         *)
Follow(trie, text) ==
  LET fail == FailLinks(trie)
      at[i \in 0..Len(text)] ==
        LET next == Append(BackTo(text[i], trie, trie, fail)[at[i - 1]], text[i])
        IN IF i > 0 /\ next \in trie THEN next ELSE Root
  IN at

Match(o, end) == [start |-> end - Len(o.pattern), end |-> end, pattern |-> o.pattern, label |-> o.label]

(* What is found at each end, one end after the other.                     *)
Matches(found) == FlattenSeq([i \in 1..Len(found) |-> [k \in 1..Len(found[i]) |-> Match(found[i][k], i)]])

Reports(trie, out, text) ==
  LET at == Follow(trie, text) IN Matches([i \in 1..Len(text) |-> out[at[i]]])

-----------------------------------------------------------------------------
AcInit ==
  /\ added = <<>> /\ nodes = {Root} /\ outputs = [n \in {Root} |-> <<>>]
  /\ built = FALSE /\ builds = 0 /\ scanned = <<>> /\ hits = <<>>

(* add: an empty pattern would be ignored.  What was scanned before says   *)
(* nothing of the new pattern.                                             *)
Add(p, l) ==
  LET o == [pattern |-> p, label |-> l]
      grown == nodes \cup PrefixesOf(p)
      out == [n \in grown |-> IF n \in nodes THEN outputs[n] ELSE <<>>]
  IN /\ Len(added) < MaxPatterns
     /\ p # Root
     /\ added' = Append(added, o)
     /\ nodes' = grown
     /\ outputs' = [out EXCEPT ![p] = Append(@, o)]
     /\ built' = FALSE
     /\ scanned' = <<>> /\ hits' = <<>>
     /\ UNCHANGED builds

(* build: the inherited reports are written over the node's own, so a      *)
(* second build inherits them a second time.                               *)
Built ==
  /\ outputs' = Inherited(nodes, outputs)
  /\ built' = TRUE
  /\ builds' = IF builds = 2 THEN 2 ELSE builds + 1

Build == builds < 2 /\ Built /\ UNCHANGED <<added, nodes, scanned, hits>>

(* scan: builds first when something was added since.                      *)
Scan(text) ==
  /\ IF built THEN UNCHANGED <<outputs, built, builds>> ELSE builds < 2 /\ Built
  /\ scanned' = text
  /\ hits' = Reports(nodes, outputs', text)
  /\ UNCHANGED <<added, nodes>>

AcNext ==
  \/ \E p \in Pattern, l \in Tag : Add(p, l)
  \/ Build
  \/ \E t \in Scanned : Scan(t)

AcSpec == AcInit /\ [][AcNext]_acvars

-----------------------------------------------------------------------------
(* What the accelerated backend finds: each pattern under its last label,  *)
(* the longest first at every end.                                         *)
LastLabel(p) ==
  added[CHOOSE k \in DOMAIN added :
          added[k].pattern = p /\ \A j \in DOMAIN added : added[j].pattern = p => j <= k].label

Reported(p) ==
  IF \E k \in DOMAIN added : added[k].pattern = p THEN <<[pattern |-> p, label |-> LastLabel(p)]>> ELSE <<>>

NativeScan(text) ==
  Matches([i \in 1..Len(text) |-> FlattenSeq([k \in 1..i |-> Reported(SubSeq(text, k, i))])])

AcTypeOK ==
  /\ \A k \in DOMAIN added : added[k] \in [pattern : Pattern, label : Tag]
  /\ DOMAIN outputs = nodes /\ Root \in nodes
  /\ built \in BOOLEAN /\ builds \in 0..2

(* The matches of a scan are the occurrences of the patterns in the text:  *)
(* none is missed where patterns overlap, contain one another or begin     *)
(* inside one another, and none is made up, however often the matcher was  *)
(* built or added to.                                                      *)
MatchesAreOccurrences ==
  Range(hits) =
    UNION {{Match(added[k], i) : i \in {j \in DOMAIN scanned : IsSuffix(added[k].pattern, SubSeq(scanned, 1, j))}}
             : k \in DOMAIN added}

(* "Both paths return identical Match results for the same pattern set"    *)
(* (ahocorasick_matcher.py:19) is true, order and all, of a matcher that   *)
(* is built once and has no pattern twice, as those of the detectors are.  *)
BackendsAgree ==
  builds <= 1 /\ (\A j, k \in DOMAIN added : added[j].pattern = added[k].pattern => j = k)
    => hits = NativeScan(scanned)

(* A scan is exact, with either backend.                                   *)
ScansAreExact == AcTypeOK /\ MatchesAreOccurrences /\ BackendsAgree
=============================================================================
