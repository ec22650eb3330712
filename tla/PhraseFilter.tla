------------------------------ MODULE PhraseFilter ------------------------------
(***************************************************************************)
(* The Bloom filter the lite memory classifier asks before it scans for    *)
(* phrases (core/text/bloom_filter.py), and the file it is shipped in.     *)
(* The two hash functions of an item are parameters.                       *)
(***************************************************************************)
EXTENDS Integers

CONSTANTS
  Gram,     \* the items: character trigrams
  Width,    \* num_bits of a new filter, rounded up to whole bytes
  Hashes,   \* num_hashes of a new filter
  Hash1, Hash2

ASSUME FilterAssumption ==
  /\ Width \in Nat /\ Width >= 8 /\ Width % 8 = 0
  /\ Hashes \in 1..16
  /\ Hash1 \in [Gram -> Nat] /\ Hash2 \in [Gram -> Nat \ {0}]

VARIABLES
  bits,     \* the positions that are set
  width,    \* how many there are
  hashes,
  inserted, \* every item ever added to this filter
  payload   \* the file: none, or what to_bytes wrote, whole or cut short

pfvars == <<bits, width, hashes, inserted, payload>>

NoFile == [kind |-> "none", bits |-> {}, width |-> 0, hashes |-> 0, inserted |-> {}]

Positions(g, k, m) == {(Hash1[g] + i * Hash2[g]) % m : i \in 0..(k - 1)}

InFilter(g) == Positions(g, hashes, width) \subseteq bits

PfInit ==
  /\ bits = {} /\ width = Width /\ hashes = Hashes /\ inserted = {}
  /\ payload = NoFile

(* A mutant: the last position is left unset.                              *)
InsertShort(g) ==
  /\ bits' = bits \cup Positions(g, hashes - 1, width)
  /\ inserted' = inserted \cup {g}
  /\ UNCHANGED <<width, hashes, payload>>

Insert(g) ==
  /\ bits' = bits \cup Positions(g, hashes, width)
  /\ inserted' = inserted \cup {g}
  /\ UNCHANGED <<width, hashes, payload>>

ToBytes ==
  /\ payload' = [kind |-> "whole", bits |-> bits, width |-> width, hashes |-> hashes, inserted |-> inserted]
  /\ UNCHANGED <<bits, width, hashes, inserted>>

CutShort ==
  /\ payload.kind = "whole"
  /\ payload' = [payload EXCEPT !.kind = "short"]
  /\ UNCHANGED <<bits, width, hashes, inserted>>

(* from_bytes: the body must be num_bits // 8 long, and the new filter is  *)
(* as wide as the body.  A short file raises, and nothing is replaced.     *)
FromBytes ==
  /\ payload.kind = "whole"
  /\ bits' = payload.bits
  /\ width' = 8 * (payload.width \div 8)
  /\ hashes' = payload.hashes
  /\ inserted' = payload.inserted
  /\ UNCHANGED payload

PfNext ==
  \/ \E g \in Gram : Insert(g)
  \/ ToBytes
  \/ CutShort
  \/ FromBytes

PfSpec == PfInit /\ [][PfNext]_pfvars

-----------------------------------------------------------------------------
Filter == [bits : SUBSET (0..(Width - 1)), width : {Width}, hashes : {Hashes}, inserted : SUBSET Gram]

PfTypeOK ==
  /\ [bits |-> bits, width |-> width, hashes |-> hashes, inserted |-> inserted] \in Filter
  /\ payload.kind \in {"none", "whole", "short"}
  /\ payload.kind # "none" =>
       [bits |-> payload.bits, width |-> payload.width, hashes |-> payload.hashes, inserted |-> payload.inserted] \in Filter

(* A filter never denies an item that was added to it, whatever the hash   *)
(* functions, also when it was written to a file and read back: the        *)
(* scanner may skip a text only when none of its trigrams is a phrase's.   *)
NoFalseNegatives == \A g \in inserted : InFilter(g)
=============================================================================
