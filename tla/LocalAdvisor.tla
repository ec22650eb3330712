------------------------------ MODULE LocalAdvisor ------------------------------
(***************************************************************************)
(* Which local models fit a machine (runtime/local_advisor): the catalog,  *)
(* from the network, a cache file that two processes write, or a list that *)
(* is shipped; and what of it is recommended.  Sizes are in GiB.           *)
(***************************************************************************)
EXTENDS Integers, Sequences, SequencesExt, FiniteSets

CONSTANTS
  Process,
  Online,      \* what the hub lists: models
  Shipped,     \* the shipped list
  Wishes,      \* what is asked: [machine, context, quant, refresh]
  MaxAsks,     \* bound: calls
  MaxAged      \* bound: how often the cache gets old

ASSUME AdvisorAssumption ==
  /\ Shipped # {} /\ Wishes # {}
  /\ \A m \in Online \cup Shipped :
       /\ m.params \in Nat /\ m.context \in Nat
       /\ m.variants # {} /\ \A v \in m.variants : v.size \in Nat
  /\ \A w \in Wishes :
       /\ w.context \in Nat /\ w.machine.ram \in Nat /\ w.machine.disk \in Nat
       /\ w.machine.gpus \in Seq([vram : Nat, shared : BOOLEAN])

VARIABLES
  cacheFile, \* [kind: none, torn or whole; models; fresh]
  phase,     \* per process: idle, fetching, writing, done, raised
  queries,   \* per process: how many of the two queries are over
  fetched,   \* per process: models found so far
  wish,
  overtaken, \* the processes that were writing when another finished
  catalog,   \* per process: [models, source] it was answered
  ranked,    \* per process: what was recommended
  asks, aged

advars == <<cacheFile, phase, queries, fetched, wish, overtaken, catalog, ranked, asks, aged>>

Nothing == [models |-> {}, source |-> "none"]
NoCache == [kind |-> "none", models |-> {}, fresh |-> FALSE]

-----------------------------------------------------------------------------
(* A machine: its gpus, each [vram, shared], its memory and its free disk. *)
(* A model: the parameters in billions, its longest context (0: unknown),  *)
(* and its files, [quant, size].                                           *)
Preference == <<"Q8_0", "Q4_K_M", "Q2_K">>
RankOf(q) == IF \E i \in DOMAIN Preference : Preference[i] = q
             THEN CHOOSE i \in DOMAIN Preference : Preference[i] = q ELSE 99

(* pick_best_variant: the preferred quantisation or the finest, whether it *)
(* fits or not.                                                            *)
BestVariant(m, quant) ==
  LET preferred == {v \in m.variants : v.quant = quant}
      choices == IF preferred # {} THEN preferred ELSE m.variants
  IN CHOOSE v \in choices : \A w \in choices : RankOf(v.quant) <= RankOf(w.quant)

Overhead == 1  \* activations and framework

VramNeeded(m, v, context) == v.size + (m.params * context) \div 8 + Overhead

UsesPool(g) == g.shared /\ g.vram < 2

(* _fit_candidate_gpus and the memory each counts with.                    *)
Candidates(gpus) ==
  IF \E i \in DOMAIN gpus : ~UsesPool(gpus[i]) /\ gpus[i].vram > 0
  THEN {i \in DOMAIN gpus : ~UsesPool(gpus[i])} ELSE DOMAIN gpus

Usable(machine) == (machine.ram * 8) \div 10

Available(machine, i) ==
  IF UsesPool(machine.gpus[i]) THEN Usable(machine) ELSE machine.gpus[i].vram

VramOf(machine) == SumFunction([i \in Candidates(machine.gpus) |-> Available(machine, i)])

BestGpu(machine) ==
  CHOOSE i \in Candidates(machine.gpus) :
    \A j \in Candidates(machine.gpus) :
      \/ Available(machine, i) > Available(machine, j)
      \/ Available(machine, i) = Available(machine, j) /\ i <= j

(* A mutant: memory a card shares with the processor counts twice.         *)
OffloadTwice(machine) == Usable(machine)

OffloadRam(machine) ==
  IF Candidates(machine.gpus) # {} /\ machine.gpus[BestGpu(machine)].shared THEN 0 ELSE Usable(machine)

(* check_compatibility.                                                    *)
FitType(machine, need) ==
  IF VramOf(machine) >= need THEN "full_gpu"
  ELSE IF VramOf(machine) > 0 /\ VramOf(machine) + OffloadRam(machine) >= need THEN "partial_offload"
  ELSE IF Usable(machine) >= need THEN "cpu_only" ELSE "none"

Compatible(m, v, machine, context) ==
  /\ FitType(machine, VramNeeded(m, v, context)) # "none"
  /\ machine.disk > 0 => v.size <= machine.disk
  /\ m.context # 0 => m.context >= context

(* rank_models: what can run, with the variant whose quantisation it names.*)
Recommended(models, w) ==
  { [model |-> m, variant |-> BestVariant(m, w.quant),
     fit |-> FitType(w.machine, VramNeeded(m, BestVariant(m, w.quant), w.context))] :
      m \in {n \in models : Compatible(n, BestVariant(n, w.quant), w.machine, w.context)} }

-----------------------------------------------------------------------------
AdvInit ==
  /\ cacheFile = NoCache
  /\ phase = [p \in Process |-> "idle"] /\ queries = [p \in Process |-> 0]
  /\ fetched = [p \in Process |-> {}] /\ overtaken = {}
  /\ wish = [p \in Process |-> CHOOSE w \in Wishes : TRUE]
  /\ catalog = [p \in Process |-> Nothing] /\ ranked = [p \in Process |-> {}]
  /\ asks = 0 /\ aged = 0

Answer(p, models, source) ==
  /\ catalog' = [catalog EXCEPT ![p] = [models |-> models, source |-> source]]
  /\ ranked' = [ranked EXCEPT ![p] = Recommended(models, wish'[p])]
  /\ phase' = [phase EXCEPT ![p] = "done"]

(* get_catalog: a fresh cache that can be read and has models spares the   *)
(* network.                                                                *)
AskCatalog(p, w) ==
  /\ phase[p] = "idle" /\ asks < MaxAsks
  /\ asks' = asks + 1
  /\ wish' = [wish EXCEPT ![p] = w]
  /\ IF ~w.refresh /\ cacheFile.kind = "whole" /\ cacheFile.fresh /\ cacheFile.models # {}
     THEN Answer(p, cacheFile.models, "cache") /\ UNCHANGED <<queries, fetched>>
     ELSE /\ phase' = [phase EXCEPT ![p] = "fetching"]
          /\ queries' = [queries EXCEPT ![p] = 0]
          /\ fetched' = [fetched EXCEPT ![p] = {}]
          /\ UNCHANGED <<catalog, ranked>>
  /\ UNCHANGED <<cacheFile, overtaken, aged>>

(* But get_catalog raises where the cache's directory cannot be made, or a *)
(* record that another release wrote cannot be taken.                      *)
CacheRaises(p, w) ==
  /\ phase[p] = "idle" /\ asks < MaxAsks /\ ~w.refresh
  /\ asks' = asks + 1
  /\ wish' = [wish EXCEPT ![p] = w]
  /\ phase' = [phase EXCEPT ![p] = "raised"]
  /\ UNCHANGED <<cacheFile, queries, fetched, overtaken, catalog, ranked, aged>>

(* fetch_live_catalog: of each query the models whose details are          *)
(* answered are kept; an error ends the queries.                           *)
Query(p) ==
  /\ phase[p] = "fetching" /\ queries[p] < 2
  /\ \E found \in SUBSET Online : fetched' = [fetched EXCEPT ![p] = @ \cup found]
  /\ \E over \in {queries[p] + 1, 2} : queries' = [queries EXCEPT ![p] = over]
  /\ UNCHANGED <<cacheFile, phase, wish, overtaken, catalog, ranked, asks, aged>>

(* With nothing found the shipped list stands for the hub's.               *)
Live(p) == IF fetched[p] = {} THEN Shipped ELSE fetched[p]

(* save_cache: the file is opened, and so emptied, and then written.       *)
OpenCache(p) ==
  /\ phase[p] = "fetching" /\ queries[p] = 2
  /\ cacheFile' = [cacheFile EXCEPT !.kind = "torn"]
  /\ phase' = [phase EXCEPT ![p] = "writing"]
  /\ UNCHANGED <<queries, fetched, wish, overtaken, catalog, ranked, asks, aged>>

(* Written after another process wrote to the file it had open as well,    *)
(* the text may end in the other's.                                        *)
WriteCache(p) ==
  /\ phase[p] = "writing"
  /\ \E kind \in (IF p \in overtaken THEN {"whole", "torn"} ELSE {"whole"}) :
       cacheFile' = [kind |-> kind, models |-> Live(p), fresh |-> TRUE]
  /\ overtaken' = (overtaken \cup {q \in Process : phase[q] = "writing"}) \ {p}
  /\ UNCHANGED wish
  /\ Answer(p, Live(p), "huggingface")
  /\ UNCHANGED <<queries, fetched, asks, aged>>

(* The file cannot be opened or written: the shipped list, by that name.   *)
SaveFails(p) ==
  /\ phase[p] = "writing" \/ (phase[p] = "fetching" /\ queries[p] = 2)
  /\ UNCHANGED wish
  /\ Answer(p, Shipped, "fallback")
  /\ overtaken' = overtaken \ {p}
  /\ UNCHANGED <<cacheFile, queries, fetched, asks, aged>>

Answered(p) ==
  /\ phase[p] \in {"done", "raised"}
  /\ phase' = [phase EXCEPT ![p] = "idle"]
  /\ UNCHANGED <<cacheFile, queries, fetched, wish, overtaken, catalog, ranked, asks, aged>>

ExpireCache ==
  /\ cacheFile.fresh /\ aged < MaxAged
  /\ aged' = aged + 1
  /\ cacheFile' = [cacheFile EXCEPT !.fresh = FALSE]
  /\ UNCHANGED <<phase, queries, fetched, wish, overtaken, catalog, ranked, asks>>

AdvNext ==
  \/ ExpireCache
  \/ \E p \in Process :
       \/ \E w \in Wishes : AskCatalog(p, w)
       \/ \E w \in Wishes : CacheRaises(p, w)
       \/ Query(p)
       \/ OpenCache(p)
       \/ WriteCache(p)
       \/ SaveFails(p)
       \/ Answered(p)
AdvSpec == AdvInit /\ [][AdvNext]_advars

-----------------------------------------------------------------------------
AdvTypeOK ==
  /\ cacheFile.kind \in {"none", "torn", "whole"} /\ cacheFile.fresh \in BOOLEAN
  /\ phase \in [Process -> {"idle", "fetching", "writing", "done", "raised"}]
  /\ queries \in [Process -> 0..2] /\ overtaken \subseteq Process
  /\ \A p \in Process : catalog[p].source \in {"none", "cache", "huggingface", "fallback"}

(* Whoever else is writing the cache, a call that does not raise is        *)
(* answered with the shipped list or with models of the hub: never with    *)
(* none, never with a mix of the two, never with a torn file.  A refresh,  *)
(* which does not read the cache, is answered whatever fails.              *)
CatalogsAreOneSource ==
  \A p \in Process :
    /\ phase[p] = "done" =>
         \/ catalog[p].models = Shipped
         \/ catalog[p].models \in (SUBSET Online) \ {{}}
    /\ phase[p] = "raised" => ~wish[p].refresh

(* At most one card shares the processor's memory, and one that reports    *)
(* 2 GiB or more of it is the only card.                                   *)
SharedCards(machine) == {i \in DOMAIN machine.gpus : machine.gpus[i].shared}
SharesOnce(machine) ==
  /\ Cardinality(SharedCards(machine)) <= 1
  /\ \A i \in SharedCards(machine) :
       UsesPool(machine.gpus[i]) \/ (Len(machine.gpus) = 1 /\ machine.gpus[i].vram <= machine.ram)

(* What is recommended fits: with its context it needs no more than the    *)
(* memory of the cards that have their own and the machine's together, and *)
(* its file goes on the disk.  (Two cards that share the processor's       *)
(* memory, and one that reports 2 GiB of it or more beside another card,   *)
(* are counted twice over by the code.)                                    *)
RecommendedFits ==
  \A p \in Process : \A r \in ranked[p] :
    LET machine == wish[p].machine
        cards == SumFunction([i \in DOMAIN machine.gpus \ SharedCards(machine) |-> machine.gpus[i].vram])
    IN phase[p] = "done" /\ SharesOnce(machine) =>
         /\ VramNeeded(r.model, r.variant, wish[p].context) <= cards + machine.ram
         /\ machine.disk > 0 => r.variant.size <= machine.disk

(* Advice rests on one source and fits the machine.                        *)
AdviceIsSound == AdvTypeOK /\ CatalogsAreOneSource /\ RecommendedFits
=============================================================================
