------------------------------ MODULE MCServices ------------------------------
(***************************************************************************)
(* What happens inside one process: a call of process() or sanitize(), the *)
(* turns of an agent, the sandbox its tools run in, and the services       *)
(* behind them: the phrase matcher and filter, the scoring of memory       *)
(* writes, the model store, the local model advisor, the metrics and the   *)
(* trace.  A behaviour is about one of them.                               *)
(***************************************************************************)
EXTENDS MCPromptProcessor, AgentTurn, MCSandboxHooks,
        PhraseMatcher, MemoryPoisoning, ModelStore, LocalAdvisor, RequestMetrics, RunTrace

VARIABLE app  \* the part this behaviour is about

MCPatterns == {<<"a">>, <<"a", "b">>, <<"b", "a">>, <<"a", "b", "a">>, <<"b", "a", "a">>, <<"a", "a", "b">>, <<"b", "a", "b", "a">>}
MCScanned == {<<"a", "b", "a", "a", "b">>, <<"b", "a", "b", "b", "a", "a", "b", "a", "c", "b", "a">>}

MCGrams == {"ign", "gno", "nor", "xyz"}
MCHash1 == [g \in MCGrams |-> CASE g = "ign" -> 3 [] g = "gno" -> 10 [] g = "nor" -> 14 [] OTHER -> 6]
MCHash2 == [g \in MCGrams |-> CASE g = "ign" -> 5 [] g = "gno" -> 7 [] g = "nor" -> 9 [] OTHER -> 4]
Writing(keyword, phrase, short, rf, centroid, lite) ==
  [ keyword |-> keyword, phrase |-> phrase, short |-> short, rf |-> rf, centroid |-> centroid, lite |-> lite,
    grams |-> IF phrase \in {"none", "leet"} THEN {"xyz"} ELSE {"ign", "gno", "xyz"} ]
MCTexts ==
  {Writing("none", p, s, r, NaN, l) : p \in {"none", "folded"}, s \in BOOLEAN, r \in {NaN, 9000}, l \in {0, 9700}}
  \cup {Writing(k, "leet", TRUE, 9000, 6000, 100) : k \in {"none", "zerowidth", "folded"}}

Model1(name, params, context, variants) ==
  [name |-> name, params |-> params, context |-> context, variants |-> variants]
File(quant, size) == [quant |-> quant, size |-> size]
Card(vram, shared) == [vram |-> vram, shared |-> shared]
MCOnline == {Model1("qwen", 7, 32, {File("Q8_0", 8), File("Q4_K_M", 4)}), Model1("llama", 30, 0, {File("Q2_K", 10)})}
MCShipped == {Model1("phi", 3, 8, {File("Q4_K_M", 2)})}
Wish(gpus, ram, space, context, quant, refresh) ==
  [machine |-> [gpus |-> gpus, ram |-> ram, disk |-> space], context |-> context, quant |-> quant, refresh |-> refresh]
MCWishes ==
  { Wish(<<Card(1, TRUE)>>, 11, 20, 4, "none", FALSE),
    Wish(<<Card(8, TRUE)>>, 11, 20, 4, "none", FALSE),
    Wish(<<Card(8, FALSE), Card(1, TRUE)>>, 16, 5, 4, "Q4_K_M", TRUE),
    Wish(<<>>, 16, 0, 16, "none", FALSE),
    Wish(<<Card(8, FALSE), Card(12, FALSE)>>, 8, 0, 4, "none", FALSE) }

-----------------------------------------------------------------------------
(* The parts that are not this behaviour's stay as they are at first.      *)
MpIdle == disk = {} /\ payload.kind = "whole"
StIdle == disabled = FALSE /\ localZip = FALSE
RtIdle == run = [trace |-> FALSE, debug |-> FALSE, stages |-> {}, onFailure |-> "keep"]
ProcIdle == call = CHOOSE c \in Calls : c.prompt = NoText
TurnIdle == agent = [tools |-> {}, routing |-> FALSE, governed |-> FALSE]

AllInit ==
  /\ app \in {"processor", "turn", "sandbox", "matcher", "filter", "memory", "store", "advisor", "metrics", "trace"}
  /\ app # "processor" => ProcIdle
  /\ app # "turn" => TurnIdle
  /\ app # "trace" => RtIdle
  /\ app # "store" => StIdle
  /\ Init /\ TurnInit /\ HooksInit
  /\ AcInit /\ AdvInit /\ MdInit /\ RtInit /\ StoreInit
  /\ IF app = "filter" THEN PfInit /\ disk = {} /\ clf = "none" /\ loaded = Unloaded /\ asked = {}
     ELSE MpInit /\ (app # "memory" => MpIdle)

callvars == <<vars, turnvars, hookvars>>
serviceVars == <<acvars, mpvars, storevars, advars, mdvars, rtvars>>
allVars == <<app, callvars, serviceVars>>

AllNext ==
  /\ UNCHANGED app
  /\ \/ /\ UNCHANGED serviceVars
        /\ \/ app = "processor" /\ Next /\ UNCHANGED <<turnvars, hookvars>>
           \/ app = "turn" /\ TurnNext /\ UNCHANGED <<vars, hookvars>>
           \/ app = "sandbox" /\ HooksNext /\ UNCHANGED <<vars, turnvars>>
     \/ /\ UNCHANGED callvars
        /\ \/ app = "matcher" /\ AcNext /\ UNCHANGED <<mpvars, storevars, advars, mdvars, rtvars>>
           \/ app = "filter" /\ PfNext /\ UNCHANGED <<acvars, disk, clf, loaded, asked, storevars, advars, mdvars, rtvars>>
           \/ app = "memory" /\ MpNext /\ UNCHANGED <<acvars, storevars, advars, mdvars, rtvars>>
           \/ app = "store" /\ StoreNext /\ UNCHANGED <<acvars, mpvars, advars, mdvars, rtvars>>
           \/ app = "advisor" /\ AdvNext /\ UNCHANGED <<acvars, mpvars, storevars, mdvars, rtvars>>
           \/ app = "metrics" /\ MdNext /\ UNCHANGED <<acvars, mpvars, storevars, advars, rtvars>>
           \/ app = "trace" /\ RtNext /\ UNCHANGED <<acvars, mpvars, storevars, advars, mdvars>>

(* The fairness of each module's own specification, for the part at work.  *)
(* A thread that is in ensure_models goes on: its waits have timeouts, and *)
(* the lock is given up before the call returns.                           *)
Alone(A, others) == A /\ UNCHANGED <<app, others>>
Fairness ==
  /\ WF_allVars(app = "processor" /\ Alone(Engine, <<turnvars, hookvars, serviceVars>>))
  /\ WF_allVars(app = "processor" /\ Alone(Caller, <<turnvars, hookvars, serviceVars>>))
  /\ WF_allVars(app = "turn" /\ Alone(TurnStep, <<vars, hookvars, serviceVars>>))
  /\ \A t \in Asker : WF_allVars(app = "store" /\ Alone(StoreStep(t), <<callvars, acvars, mpvars, advars, mdvars, rtvars>>))

AllSpec == AllInit /\ [][AllNext]_allVars /\ Fairness

(* What is begun comes to its end: a call of process(), an agent's turn, a *)
(* call of ensure_models.                                                  *)
WhatBeginsEnds == EveryCallEnds /\ EveryTurnEnds /\ EveryAskReturns
=============================================================================
