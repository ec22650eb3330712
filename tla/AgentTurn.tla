----------------------------- MODULE AgentTurn -----------------------------
(***************************************************************************)
(* One agent and its turns: Agent.run and Agent.run_with_fallback          *)
(* (runtime/agent.py), the retries of the model adapter under them         *)
(* (runtime/adapters/), the tool loop (runtime/agent_tools.py) and the     *)
(* ANCHOR proxy around them (anchor/adapters/asha_agent.py).               *)
(*                                                                         *)
(* A provider answers or fails, a governed tool is granted or denied, as   *)
(* the environment likes: what ANCHOR decides is AnchorRuntime's subject.  *)
(* A response is the tool it asks for, a conversation what was reported to *)
(* the model about the tools it asked for.                                 *)
(***************************************************************************)
EXTENDS Integers, Sequences, SequencesExt

CONSTANTS
  Tool, NoTool,   \* names a response may ask for; a response that asks for none
  Retries,        \* UniversalModelAdapter.retries
  MaxIterations,  \* Agent.max_tool_iterations
  MaxFallbacks,   \* BOUND: adapters passed to run_with_fallback
  MaxTurns        \* BOUND: turns of one agent

ASSUME TurnAssumption ==
  /\ NoTool \notin Tool
  /\ Retries \in Nat /\ MaxIterations \in Nat \ {0}
  /\ MaxFallbacks \in Nat /\ MaxTurns \in Nat

VARIABLES
  agent,       \* its tools, whether its adapter routes, whether ANCHOR wraps it
  turns,       \* turns started
  pc, turn,    \* where the current turn is, and how it was called
  leg,         \* which adapter in the order of fallback is being asked
  tries,       \* `attempt` in UniversalModelAdapter.generate
  round,       \* iterations of the tool loop that are over
  response,    \* the tool the last response asks for
  conversation,\* what the tool loop appended to it
  answer,      \* how the turn ended
  tried,       \* history: provider calls of this turn, by adapter
  ran,         \* history: tools that ran in this turn
  governedRuns, finalised  \* history: governed runs, and sessions finalised

turnvars == <<agent, turns, pc, turn, leg, tries, round, response, conversation,
          answer, tried, ran, governedRuns, finalised>>

sessionVars == <<agent, turns, turn, governedRuns>>
loopVars    == <<round, response, conversation, ran>>

Agent  == [tools : SUBSET Tool, routing : BOOLEAN, governed : BOOLEAN]
Turn   == [entry : {"run", "run_with_fallback"}, given : 0..MaxFallbacks, own : {1, 2}]
Report == [tool : Tool, outcome : {"value", "raised", "denied", "unknown"}]

Label == {"idle", "process", "ask", "parse", "govern", "finalize"}

(* Adapter 0 is the agent's own; the others are those passed to it.        *)
Adapter == 0..MaxFallbacks

TurnTypeOK ==
  /\ agent \in Agent /\ turn \in Turn
  /\ turns \in 0..MaxTurns
  /\ pc \in Label
  /\ leg \in 1..(MaxFallbacks + 2)
  /\ tries \in 0..Retries
  /\ round \in 0..MaxIterations
  /\ response \in Tool \cup {NoTool}
  /\ conversation \in Seq(Report)
  /\ answer \in {"none", "text", "call", "raised"}
  /\ tried \in [Adapter -> Nat]
  /\ ran \in Seq(Report)
  /\ governedRuns \in Nat /\ finalised \in Nat

NothingTried == [a \in Adapter |-> 0]

TurnInit ==
  /\ agent \in Agent
  /\ turns = 0 /\ pc = "idle" /\ turn = [entry |-> "run", given |-> 0, own |-> 1]
  /\ leg = 1 /\ tries = 0 /\ round = 0
  /\ response = NoTool /\ conversation = <<>> /\ answer = "none"
  /\ tried = NothingTried /\ ran = <<>>
  /\ governedRuns = 0 /\ finalised = 0

(* The proxy governs run; run_with_fallback reaches the agent behind it    *)
(* through __getattr__.                                                    *)
GovernedCall(e) == agent.governed /\ e = "run"
Governed == GovernedCall(turn.entry)

-----------------------------------------------------------------------------
(* The order of fallback                                                   *)

(* turn.own is how often the agent's own adapter is asked before another:  *)
(* by generate, and under run_with_fallback once more by                   *)
(* generate_with_fallback, which a routing adapter does not have.          *)
OwnLegs(e) == IF e = "run_with_fallback" /\ ~agent.routing THEN 2 ELSE 1

LastLeg == turn.own + turn.given

AdapterOf(l) == IF l <= turn.own THEN 0 ELSE l - turn.own

-----------------------------------------------------------------------------
(* Turns                                                                   *)

StartTurn(e, n) ==
  /\ pc = "idle" /\ turns < MaxTurns
  /\ e = "run" => n = 0
  /\ turns' = turns + 1
  /\ turn' = [entry |-> e, given |-> n, own |-> OwnLegs(e)]
  /\ pc' = "process"
  /\ leg' = 1 /\ tries' = 0 /\ round' = 0
  /\ response' = NoTool /\ conversation' = <<>> /\ answer' = "none"
  /\ tried' = NothingTried /\ ran' = <<>>
  /\ governedRuns' = governedRuns + (IF GovernedCall(e) THEN 1 ELSE 0)
  /\ UNCHANGED <<agent, finalised>>

(* switch_provider: a universal adapter takes the place of the agent's.    *)
SwitchProvider ==
  /\ pc = "idle" /\ agent.routing
  /\ agent' = [agent EXCEPT !.routing = FALSE]
  /\ UNCHANGED <<turns, pc, turn, leg, tries, loopVars, answer, tried, governedRuns, finalised>>

(* For mutation: an exception passes by the proxy's finally.               *)
RaiseUnfinalised ==
  /\ answer' = "raised"
  /\ pc' = "idle"

(* An exception leaves the turn: the proxy's finally still runs, the step  *)
(* output is not governed.                                                 *)
RaiseError ==
  /\ answer' = "raised"
  /\ pc' = IF Governed THEN "finalize" ELSE "idle"

ReturnAnswer(a) ==
  /\ answer' = a
  /\ pc' = IF Governed THEN "govern" ELSE "idle"

(* processor.run returns, or raises: the agent's mode is strict.           *)
ProcessPrompt ==
  /\ pc = "process"
  /\ \/ pc' = "ask" /\ UNCHANGED answer
     \/ RaiseError
  /\ UNCHANGED <<sessionVars, leg, tries, loopVars, tried, finalised>>

(* The verdicts on the step output (AnchorRuntime's GovernStepOutput) do   *)
(* not change what is returned: raise_on_block is FALSE.                   *)
GovernStepOutput ==
  /\ pc = "govern" /\ pc' = "finalize"
  /\ UNCHANGED <<sessionVars, leg, tries, loopVars, answer, tried, finalised>>

FinalizeSession ==
  /\ pc = "finalize" /\ pc' = "idle"
  /\ finalised' = finalised + 1
  /\ UNCHANGED <<sessionVars, leg, tries, loopVars, answer, tried>>

-----------------------------------------------------------------------------
(* The model is asked                                                      *)

Try == tried' = [tried EXCEPT ![AdapterOf(leg)] = @ + 1]

(* The loop looks for a tool call in the response; the generate after the  *)
(* loop, a run without tools and run_with_fallback return it as it is.     *)
Looping == turn.entry = "run" /\ agent.tools # {} /\ round < MaxIterations

ProviderAnswers(t) ==
  /\ pc = "ask"
  /\ Try
  /\ tries' = 0
  /\ response' = t
  /\ IF Looping THEN pc' = "parse" /\ UNCHANGED answer
     ELSE ReturnAnswer(IF t = NoTool THEN "text" ELSE "call")
  /\ UNCHANGED <<sessionVars, leg, round, conversation, ran, finalised>>

(* For mutation: one attempt too many before the adapter gives up.         *)
ProviderFailsLate ==
  /\ pc = "ask"
  /\ Try
  /\ \/ tries <= Retries /\ tries' = tries + 1 /\ UNCHANGED <<leg, pc, answer>>
     \/ /\ tries = Retries + 1 /\ tries' = 0
        /\ IF leg < LastLeg THEN leg' = leg + 1 /\ UNCHANGED <<pc, answer>>
           ELSE RaiseError /\ UNCHANGED leg
  /\ UNCHANGED <<sessionVars, loopVars, finalised>>

(* A failed attempt is followed by another, by the next adapter, or by an  *)
(* exception that ends the turn, whatever its tools have done already.     *)
ProviderFails ==
  /\ pc = "ask"
  /\ Try
  /\ \/ tries < Retries /\ tries' = tries + 1 /\ UNCHANGED <<leg, pc, answer>>
     \/ /\ tries = Retries /\ tries' = 0
        /\ IF leg < LastLeg THEN leg' = leg + 1 /\ UNCHANGED <<pc, answer>>
           ELSE RaiseError /\ UNCHANGED leg
  /\ UNCHANGED <<sessionVars, loopVars, finalised>>

-----------------------------------------------------------------------------
(* run_tool_loop                                                           *)

EndWithAnswer ==
  /\ pc = "parse" /\ response = NoTool
  /\ ReturnAnswer("text")
  /\ UNCHANGED <<sessionVars, leg, tries, loopVars, tried, finalised>>

NextRound(report) ==
  /\ conversation' = Append(conversation, report)
  /\ round' = round + 1
  /\ pc' = "ask"
  /\ UNCHANGED <<sessionVars, leg, tries, response, answer, tried, finalised>>

UnknownTool ==
  /\ pc = "parse" /\ response \in Tool \ agent.tools
  /\ NextRound([tool |-> response, outcome |-> "unknown"])
  /\ UNCHANGED ran

Outcomes == {"value", "raised"} \cup IF Governed THEN {"denied"} ELSE {}

(* For mutation: an exception of the tool is swallowed, not reported.      *)
CallToolQuietly ==
  /\ pc = "parse" /\ response \in agent.tools
  /\ \E outcome \in Outcomes :
       LET report == [tool |-> response, outcome |-> outcome]
       IN  /\ ran' = IF outcome = "denied" THEN ran ELSE Append(ran, report)
           /\ conversation' = IF outcome = "raised" THEN conversation ELSE Append(conversation, report)
  /\ round' = round + 1 /\ pc' = "ask"
  /\ UNCHANGED <<sessionVars, leg, tries, response, answer, tried, finalised>>

(* The tool returns or raises; under ANCHOR it may be denied instead, and  *)
(* the denial is a result like any other.                                  *)
CallTool ==
  /\ pc = "parse" /\ response \in agent.tools
  /\ \E outcome \in Outcomes :
       LET report == [tool |-> response, outcome |-> outcome]
       IN  /\ ran' = IF outcome = "denied" THEN ran ELSE Append(ran, report)
           /\ NextRound(report)

-----------------------------------------------------------------------------
TurnStep ==
  \/ ProcessPrompt \/ GovernStepOutput \/ FinalizeSession
  \/ \E t \in Tool \cup {NoTool} : ProviderAnswers(t)
  \/ ProviderFails
  \/ EndWithAnswer \/ UnknownTool \/ CallTool

TurnNext ==
  \/ \E e \in {"run", "run_with_fallback"}, n \in 0..MaxFallbacks : StartTurn(e, n)
  \/ SwitchProvider
  \/ TurnStep

TurnSpec == TurnInit /\ [][TurnNext]_turnvars

(* Inside a turn the agent is straight-line Python; a provider call ends   *)
(* by its timeout.  Nobody need start a turn.                              *)
TurnFairSpec == TurnSpec /\ WF_turnvars(TurnStep)

-----------------------------------------------------------------------------
(* Properties                                                              *)

(* Retries multiply: by the tool loop's rounds, and by the second pass of  *)
(* run_with_fallback over the agent's own adapter.  These are the numbers  *)
(* of provider calls a turn makes at most.                                 *)
AttemptsBounded ==
  \A a \in Adapter : tried[a] <=
    IF a > 0 THEN Retries + 1
    ELSE IF turn.entry = "run" THEN (MaxIterations + 1) * (Retries + 1)
    ELSE turn.own * (Retries + 1)

(* A fallback adapter gets the prompt only when those before it are        *)
(* exhausted: the agent's own in every pass over it, and each fallback that *)
(* was passed earlier.                                                     *)
FallbackIsLastResort ==
  \A a \in Adapter \ {0} : tried[a] > 0 =>
    /\ turn.entry = "run_with_fallback" /\ a <= turn.given
    /\ tried[0] = turn.own * (Retries + 1)
    /\ \A b \in 1..(a - 1) : tried[b] = Retries + 1

(* Providers are asked in their order, and no more often than configured.  *)
ProvidersAskedInTurn == TurnTypeOK /\ AttemptsBounded /\ FallbackIsLastResort

(* Whatever tools did, raised or were denied, the model is told in order   *)
(* before it is asked again: what ran is what the conversation says ran,   *)
(* report by report.                                                       *)
RunOf(report) == IF report.outcome \in {"value", "raised"} THEN <<report>> ELSE <<>>
ModelSeesEveryRun == ran = FlattenSeq([i \in DOMAIN conversation |-> RunOf(conversation[i])])

(* A run with tools returns a text that still asks for a tool only after   *)
(* every iteration of the loop was spent on some other request.            *)
ToolTextOnlyAtLimit ==
  answer = "call" /\ turn.entry = "run" /\ agent.tools # {} => Len(conversation) = MaxIterations

(* However a governed run ends, with an exception in the middle of the     *)
(* tool loop or at the processor, its session is finalised once.           *)
FinalisedOnce == pc = "idle" => finalised = governedRuns

(* A turn ends with an answer or a spent budget, and its session is closed.*)
TurnsEndProperly == ToolTextOnlyAtLimit /\ FinalisedOnce

(* Every turn ends: the retries, the fallbacks and the tool loop run out.  *)
EveryTurnEnds == pc # "idle" ~> pc = "idle"
-----------------------------------------------------------------------------
(* The inductive invariant behind AttemptsBounded and FallbackIsLastResort *)

(* run passes no fallback adapters and asks its own in one pass; no leg is *)
(* past the last, and no response is parsed after the last iteration.      *)
TurnInRange ==
  /\ turn.entry = "run" => turn.given = 0 /\ turn.own = 1
  /\ leg <= LastLeg
  /\ pc = "parse" => turn.entry = "run" /\ round < MaxIterations

(* What the adapter in front was asked: the attempts of its earlier passes *)
(* and of this one.  Those behind it were not asked yet.                   *)
AskedSoFar ==
  pc \in {"process", "ask", "parse"} =>
    /\ turn.entry = "run" => tried[0] <= round * (Retries + 1) + tries + (IF pc = "parse" THEN Retries + 1 ELSE 0)
    /\ turn.entry = "run_with_fallback" =>
         /\ leg <= turn.own => tried[0] = (leg - 1) * (Retries + 1) + tries
         /\ leg > turn.own =>
              /\ tried[0] = turn.own * (Retries + 1)
              /\ tried[leg - turn.own] = tries
              /\ \A b \in 1..(leg - turn.own - 1) : tried[b] = Retries + 1
    /\ \A b \in Adapter : b > 0 /\ b > leg - turn.own => tried[b] = 0

TurnInv ==
  /\ TurnTypeOK
  /\ TurnInRange
  /\ AskedSoFar
  /\ AttemptsBounded
  /\ FallbackIsLastResort
=============================================================================
