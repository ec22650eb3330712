--------------------------- MODULE AnchorRuntime ---------------------------
(***************************************************************************)
(* AnchorRuntime (runtime/anchor/runtime.py) and the tool bridge that      *)
(* drives it: mission set-up and phase refresh, the evaluation of actions, *)
(* memory operations and plan outputs, and the governed tool call.         *)
(*                                                                         *)
(* Callers are threads (or interleaved adapter callbacks) that share one   *)
(* runtime.  evaluate_action_request holds no lock and re-reads            *)
(* state.mission and state.actions_history as it goes, so it is split into *)
(* the steps between which another caller can run: record, judge, approve  *)
(* (a human may take any time to answer), chain check, second approval.    *)
(*                                                                         *)
(* approval_history is only ever read at its last entry and is kept as     *)
(* that entry; alignment, memory and risk histories feed the risk summary  *)
(* alone and are left out.                                                 *)
(***************************************************************************)
EXTENDS ActionGuards

CONSTANTS
  Caller,            \* threads that share the runtime
  Interactive,       \* resolve_interactive: a human answers the prompt
  WarnPolicy,        \* resolve_warn_policy: "strict" or "permissive"
  DefaultTolerance,  \* the runtime's risk_tolerance argument
  Prompts, Contexts, \* the missions the environment may ask for
  Requests, Uses,    \* the actions it may submit, and how
  MemoryEvents,      \* the memory operations it may submit
  Outputs,           \* the step outputs it may submit
  Required,          \* the tools an output may be required to have used
  Reinit,            \* initialize_mission may be called again (LangChain invoke)
  MaxActions         \* BOUND: recorded actions

ASSUME RuntimeAssumption ==
  /\ Interactive \in BOOLEAN /\ Reinit \in BOOLEAN
  /\ WarnPolicy \in {"strict", "permissive"}
  /\ DefaultTolerance \in Tolerance
  /\ Prompts \subseteq Prompt /\ Contexts \subseteq Context
  /\ Requests \subseteq Action /\ Uses \subseteq {"guarded", "async", "preview", "direct"}
  /\ MemoryEvents \subseteq MemoryEvent
  /\ Outputs \subseteq Output /\ Required \subseteq Tool
  /\ MaxActions \in Nat

VARIABLES
  mission,         \* state.mission
  baseline,        \* state.baseline_mission
  sessionBaseline, \* MissionSession._baseline
  policy,          \* sandbox.policy
  actions,         \* state.actions_history
  lastApproval,    \* the last entry of state.approval_history
  toolsUsed,       \* state.tools_used
  pc, req,         \* where each caller is, and the call it is making
  executed,        \* history: tools run since the session baseline was set
  remembered,      \* history: scopes written since then without a human's consent
  accepted         \* history: required tools that accepted success claims relied on

vars == <<mission, baseline, sessionBaseline, policy, actions, lastApproval,
          toolsUsed, pc, req, executed, remembered, accepted>>

missionVars == <<mission, baseline, sessionBaseline, policy>>
ghostVars   == <<executed, remembered, accepted>>

(***************************************************************************)
(* How a call came in: "guarded" is guarded_tool_call (sandboxed), "async" *)
(* is the MCP proxy's acall_tool, "preview" a call with record=False (LLM  *)
(* proposals and callbacks), "direct" evaluate_action_request itself.      *)
(***************************************************************************)
Use == {"guarded", "async", "preview", "direct"}

Request == [act : Action, use : Use, verdict : Verdict, human : BOOLEAN]

NoRequest ==
  [ act     |-> [type |-> "tool_call", tool |-> NoTool, hits |-> 0, path |-> NoPath],
    use     |-> "direct",
    verdict |-> "ALLOW",
    human   |-> FALSE ]

Label == {"idle", "judge", "approve", "chain", "chainApprove", "run", "denied"}

NoApproval == [by |-> "nobody", verdict |-> "ALLOW"]

Approval == [by : Caller, verdict : {"ALLOW", "WARN", "BLOCK"}] \cup {NoApproval}

(* policy_from_mission, and the policy of a SandboxManager without one.    *)
Policy == [network : BOOLEAN, writePaths : SUBSET Path]

PolicyFromMission(m) ==
  [ network    |-> ~m.local,
    writePaths |-> IF m.writePaths = {} THEN {OutputDir} ELSE m.writePaths ]

DefaultPolicy == [network |-> FALSE, writePaths |-> {OutputDir, DataDir}]

Execution == [tool : Tool, sandboxed : BOOLEAN, network : BOOLEAN, human : BOOLEAN]

TypeOK ==
  /\ mission \in Contract \cup {NoContract}
  /\ baseline \in Contract \cup {NoContract}
  /\ sessionBaseline \in Contract \cup {NoContract}
  /\ policy \in Policy
  /\ actions \in Seq(Action)
  /\ lastApproval \in Approval
  /\ toolsUsed \in SUBSET Tool
  /\ pc \in [Caller -> Label]
  /\ req \in [Caller -> Request]
  /\ executed \in SUBSET Execution
  /\ remembered \in SUBSET MemScope
  /\ accepted \in SUBSET Tool

Init ==
  /\ mission = NoContract /\ baseline = NoContract /\ sessionBaseline = NoContract
  /\ policy = DefaultPolicy
  /\ actions = <<>> /\ lastApproval = NoApproval /\ toolsUsed = {}
  /\ pc = [c \in Caller |-> "idle"] /\ req = [c \in Caller |-> NoRequest]
  /\ executed = {} /\ remembered = {} /\ accepted = {}

Goto(c, label) == pc' = [pc EXCEPT ![c] = label]

(* The call returns; what it was about is forgotten.                       *)
Return(c) == Goto(c, "idle") /\ req' = [req EXCEPT ![c] = NoRequest]

Approve(c, d) == lastApproval' = [by |-> c, verdict |-> d.verdict]

-----------------------------------------------------------------------------
(* Missions                                                                *)

InitializeMission(c, p, ctx) ==
  LET m == Compile(p, ctx, DefaultTolerance)
  IN  /\ pc[c] = "idle" /\ (Reinit \/ mission = NoContract)
      /\ mission' = m /\ baseline' = m /\ sessionBaseline' = m
      /\ policy' = PolicyFromMission(m)
      /\ executed' = {} /\ remembered' = {}
      /\ UNCHANGED <<actions, lastApproval, toolsUsed, pc, req, accepted>>

PhaseContract(p, ctx) ==
  Compile(p, IF baseline # NoContract THEN EnrichContext(ctx, baseline) ELSE ctx, DefaultTolerance)

(* A refresh before any initialize_mission makes its phase the session's   *)
(* baseline but leaves state.baseline_mission unset.                       *)
RefreshMissionPhase(c, p, ctx) ==
  LET phase == PhaseContract(p, ctx)
      m     == IF sessionBaseline = NoContract THEN phase ELSE Merge(sessionBaseline, phase)
  IN  /\ pc[c] = "idle"
      /\ mission' = m
      /\ sessionBaseline' = IF sessionBaseline = NoContract THEN phase ELSE sessionBaseline
      /\ policy' = PolicyFromMission(m)
      /\ UNCHANGED <<baseline, actions, lastApproval, toolsUsed, pc, req, ghostVars>>

-----------------------------------------------------------------------------
(* evaluate_action_request                                                 *)

Admissible(a, use) ==
  use \in {"guarded", "async", "preview"} => a.type = "tool_call" /\ a.tool \in Tool

(* Without a mission the request is refused and nothing is recorded.       *)
RefuseWithoutMission(c, a, use) ==
  /\ pc[c] = "idle" /\ mission = NoContract /\ Admissible(a, use)
  /\ use \in {"guarded", "async"}
  /\ Goto(c, "denied")
  /\ req' = [req EXCEPT ![c] = [NoRequest EXCEPT !.act = a, !.use = use]]
  /\ UNCHANGED <<missionVars, actions, lastApproval, toolsUsed, ghostVars>>

(* A recorded request enters the history before any guard has seen it.     *)
SubmitAction(c, a, use) ==
  /\ pc[c] = "idle" /\ mission # NoContract /\ Admissible(a, use)
  /\ IF use = "preview" THEN UNCHANGED actions
     ELSE Len(actions) < MaxActions /\ actions' = Append(actions, a)
  /\ Goto(c, "judge")
  /\ req' = [req EXCEPT ![c] = [NoRequest EXCEPT !.act = a, !.use = use]]
  /\ UNCHANGED <<missionVars, lastApproval, toolsUsed, ghostVars>>

JudgeAction(c) ==
  /\ pc[c] = "judge"
  /\ req' = [req EXCEPT ![c].verdict = ActionVerdict(req[c].act, mission)]
  /\ Goto(c, "approve")
  /\ UNCHANGED <<missionVars, actions, lastApproval, toolsUsed, ghostVars>>

ApproveAction(c) ==
  /\ pc[c] = "approve"
  /\ \E d \in Decisions(req[c].verdict, req[c].act, mission, WarnPolicy, Interactive) :
       /\ Approve(c, d)
       /\ req' = [req EXCEPT ![c].human = d.human]
       /\ Goto(c, IF d.verdict = "BLOCK" THEN "denied" ELSE "chain")
  /\ UNCHANGED <<missionVars, actions, toolsUsed, ghostVars>>

ToolOf(a) == IF a.type = "tool_call" THEN {a.tool} \cap Tool ELSE {}

(* The request is allowed: its tool counts as used, and a bridged call     *)
(* goes on to run it; other callers just get TRUE.                         *)
Grant(c) ==
  /\ toolsUsed' = toolsUsed \cup ToolOf(req[c].act)
  /\ IF req[c].use \in {"guarded", "async"} THEN Goto(c, "run") /\ UNCHANGED req ELSE Return(c)

CheckChain(c) ==
  LET v == ChainVerdict(actions, mission)
  IN  /\ pc[c] = "chain"
      /\ \/ /\ v \in {"BLOCK", "REVIEW"}
            /\ req' = [req EXCEPT ![c].verdict = v]
            /\ Goto(c, "chainApprove")
            /\ UNCHANGED toolsUsed
         \/ v = "ALLOW" /\ Grant(c)
      /\ UNCHANGED <<missionVars, actions, lastApproval, ghostVars>>

(* For mutation: a chain that is refused leaves no approval record.        *)
ApproveChainUnrecorded(c) ==
  /\ pc[c] = "chainApprove"
  /\ \E d \in Decisions(req[c].verdict, req[c].act, mission, WarnPolicy, Interactive) :
       IF d.verdict = "BLOCK"
       THEN Goto(c, "denied") /\ UNCHANGED <<req, toolsUsed, lastApproval>>
       ELSE Grant(c) /\ Approve(c, d)
  /\ UNCHANGED <<missionVars, actions, ghostVars>>

ApproveChain(c) ==
  /\ pc[c] = "chainApprove"
  /\ \E d \in Decisions(req[c].verdict, req[c].act, mission, WarnPolicy, Interactive) :
       /\ Approve(c, d)
       /\ IF d.verdict = "BLOCK"
          THEN Goto(c, "denied") /\ UNCHANGED <<req, toolsUsed>>
          ELSE Grant(c)
  /\ UNCHANGED <<missionVars, actions, ghostVars>>

ExecutionOf(r) ==
  [ tool      |-> r.act.tool,
    sandboxed |-> r.use = "guarded",
    network   |-> r.use # "guarded" \/ policy.network,
    human     |-> r.human ]

(* guarded_tool_call and acall_tool after an allowed request: the sandbox  *)
(* reads its policy when the tool starts; acall_tool awaits the tool       *)
(* without it.                                                             *)
RunTool(c) ==
  /\ pc[c] = "run"
  /\ executed' = executed \cup {ExecutionOf(req[c])}
  /\ Return(c)
  /\ UNCHANGED <<missionVars, actions, lastApproval, toolsUsed, remembered, accepted>>

(* For mutation: the denial is built but not returned.                     *)
ReportDenialUnreturned(c) ==
  /\ pc[c] = "denied" /\ Goto(c, "run") /\ UNCHANGED req
  /\ UNCHANGED <<missionVars, actions, lastApproval, toolsUsed, ghostVars>>

(* block_message_for_tool quotes the last entry of the approval history,   *)
(* whoever made it.                                                        *)
ReportDenial(c) ==
  /\ pc[c] = "denied" /\ Return(c)
  /\ UNCHANGED <<missionVars, actions, lastApproval, toolsUsed, ghostVars>>

-----------------------------------------------------------------------------
(***************************************************************************)
(* Memory and plan requests.  Each is one step: of what it reads, only the *)
(* mission can be replaced under it, and tools_used and the history grow.  *)
(***************************************************************************)

Remember(e, d) ==
  remembered' = remembered \cup
    IF e.op = "write" /\ d.verdict # "BLOCK" /\ ~d.human THEN {e.scope} ELSE {}

MemoryDecisions(e) == Decisions(MemoryVerdict(e, mission), NoAction, mission, WarnPolicy, Interactive)

MemoryRequest(c, e) ==
  /\ pc[c] = "idle" /\ mission # NoContract
  /\ \E d \in MemoryDecisions(e) : Approve(c, d) /\ Remember(e, d)
  /\ UNCHANGED <<missionVars, actions, toolsUsed, pc, req, executed, accepted>>

(* tools_used, or the history's tool names while nothing was granted.      *)
Evidence ==
  IF toolsUsed # {} THEN toolsUsed
  ELSE LET names == ToolNames(actions) IN {names[i] : i \in DOMAIN names}

(* evaluate_plan_request: an ALLOW verdict leaves no approval record.  An  *)
(* accepted success claim without a receipt relied on the required tools   *)
(* that it does not mention.  before is the approval entry it starts from. *)
PlanRequest(c, o, required, before) ==
  LET v == PlanVerdict(o, required, Evidence)
  IN  \/ v = "ALLOW" /\ lastApproval' = before /\ UNCHANGED accepted
      \/ /\ v # "ALLOW"
         /\ \E d \in Decisions(v, NoAction, mission, WarnPolicy, Interactive) :
              /\ Approve(c, d)
              /\ accepted' = accepted \cup IF d.verdict = "BLOCK" THEN {} ELSE required \ o.mentions

EvaluatePlan(c, o, required) ==
  /\ pc[c] = "idle"
  /\ PlanRequest(c, o, required, lastApproval)
  /\ UNCHANGED <<missionVars, actions, toolsUsed, pc, req, executed, remembered>>

(* govern_step_output: the output is written to session memory first; the  *)
(* plan guard sees it only if that is allowed.                             *)
GovernStepOutput(c, e, o, required) ==
  /\ pc[c] = "idle" /\ mission # NoContract
  /\ e.op = "write" /\ e.scope = "session"
  /\ \E d \in MemoryDecisions(e) :
       /\ Remember(e, d)
       /\ IF d.verdict = "BLOCK" THEN Approve(c, d) /\ UNCHANGED accepted
          ELSE PlanRequest(c, o, required, [by |-> c, verdict |-> d.verdict])
  /\ UNCHANGED <<missionVars, actions, toolsUsed, pc, req, executed>>

-----------------------------------------------------------------------------
Step(c) ==
  \/ JudgeAction(c) \/ ApproveAction(c) \/ CheckChain(c) \/ ApproveChain(c)
  \/ RunTool(c) \/ ReportDenial(c)

Mission(c) ==
  \E p \in Prompts, ctx \in Contexts : InitializeMission(c, p, ctx) \/ RefreshMissionPhase(c, p, ctx)

Ask(c) ==
  \/ \E a \in Requests, use \in Uses : RefuseWithoutMission(c, a, use) \/ SubmitAction(c, a, use)
  \/ \E e \in MemoryEvents : MemoryRequest(c, e)
  \/ \E o \in Outputs, required \in SUBSET Required :
       \/ EvaluatePlan(c, o, required)
       \/ \E e \in MemoryEvents : GovernStepOutput(c, e, o, required)

Next == \E c \in Caller : Mission(c) \/ Ask(c) \/ Step(c)

Spec == Init /\ [][Next]_vars

-----------------------------------------------------------------------------
(* Safety                                                                  *)

(* refresh_mission_phase may replace the mission as often as it likes, with *)
(* any context: no restriction of the session's baseline is ever lost.     *)
MissionKeepsBaseline ==
  sessionBaseline # NoContract => KeepsRestrictions(sessionBaseline, mission)

(* Under a session whose baseline is local, a tool that can send data out   *)
(* or destroy it runs only after a human consented to that very call,       *)
(* whatever phases were merged between judging the call and running it.    *)
NoEscapeUnderLocalBaseline ==
  \A e \in executed : sessionBaseline.local /\ Dangerous(e.tool) => e.human

(* The sandbox a bridged tool starts under follows the mission: in a local *)
(* session no sandboxed tool has ever had the network.                     *)
LocalToolsRunOffline ==
  \A e \in executed : sessionBaseline.local /\ e.sandboxed => ~e.network

(* Local means local: what can leave or destroy runs with consent only, and*)
(* what runs in the sandbox is cut off.                                    *)
LocalSessionsStayLocal == TypeOK /\ NoEscapeUnderLocalBaseline /\ LocalToolsRunOffline

(* The chain guard's rule "write capability followed by destructive tool",  *)
(* about what ran rather than about what was asked: with one caller and no *)
(* human, no destructive tool runs once a writing tool has run.            *)
NothingDestroyedAfterWrite ==
  [][\A c \in Caller :
       pc[c] = "run" /\ pc'[c] = "idle" /\ "destructive" \in Caps[req[c].act.tool]
         => \A e \in executed : "writes" \notin Caps[e.tool]]_vars

AnomalyIn(names) ==
  \E i \in 1..(Len(names) - 1) : Rarity[<<Category[names[i]], Category[names[i + 1]]>>] = "BLOCK"

(* An anomalous transition stays in the history, the attempt being refused  *)
(* or not: with one caller and no human, no tool runs after it, in this    *)
(* mission or a later one, unless a mission tolerates HIGH risk.           *)
NothingRunsAfterAnomaly ==
  [][ AnomalyIn(ToolNames(actions)) /\ mission.tolerance \notin {"HIGH", "CRITICAL"}
        => \A c \in Caller : ~(pc[c] = "run" /\ pc'[c] = "idle") ]_vars

(* The denial message of a tool bridge quotes approval_history[-1]: with   *)
(* one caller that is the verdict that refused this call.                  *)
DenialQuotesItsBlock ==
  \A c \in Caller :
    pc[c] = "denied" /\ mission # NoContract => lastApproval = [by |-> c, verdict |-> "BLOCK"]

(* A session whose baseline tolerates LOW risk only, where reviews go to a  *)
(* human or are refused: no phase lets it write to a persistent memory     *)
(* scope without a human's consent.                                        *)
LowToleranceKeepsToSession ==
  sessionBaseline # NoContract /\ sessionBaseline.tolerance = "LOW" => remembered \subseteq {"session"}

-----------------------------------------------------------------------------
(* The inductive invariant behind NoEscapeUnderLocalBaseline and           *)
(* LocalToolsRunOffline when a session is initialised once (~Reinit).      *)

DangerousCall(r) == r.act.type = "tool_call" /\ r.act.tool \in Tool /\ Dangerous(r.act.tool)

(* The mission, the session and the sandbox are set together.              *)
SessionInStep ==
  /\ mission = NoContract <=> sessionBaseline = NoContract
  /\ mission # NoContract => policy = PolicyFromMission(mission)
  /\ mission = NoContract => executed = {} /\ \A c \in Caller : pc[c] \in {"idle", "denied"}

(* A bridged request names a tool, and only bridged requests run one.      *)
BridgedNamesTool ==
  \A c \in Caller :
    /\ req[c].use \in {"guarded", "async"} => req[c].act.type = "tool_call" /\ req[c].act.tool \in Tool
    /\ pc[c] = "run" => req[c].use \in {"guarded", "async"}

(* A dangerous call judged under a local baseline was judged BLOCK, and    *)
(* past the approval engine it has a human's consent: no later merge can   *)
(* make the baseline local after the fact, or not local any more.          *)
DangerIsHeld ==
  \A c \in Caller :
    sessionBaseline # NoContract /\ sessionBaseline.local /\ DangerousCall(req[c]) =>
      /\ pc[c] = "approve" => req[c].verdict = "BLOCK"
      /\ pc[c] \in {"chain", "chainApprove", "run"} => req[c].human

IInv ==
  /\ TypeOK
  /\ SessionInStep
  /\ MissionKeepsBaseline
  /\ BridgedNamesTool
  /\ DangerIsHeld
  /\ NoEscapeUnderLocalBaseline
  /\ LocalToolsRunOffline

-----------------------------------------------------------------------------
(***************************************************************************)
(* AnchorRuntime implements ToolGate if a session is initialised once: the *)
(* guards, the phases and the histories are invisible, a call is asked for *)
(* until it is granted or denied.                                          *)
(***************************************************************************)
GateState(label) ==
  CASE label = "idle"   -> "idle"
    [] label = "run"    -> "granted"
    [] label = "denied" -> "refused"
    [] OTHER            -> "asked"

GateCall ==
  [ c \in Caller |->
      [ state |-> GateState(pc[c]), names |-> ToolOf(req[c].act),
        how |-> req[c].use, consent |-> req[c].human ] ]

SessionLocal == sessionBaseline # NoContract /\ sessionBaseline.local

Gate == INSTANCE ToolGate
          WITH Perilous <- {t \in Tool : Dangerous(t)},
               set <- mission # NoContract, local <- SessionLocal,
               call <- GateCall, used <- toolsUsed, ran <- executed

(* No interleaving of callers, refreshes and guards, each of which reads    *)
(* the mission and the history anew, shows outside as anything but calls   *)
(* that are granted or refused, once; the consent that a local session     *)
(* asks for is the consent to that call.                                   *)
ImplementsToolGate == Gate!Spec

-----------------------------------------------------------------------------
(* What the repository says of the program and the program does not do     *)

(* runtime.py: "Refresh phase goal without weakening baseline mission       *)
(* constraints."  The merged contract keeps the phase's memory scopes.     *)
PhasesKeepMemoryScopes ==
  sessionBaseline # NoContract => remembered \subseteq sessionBaseline.scopes

(* plan_guard.py: a success claim is blocked when "required tools were     *)
(* never invoked".  Denied and previewed calls count as invoked.           *)
AcceptedClaimsWereInvoked == accepted \subseteq {e.tool : e \in executed}
=============================================================================
