------------------------ MODULE AnchorRuntimeProofs ------------------------
(***************************************************************************)
(* What holds of AnchorRuntime for every choice of tools, contracts,       *)
(* prompts, callers and policies, proved with TLAPS.                       *)
(***************************************************************************)
EXTENDS AnchorRuntime, DataLemmas

-----------------------------------------------------------------------------
(* Contracts                                                               *)

(* The compiler returns a contract, whatever the prompt and the context.   *)
LEMMA CompileType ==
  ASSUME NEW p \in Prompt, NEW ctx \in Context
  PROVE  Compile(p, ctx, DefaultTolerance) \in Contract
<1>1. /\ CompiledActions(p, ctx) \in SUBSET Permission
      /\ IntentLocal(p, ctx) \in BOOLEAN
      BY ContractAssumption
      DEF CompiledActions, IntentLocal, Prompt, Context, Permission
<1>2. CompiledForbidden(p, IntentLocal(p, ctx) \/ ~p.confident) \in SUBSET Token
      BY ContractAssumption DEF CompiledForbidden, Prompt
<1>3. /\ IntentReadPaths(p, ctx) \in SUBSET Path
      /\ IntentWritePaths(p, ctx) \in SUBSET Path
      BY ContractAssumption
      DEF IntentReadPaths, IntentWritePaths, CtxPaths, Prompt, Context
<1>4. {"session"} \cup (IF p.confident THEN DomainScopes[p.domain] ELSE {}) \in SUBSET MemScope
      BY ContractAssumption DEF MemScope, Prompt
<1>5. QED
      BY <1>1, <1>2, <1>3, <1>4, RuntimeAssumption DEF Compile, Contract, Prompt, Context

(* Enriching a phase's context with the baseline yields a context.         *)
LEMMA EnrichType ==
  ASSUME NEW ctx \in Context, NEW base \in Contract
  PROVE  EnrichContext(ctx, base) \in Context
BY DEF EnrichContext, Context, Contract, OptionalKey

(* Merging two contracts yields a contract.                                *)
LEMMA MergeType ==
  ASSUME NEW base \in Contract, NEW phase \in Contract
  PROVE  Merge(base, phase) \in Contract
BY DEF Merge, Contract

(* merge_mission_with_baseline never weakens: the merged contract keeps    *)
(* every restriction of the baseline, whatever the phase asks for.         *)
THEOREM MergeKeepsRestrictions ==
  ASSUME NEW base \in Contract, NEW phase \in Contract
  PROVE  KeepsRestrictions(base, Merge(base, phase))
BY DEF KeepsRestrictions, Merge, Contract

(* A contract keeps its own restrictions.                                  *)
LEMMA KeepsItself ==
  ASSUME NEW m \in Contract
  PROVE  KeepsRestrictions(m, m)
BY DEF KeepsRestrictions, Contract

(* The sandbox policy of a contract is a policy.                           *)
LEMMA PolicyType ==
  ASSUME NEW m \in Contract
  PROVE  PolicyFromMission(m) \in Policy
BY ContractAssumption DEF PolicyFromMission, Policy, Contract

-----------------------------------------------------------------------------
(* Guards and decisions                                                    *)

(* The guards answer with a verdict.                                       *)
LEMMA VerdictType ==
  /\ \A a, m : ActionVerdict(a, m) \in Verdict
  /\ \A h, m : ChainVerdict(h, m) \in Verdict
<1>1. ASSUME NEW a, NEW m PROVE ActionVerdict(a, m) \in Verdict
  <2>1. \A s : Band(s) \in Verdict
        BY DEF Band, Verdict
  <2>2. QED BY <2>1 DEF ActionVerdict, Verdict
<1>2. ASSUME NEW h, NEW m PROVE ChainVerdict(h, m) \in Verdict
  <2> DEFINE names == ToolNames(h)
             rarity == SequenceRarity(names)
  <2>1. ChainVerdict(h, m) \in {"ALLOW", "REVIEW", "BLOCK"}
        BY ZenonT(30) DEF ChainVerdict
  <2>2. QED BY <2>1 DEF Verdict
<1>3. QED BY <1>1, <1>2

(* The approval engine answers with a decision.                            *)
LEMMA DecisionType ==
  ASSUME NEW v, NEW a, NEW m, NEW w, NEW i \in BOOLEAN
  PROVE  Decisions(v, a, m, w, i) \subseteq Decision
<1>1. \A x \in {"ALLOW", "WARN", "BLOCK"} : Automatic(x) \in Decision
      BY DEF Automatic, Decision
<1>2. RequestApproval(i) \subseteq Decision
      BY <1>1 DEF RequestApproval, Decision
<1>3. CASE v = "REVIEW"
      BY <1>1, <1>2, <1>3 DEF Decisions
<1>4. CASE v = "BLOCK"
      BY <1>2, <1>4 DEF Decisions
<1>5. CASE v = "WARN"
      BY <1>1, <1>2, <1>5 DEF Decisions
<1>6. CASE v \notin {"REVIEW", "BLOCK", "WARN"}
      BY <1>1, <1>6 DEF Decisions
<1>7. QED BY <1>3, <1>4, <1>5, <1>6

(* A BLOCK verdict is lifted by a human or not at all.                     *)
LEMMA BlockNeedsHuman ==
  ASSUME NEW a, NEW m, NEW w, NEW i \in BOOLEAN,
         NEW d \in Decisions("BLOCK", a, m, w, i), d.verdict # "BLOCK"
  PROVE  d.human = TRUE
<1>1. d \in RequestApproval(i)
      BY DEF Decisions
<1>2. CASE i
      BY <1>1, <1>2 DEF RequestApproval
<1>3. CASE ~i
  <2>1. d = [verdict |-> "BLOCK", human |-> FALSE]
        BY <1>1, <1>3 DEF RequestApproval, Automatic
  <2>2. QED BY <2>1
<1>4. QED BY <1>2, <1>3

(* The action guard blocks every dangerous tool call under a local         *)
(* contract, whatever the score, the allow-list and the calibrator say.    *)
LEMMA DangerIsBlocked ==
  ASSUME NEW a \in Action, NEW m \in Contract, m.local,
         a.type = "tool_call", a.tool \in Tool, Dangerous(a.tool)
  PROVE  ActionVerdict(a, m) = "BLOCK"
<1>1. ~MissionLocal(a.tool, m) BY DEF MissionLocal
<1>2. HardBlock(a, m) BY <1>1 DEF HardBlock, ToolBlocked, Restricted
<1>3. QED BY <1>2 DEF ActionVerdict

-----------------------------------------------------------------------------
(* Type correctness                                                        *)

USE DEF Goto, Return, Approve, ToolOf, missionVars, ghostVars

(* The null request is a request.                                          *)
LEMMA NoRequestIsRequest == NoRequest \in Request
BY GuardAssumption DEF NoRequest, Request, Action, Use, Verdict

LEMMA InitTypeOK == Init => TypeOK
<1>1. DefaultPolicy \in Policy
      BY ContractAssumption DEF DefaultPolicy, Policy
<1>2. QED
      BY <1>1, NoRequestIsRequest DEF Init, TypeOK, Label, Approval

(* The mission a phase compiles to is a contract.                          *)
LEMMA PhaseType ==
  ASSUME TypeOK, NEW p \in Prompts, NEW ctx \in Contexts
  PROVE  PhaseContract(p, ctx) \in Contract
<1>1. p \in Prompt /\ ctx \in Context BY RuntimeAssumption
<1>2. CASE baseline = NoContract
      BY <1>1, <1>2, CompileType DEF PhaseContract
<1>3. CASE baseline # NoContract
  <2>1. baseline \in Contract BY <1>3 DEF TypeOK
  <2>2. EnrichContext(ctx, baseline) \in Context BY <1>1, <2>1, EnrichType
  <2>3. QED BY <1>1, <1>3, <2>2, CompileType DEF PhaseContract
<1>4. QED BY <1>2, <1>3

LEMMA MissionTypeOK ==
  ASSUME TypeOK, NEW c \in Caller, NEW p \in Prompts, NEW ctx \in Contexts,
         InitializeMission(c, p, ctx) \/ RefreshMissionPhase(c, p, ctx)
  PROVE  TypeOK'
<1>1. p \in Prompt /\ ctx \in Context BY RuntimeAssumption
<1>2. CASE InitializeMission(c, p, ctx)
  <2> DEFINE m == Compile(p, ctx, DefaultTolerance)
  <2>1. m \in Contract BY <1>1, CompileType
  <2>2. PolicyFromMission(m) \in Policy BY <2>1, PolicyType
  <2>3. QED BY <1>2, <2>1, <2>2 DEF InitializeMission, TypeOK
<1>3. CASE RefreshMissionPhase(c, p, ctx)
  <2> DEFINE phase == PhaseContract(p, ctx)
             m == IF sessionBaseline = NoContract THEN phase ELSE Merge(sessionBaseline, phase)
  <2>1. phase \in Contract BY PhaseType
  <2>2. m \in Contract BY <2>1, MergeType DEF TypeOK
  <2>3. PolicyFromMission(m) \in Policy BY <2>2, PolicyType
  <2>4. QED BY <1>3, <2>1, <2>2, <2>3 DEF RefreshMissionPhase, TypeOK
<1>4. QED BY <1>2, <1>3

LEMMA RequestTypeOK ==
  ASSUME TypeOK, NEW c \in Caller, NEW a \in Requests, NEW use \in Uses,
         RefuseWithoutMission(c, a, use) \/ SubmitAction(c, a, use)
  PROVE  TypeOK'
<1>1. [NoRequest EXCEPT !.act = a, !.use = use] \in Request
      BY NoRequestIsRequest, RuntimeAssumption DEF Request, Use
<1>2. a \in Action BY RuntimeAssumption
<1>3. CASE RefuseWithoutMission(c, a, use)
      BY <1>1, <1>3 DEF RefuseWithoutMission, TypeOK, Label
<1>4. CASE SubmitAction(c, a, use)
      BY <1>1, <1>2, <1>4, SMTT(30) DEF SubmitAction, TypeOK, Label
<1>5. QED BY <1>3, <1>4

(* What a step of a call under way does to the types.  BridgedNamesTool    *)
(* is needed where a tool is run: it is what makes the execution typed.    *)
LEMMA StepTypeOK ==
  ASSUME TypeOK, BridgedNamesTool, NEW c \in Caller, Step(c)
  PROVE  TypeOK'
<1> USE DEF TypeOK, Label
<1>1. ToolOf(req[c].act) \subseteq Tool
      OBVIOUS
<1>2. CASE JudgeAction(c)
  <2>1. ActionVerdict(req[c].act, mission) \in Verdict BY VerdictType
  <2>2. QED BY <1>2, <2>1 DEF JudgeAction, Request
<1>3. CASE ApproveAction(c)
  <2>1. PICK d \in Decisions(req[c].verdict, req[c].act, mission, WarnPolicy, Interactive) :
          /\ lastApproval' = [by |-> c, verdict |-> d.verdict]
          /\ req' = [req EXCEPT ![c].human = d.human]
          /\ pc' = [pc EXCEPT ![c] = IF d.verdict = "BLOCK" THEN "denied" ELSE "chain"]
        BY <1>3 DEF ApproveAction
  <2>2. d \in Decision BY DecisionType, RuntimeAssumption
  <2>3. QED BY <1>3, <2>1, <2>2 DEF ApproveAction, Request, Approval, Decision
<1>4. CASE CheckChain(c)
  <2>1. CASE Grant(c) /\ UNCHANGED <<missionVars, actions, lastApproval, ghostVars>>
        BY <1>1, <2>1, NoRequestIsRequest DEF Grant
  <2>2. CASE ~Grant(c)
    <3> DEFINE v == ChainVerdict(actions, mission)
    <3>1. /\ v \in {"BLOCK", "REVIEW"}
          /\ req' = [req EXCEPT ![c].verdict = v]
          /\ pc' = [pc EXCEPT ![c] = "chainApprove"]
          /\ UNCHANGED <<toolsUsed, missionVars, actions, lastApproval, ghostVars>>
          BY <1>4, <2>2 DEF CheckChain
    <3>2. v \in Verdict BY VerdictType
    <3> HIDE DEF v
    <3>3. req' \in [Caller -> Request]
          BY <3>1, <3>2 DEF Request
    <3>4. QED BY <3>1, <3>3
  <2>3. QED BY <1>4, <2>1, <2>2 DEF CheckChain
<1>5. CASE ApproveChain(c)
  <2>1. PICK d \in Decisions(req[c].verdict, req[c].act, mission, WarnPolicy, Interactive) :
          /\ lastApproval' = [by |-> c, verdict |-> d.verdict]
          /\ IF d.verdict = "BLOCK"
             THEN pc' = [pc EXCEPT ![c] = "denied"] /\ UNCHANGED <<req, toolsUsed>>
             ELSE Grant(c)
        BY <1>5 DEF ApproveChain
  <2>2. d \in Decision BY DecisionType, RuntimeAssumption
  <2>3. lastApproval' \in Approval BY <2>1, <2>2 DEF Approval, Decision
  <2>4. CASE d.verdict = "BLOCK"
        BY <1>5, <2>1, <2>3, <2>4 DEF ApproveChain
  <2>5. CASE d.verdict # "BLOCK"
        BY <1>1, <1>5, <2>1, <2>3, <2>5, NoRequestIsRequest DEF ApproveChain, Grant
  <2>6. QED BY <2>4, <2>5
<1>6. CASE RunTool(c)
  <2>1. req[c].act.tool \in Tool
        BY <1>6 DEF RunTool, BridgedNamesTool
  <2>2. req[c].human \in BOOLEAN /\ policy.network \in BOOLEAN
        BY DEF Request, Policy
  <2> DEFINE e == ExecutionOf(req[c])
  <2>3. e \in Execution
        BY <2>1, <2>2 DEF ExecutionOf, Execution
  <2>4. executed' = executed \cup {e}
        BY <1>6 DEF RunTool
  <2> HIDE DEF e
  <2>5. QED BY <1>6, <2>3, <2>4, NoRequestIsRequest DEF RunTool
<1>7. CASE ReportDenial(c)
      BY <1>7, NoRequestIsRequest DEF ReportDenial
<1>8. QED BY <1>2, <1>3, <1>4, <1>5, <1>6, <1>7 DEF Step

LEMMA OutputTypeOK ==
  ASSUME TypeOK, NEW c \in Caller,
         \/ \E e \in MemoryEvents : MemoryRequest(c, e)
         \/ \E o \in Outputs, required \in SUBSET Required :
              \/ EvaluatePlan(c, o, required)
              \/ \E e \in MemoryEvents : GovernStepOutput(c, e, o, required)
  PROVE  TypeOK'
<1> USE DEF TypeOK
<1>1. ASSUME NEW e \in MemoryEvents, NEW d \in MemoryDecisions(e)
      PROVE  /\ d \in Decision
             /\ [by |-> c, verdict |-> d.verdict] \in Approval
             /\ Remember(e, d) => remembered' \in SUBSET MemScope
  <2>1. d \in Decision BY DecisionType, RuntimeAssumption DEF MemoryDecisions
  <2>2. e.scope \in MemScope BY RuntimeAssumption DEF MemoryEvent
  <2>3. QED BY <2>1, <2>2 DEF Decision, Approval, Remember
<1>2. ASSUME NEW o \in Outputs, NEW required \in SUBSET Required, NEW before \in Approval,
             PlanRequest(c, o, required, before)
      PROVE  lastApproval' \in Approval /\ accepted' \in SUBSET Tool
  <2>1. CASE lastApproval' = before /\ UNCHANGED accepted
        BY <2>1
  <2>2. CASE ~(lastApproval' = before /\ UNCHANGED accepted)
    <3> DEFINE v == PlanVerdict(o, required, Evidence)
    <3>1. PICK d \in Decisions(v, NoAction, mission, WarnPolicy, Interactive) :
            /\ lastApproval' = [by |-> c, verdict |-> d.verdict]
            /\ accepted' = accepted \cup IF d.verdict = "BLOCK" THEN {} ELSE required \ o.mentions
          BY <1>2, <2>2 DEF PlanRequest
    <3>2. d \in Decision BY <3>1, DecisionType, RuntimeAssumption
    <3>3. QED BY <3>1, <3>2, RuntimeAssumption DEF Decision, Approval
  <2>3. QED BY <2>1, <2>2
<1>3. CASE \E e \in MemoryEvents : MemoryRequest(c, e)
      BY <1>1, <1>3 DEF MemoryRequest
<1>4. CASE \E o \in Outputs, required \in SUBSET Required : EvaluatePlan(c, o, required)
      BY <1>2, <1>4 DEF EvaluatePlan
<1>5. ASSUME NEW o \in Outputs, NEW required \in SUBSET Required, NEW e \in MemoryEvents,
             GovernStepOutput(c, e, o, required)
      PROVE  TypeOK'
  <2>1. PICK d \in MemoryDecisions(e) :
          /\ Remember(e, d)
          /\ IF d.verdict = "BLOCK"
             THEN lastApproval' = [by |-> c, verdict |-> d.verdict] /\ UNCHANGED accepted
             ELSE PlanRequest(c, o, required, [by |-> c, verdict |-> d.verdict])
        BY <1>5 DEF GovernStepOutput
  <2>2. lastApproval' \in Approval /\ accepted' \in SUBSET Tool /\ remembered' \in SUBSET MemScope
        BY <1>1, <1>2, <2>1
  <2>3. QED BY <1>5, <2>2 DEF GovernStepOutput
<1>6. QED BY <1>3, <1>4, <1>5

-----------------------------------------------------------------------------
(* The session invariant: what holds however often missions are            *)
(* initialised.                                                            *)
SessionInv ==
  /\ TypeOK
  /\ SessionInStep
  /\ MissionKeepsBaseline
  /\ BridgedNamesTool
  /\ LocalToolsRunOffline

LEMMA SessionInit == Init => SessionInv
BY InitTypeOK DEF Init, SessionInv, SessionInStep, MissionKeepsBaseline, BridgedNamesTool,
                  LocalToolsRunOffline, NoRequest

(* Setting or refreshing a mission keeps it.                               *)
LEMMA SessionMission ==
  ASSUME SessionInv, NEW c \in Caller, NEW p \in Prompts, NEW ctx \in Contexts,
         InitializeMission(c, p, ctx) \/ RefreshMissionPhase(c, p, ctx)
  PROVE  SessionInv'
<1> USE DEF SessionInv
<1>1. TypeOK' BY MissionTypeOK
<1>2. BridgedNamesTool'
      BY DEF InitializeMission, RefreshMissionPhase, BridgedNamesTool
<1>3. CASE InitializeMission(c, p, ctx)
  <2> DEFINE m == Compile(p, ctx, DefaultTolerance)
  <2>1. m \in Contract BY RuntimeAssumption, CompileType
  <2>2. mission' = m /\ sessionBaseline' = m /\ policy' = PolicyFromMission(m) /\ executed' = {}
        BY <1>3 DEF InitializeMission
  <2>3. m # NoContract BY <2>1, NoContractAssumption
  <2>4. SessionInStep' BY <2>2, <2>3 DEF SessionInStep
  <2>5. MissionKeepsBaseline' BY <2>1, <2>2, KeepsItself DEF MissionKeepsBaseline
  <2>6. LocalToolsRunOffline' BY <2>2 DEF LocalToolsRunOffline
  <2>7. QED BY <1>1, <1>2, <2>4, <2>5, <2>6
<1>4. CASE RefreshMissionPhase(c, p, ctx)
  <2> DEFINE phase == PhaseContract(p, ctx)
             m == IF sessionBaseline = NoContract THEN phase ELSE Merge(sessionBaseline, phase)
  <2>1. phase \in Contract BY PhaseType
  <2>2. m \in Contract BY <2>1, MergeType DEF TypeOK
  <2>3. /\ mission' = m /\ policy' = PolicyFromMission(m)
        /\ sessionBaseline' = IF sessionBaseline = NoContract THEN phase ELSE sessionBaseline
        /\ UNCHANGED <<executed, pc>>
        BY <1>4 DEF RefreshMissionPhase
  <2>4. m # NoContract /\ sessionBaseline' # NoContract
        BY <2>1, <2>2, <2>3, NoContractAssumption
  <2>5. SessionInStep' BY <2>3, <2>4 DEF SessionInStep
  <2>6. MissionKeepsBaseline'
    <3>1. CASE sessionBaseline = NoContract
          BY <2>1, <2>3, <3>1, KeepsItself DEF MissionKeepsBaseline
    <3>2. CASE sessionBaseline # NoContract
          BY <2>1, <2>3, <3>2, MergeKeepsRestrictions DEF MissionKeepsBaseline, TypeOK
    <3>3. QED BY <3>1, <3>2
  <2>7. LocalToolsRunOffline'
        BY <2>3 DEF LocalToolsRunOffline, SessionInStep
  <2>8. QED BY <1>1, <1>2, <2>5, <2>6, <2>7
<1>5. QED BY <1>3, <1>4

(* Asking for a tool keeps it.                                             *)
LEMMA SessionRequest ==
  ASSUME SessionInv, NEW c \in Caller, NEW a \in Requests, NEW use \in Uses,
         RefuseWithoutMission(c, a, use) \/ SubmitAction(c, a, use)
  PROVE  SessionInv'
<1> USE DEF SessionInv
<1>1. TypeOK' BY RequestTypeOK
<1>2. UNCHANGED <<missionVars, ghostVars>>
      BY DEF RefuseWithoutMission, SubmitAction
<1>3. MissionKeepsBaseline' /\ LocalToolsRunOffline'
      BY <1>2 DEF MissionKeepsBaseline, LocalToolsRunOffline
<1>4. SessionInStep'
      BY <1>2 DEF SessionInStep, RefuseWithoutMission, SubmitAction, TypeOK
<1>5. BridgedNamesTool'
  <2>1. [NoRequest EXCEPT !.act = a, !.use = use].use = use
        /\ [NoRequest EXCEPT !.act = a, !.use = use].act = a
        BY DEF NoRequest
  <2>2. Admissible(a, use) /\ req' = [req EXCEPT ![c] = [NoRequest EXCEPT !.act = a, !.use = use]]
        /\ pc'[c] # "run" /\ \A x \in Caller \ {c} : pc'[x] = pc[x]
        BY DEF RefuseWithoutMission, SubmitAction, TypeOK
  <2>3. QED BY <2>1, <2>2 DEF BridgedNamesTool, Admissible, TypeOK
<1>6. QED BY <1>1, <1>3, <1>4, <1>5

(* A step of a call under way keeps it.                                    *)
LEMMA SessionStep ==
  ASSUME SessionInv, NEW c \in Caller, Step(c)
  PROVE  SessionInv'
<1> USE DEF SessionInv
<1>1. TypeOK' BY StepTypeOK
<1>2. UNCHANGED missionVars
      BY DEF Step, JudgeAction, ApproveAction, CheckChain, ApproveChain, RunTool, ReportDenial
<1>3. MissionKeepsBaseline'
      BY <1>2 DEF MissionKeepsBaseline
<1>4. /\ req'[c].use = req[c].use /\ req'[c].act = req[c].act
      /\ pc'[c] = "run" => req[c].use \in {"guarded", "async"}
      \/ /\ req'[c] = NoRequest /\ pc'[c] = "idle"
      BY DEF Step, JudgeAction, ApproveAction, CheckChain, ApproveChain, RunTool, ReportDenial,
             Grant, TypeOK, BridgedNamesTool, Request
<1>5. \A x \in Caller \ {c} : req'[x] = req[x] /\ pc'[x] = pc[x]
      BY DEF Step, JudgeAction, ApproveAction, CheckChain, ApproveChain, RunTool, ReportDenial,
             Grant, TypeOK
<1>6. BridgedNamesTool'
      BY <1>4, <1>5 DEF BridgedNamesTool, NoRequest
<1>7. CASE RunTool(c)
  <2>1. mission # NoContract
        BY <1>7 DEF RunTool, SessionInStep
  <2>2. sessionBaseline # NoContract /\ KeepsRestrictions(sessionBaseline, mission)
        /\ policy = PolicyFromMission(mission)
        BY <2>1 DEF SessionInStep, MissionKeepsBaseline
  <2>3. sessionBaseline.local => ~policy.network
        BY <2>2 DEF KeepsRestrictions, PolicyFromMission
  <2>4. LocalToolsRunOffline'
    <3> DEFINE e == ExecutionOf(req[c])
    <3>1. /\ executed' = executed \cup {e}
          /\ e.sandboxed /\ ~policy.network => ~e.network
          BY <1>7 DEF RunTool, ExecutionOf
    <3> HIDE DEF e
    <3>2. sessionBaseline.local /\ e.sandboxed => ~e.network
          BY <2>3, <3>1
    <3>3. QED BY <1>2, <3>1, <3>2 DEF LocalToolsRunOffline
  <2>5. SessionInStep'
        BY <1>2, <2>1, <2>2 DEF SessionInStep
  <2>6. QED BY <1>1, <1>3, <1>6, <2>4, <2>5
<1>8. CASE ~RunTool(c)
  <2>1. UNCHANGED executed
        BY <1>8 DEF Step, JudgeAction, ApproveAction, CheckChain, ApproveChain, ReportDenial
  <2>2. LocalToolsRunOffline'
        BY <1>2, <2>1 DEF LocalToolsRunOffline
  <2>3. mission = NoContract => pc[c] = "denied"
        BY <1>8 DEF Step, JudgeAction, ApproveAction, CheckChain, ApproveChain, ReportDenial,
                    SessionInStep
  <2>4. SessionInStep'
        BY <1>2, <1>4, <1>5, <2>1, <2>3
        DEF SessionInStep, Step, JudgeAction, ApproveAction, CheckChain, ApproveChain, RunTool,
            ReportDenial, TypeOK
  <2>5. QED BY <1>1, <1>3, <1>6, <2>2, <2>4
<1>9. QED BY <1>7, <1>8

(* Memory and plan requests keep it.                                       *)
LEMMA SessionOutput ==
  ASSUME SessionInv, NEW c \in Caller,
         \/ \E e \in MemoryEvents : MemoryRequest(c, e)
         \/ \E o \in Outputs, required \in SUBSET Required :
              \/ EvaluatePlan(c, o, required)
              \/ \E e \in MemoryEvents : GovernStepOutput(c, e, o, required)
  PROVE  SessionInv'
<1> USE DEF SessionInv
<1>1. TypeOK' BY OutputTypeOK
<1>2. UNCHANGED <<missionVars, pc, req, executed>>
      BY DEF MemoryRequest, EvaluatePlan, GovernStepOutput
<1>3. QED
      BY <1>1, <1>2
      DEF SessionInStep, MissionKeepsBaseline, BridgedNamesTool, LocalToolsRunOffline

LEMMA SessionNext == SessionInv /\ [Next]_vars => SessionInv'
<1> SUFFICES ASSUME SessionInv, [Next]_vars PROVE SessionInv'
    OBVIOUS
<1>1. ASSUME NEW c \in Caller, Mission(c) PROVE SessionInv'
      BY <1>1, SessionMission DEF Mission
<1>2. ASSUME NEW c \in Caller, Ask(c) PROVE SessionInv'
      BY <1>2, SessionRequest, SessionOutput DEF Ask
<1>3. ASSUME NEW c \in Caller, Step(c) PROVE SessionInv'
      BY <1>3, SessionStep
<1>4. CASE UNCHANGED vars
      BY <1>4 DEF vars, SessionInv, TypeOK, SessionInStep, MissionKeepsBaseline, BridgedNamesTool,
                  LocalToolsRunOffline
<1>5. QED BY <1>1, <1>2, <1>3, <1>4 DEF Next

THEOREM SessionInvariance == Spec => []SessionInv
BY SessionInit, SessionNext, PTL DEF Spec

(* Every state of every behaviour is typed.                                *)
THEOREM TypeCorrectness == Spec => []TypeOK
<1>1. SessionInv => TypeOK BY DEF SessionInv
<1>2. QED BY <1>1, SessionInvariance, PTL

(* No phase refresh ever loses a restriction of the session's baseline.    *)
THEOREM BaselineIsKept == Spec => []MissionKeepsBaseline
<1>1. SessionInv => MissionKeepsBaseline BY DEF SessionInv
<1>2. QED BY <1>1, SessionInvariance, PTL

(* No sandboxed tool has the network in a session with a local baseline.   *)
THEOREM LocalSessionsAreOffline == Spec => []LocalToolsRunOffline
<1>1. SessionInv => LocalToolsRunOffline BY DEF SessionInv
<1>2. QED BY <1>1, SessionInvariance, PTL

-----------------------------------------------------------------------------
(***************************************************************************)
(* No escape.  Initialising a second mission under a call that is being    *)
(* judged would change the baseline the call was judged under, so this is  *)
(* proved of runtimes whose session is initialised once.                   *)
(***************************************************************************)
LEMMA DangerStep ==
  ASSUME SessionInv, DangerIsHeld, NEW c \in Caller, Step(c)
  PROVE  DangerIsHeld'
<1> USE DEF SessionInv, TypeOK
<1>1. UNCHANGED missionVars
      BY DEF Step, JudgeAction, ApproveAction, CheckChain, ApproveChain, RunTool, ReportDenial
<1>2. \A x \in Caller \ {c} : req'[x] = req[x] /\ pc'[x] = pc[x]
      BY DEF Step, JudgeAction, ApproveAction, CheckChain, ApproveChain, RunTool, ReportDenial, Grant
<1>3. SUFFICES ASSUME sessionBaseline # NoContract, sessionBaseline.local, DangerousCall(req'[c])
               PROVE  /\ pc'[c] = "approve" => req'[c].verdict = "BLOCK"
                      /\ pc'[c] \in {"chain", "chainApprove", "run"} => req'[c].human
      BY <1>1, <1>2 DEF DangerIsHeld
<1>4. CASE JudgeAction(c)
  <2>1. mission # NoContract
        BY <1>4 DEF JudgeAction, SessionInStep
  <2>2. mission \in Contract /\ mission.local
        BY <1>3, <2>1 DEF MissionKeepsBaseline, KeepsRestrictions
  <2>3. req'[c].act = req[c].act /\ req[c].act \in Action
        /\ req'[c].verdict = ActionVerdict(req[c].act, mission) /\ pc'[c] = "approve"
        BY <1>4 DEF JudgeAction, Request
  <2>4. QED BY <1>3, <2>2, <2>3, DangerIsBlocked DEF DangerousCall
<1>5. CASE ApproveAction(c)
  <2>1. PICK d \in Decisions(req[c].verdict, req[c].act, mission, WarnPolicy, Interactive) :
          /\ req' = [req EXCEPT ![c].human = d.human]
          /\ pc' = [pc EXCEPT ![c] = IF d.verdict = "BLOCK" THEN "denied" ELSE "chain"]
        BY <1>5 DEF ApproveAction
  <2>2. req[c].verdict = "BLOCK"
        BY <1>3, <1>5, <2>1 DEF ApproveAction, DangerIsHeld, DangerousCall, Request
  <2>3. d.verdict # "BLOCK" => d.human
        BY <2>1, <2>2, BlockNeedsHuman, RuntimeAssumption
  <2>4. QED BY <2>1, <2>3 DEF Request
<1>6. CASE CheckChain(c) \/ ApproveChain(c)
  <2>1. pc[c] \in {"chain", "chainApprove"}
        BY <1>6 DEF CheckChain, ApproveChain
  <2>2. req'[c] = NoRequest \/ (req'[c].act = req[c].act /\ req'[c].human = req[c].human)
        BY <1>6 DEF CheckChain, ApproveChain, Grant, Request
  <2>3. pc'[c] # "approve"
        BY <1>6 DEF CheckChain, ApproveChain, Grant
  <2>4. CASE req'[c] = NoRequest
        BY <1>3, <2>4, GuardAssumption DEF DangerousCall, NoRequest
  <2>5. CASE req'[c].act = req[c].act /\ req'[c].human = req[c].human
        BY <1>3, <2>1, <2>3, <2>5 DEF DangerIsHeld, DangerousCall
  <2>6. QED BY <2>2, <2>4, <2>5
<1>7. CASE RunTool(c) \/ ReportDenial(c)
      BY <1>7 DEF RunTool, ReportDenial
<1>8. QED BY <1>4, <1>5, <1>6, <1>7 DEF Step

LEMMA EscapeStep ==
  ASSUME SessionInv, DangerIsHeld, NoEscapeUnderLocalBaseline, NEW c \in Caller, Step(c)
  PROVE  NoEscapeUnderLocalBaseline'
<1> USE DEF SessionInv
<1>1. UNCHANGED sessionBaseline
      BY DEF Step, JudgeAction, ApproveAction, CheckChain, ApproveChain, RunTool, ReportDenial,
             missionVars
<1>2. CASE RunTool(c)
  <2> DEFINE e == ExecutionOf(req[c])
  <2>1. executed' = executed \cup {e} /\ e.tool = req[c].act.tool /\ e.human = req[c].human
        BY <1>2 DEF RunTool, ExecutionOf
  <2> HIDE DEF e
  <2>2. req[c].act.type = "tool_call" /\ req[c].act.tool \in Tool /\ pc[c] = "run"
        BY <1>2 DEF RunTool, BridgedNamesTool
  <2>3. sessionBaseline # NoContract
        BY <2>2 DEF SessionInStep
  <2>4. sessionBaseline.local /\ Dangerous(e.tool) => e.human
        BY <2>1, <2>2, <2>3 DEF DangerIsHeld, DangerousCall
  <2>5. QED BY <1>1, <2>1, <2>4 DEF NoEscapeUnderLocalBaseline
<1>3. CASE ~RunTool(c)
  <2>1. UNCHANGED executed
        BY <1>3 DEF Step, JudgeAction, ApproveAction, CheckChain, ApproveChain, ReportDenial
  <2>2. QED BY <1>1, <2>1 DEF NoEscapeUnderLocalBaseline
<1>4. QED BY <1>2, <1>3

LEMMA EscapeMission ==
  ASSUME ~Reinit, SessionInv, DangerIsHeld, NoEscapeUnderLocalBaseline,
         NEW c \in Caller, NEW p \in Prompts, NEW ctx \in Contexts,
         InitializeMission(c, p, ctx) \/ RefreshMissionPhase(c, p, ctx)
  PROVE  DangerIsHeld' /\ NoEscapeUnderLocalBaseline'
<1> USE DEF SessionInv
<1>1. UNCHANGED <<pc, req>>
      BY DEF InitializeMission, RefreshMissionPhase
<1>2. CASE mission = NoContract
  <2>1. executed' = {} /\ \A x \in Caller : pc[x] \in {"idle", "denied"}
        BY <1>2 DEF InitializeMission, RefreshMissionPhase, SessionInStep
  <2>2. QED BY <1>1, <2>1 DEF DangerIsHeld, NoEscapeUnderLocalBaseline
<1>3. CASE mission # NoContract
  <2>1. UNCHANGED <<sessionBaseline, executed>>
        BY <1>3 DEF InitializeMission, RefreshMissionPhase, SessionInStep
  <2>2. QED BY <1>1, <2>1 DEF DangerIsHeld, NoEscapeUnderLocalBaseline
<1>4. QED BY <1>2, <1>3

LEMMA EscapeAsk ==
  ASSUME SessionInv, DangerIsHeld, NoEscapeUnderLocalBaseline, NEW c \in Caller, Ask(c)
  PROVE  DangerIsHeld' /\ NoEscapeUnderLocalBaseline'
<1> USE DEF SessionInv, TypeOK
<1>1. UNCHANGED <<sessionBaseline, executed>>
      BY DEF Ask, RefuseWithoutMission, SubmitAction, MemoryRequest, EvaluatePlan, GovernStepOutput
<1>2. NoEscapeUnderLocalBaseline'
      BY <1>1 DEF NoEscapeUnderLocalBaseline
<1>3. \A x \in Caller :
        \/ pc'[x] = pc[x] /\ req'[x] = req[x]
        \/ pc'[x] \in {"denied", "judge"}
      BY DEF Ask, RefuseWithoutMission, SubmitAction, MemoryRequest, EvaluatePlan, GovernStepOutput
<1>4. DangerIsHeld'
      BY <1>1, <1>3 DEF DangerIsHeld
<1>5. QED BY <1>2, <1>4

LEMMA IInvInit == Init => IInv
<1>1. Init => DangerIsHeld /\ NoEscapeUnderLocalBaseline
      BY DEF Init, DangerIsHeld, NoEscapeUnderLocalBaseline
<1>2. QED BY <1>1, SessionInit DEF IInv, SessionInv

LEMMA IInvNext == ~Reinit /\ IInv /\ [Next]_vars => IInv'
<1> SUFFICES ASSUME ~Reinit, IInv, [Next]_vars PROVE IInv'
    OBVIOUS
<1>1. SessionInv /\ DangerIsHeld /\ NoEscapeUnderLocalBaseline
      BY DEF IInv, SessionInv
<1>2. SessionInv' BY <1>1, SessionNext
<1>3. DangerIsHeld' /\ NoEscapeUnderLocalBaseline'
  <2>1. ASSUME NEW c \in Caller, Mission(c)
        PROVE  DangerIsHeld' /\ NoEscapeUnderLocalBaseline'
        BY <1>1, <2>1, EscapeMission DEF Mission
  <2>2. ASSUME NEW c \in Caller, Ask(c)
        PROVE  DangerIsHeld' /\ NoEscapeUnderLocalBaseline'
        BY <1>1, <2>2, EscapeAsk
  <2>3. ASSUME NEW c \in Caller, Step(c)
        PROVE  DangerIsHeld' /\ NoEscapeUnderLocalBaseline'
        BY <1>1, <2>3, DangerStep, EscapeStep
  <2>4. CASE UNCHANGED vars
        BY <1>1, <2>4 DEF vars, DangerIsHeld, NoEscapeUnderLocalBaseline
  <2>5. QED BY <2>1, <2>2, <2>3, <2>4 DEF Next
<1>4. QED BY <1>2, <1>3 DEF IInv, SessionInv

(* In a session that is initialised once, under a local baseline, a tool   *)
(* that can send data out or destroy it runs only with a human's consent   *)
(* to that call: for any tools, phases, calibrator, transition matrix,     *)
(* warn policy and number of threads.                                      *)
THEOREM NoEscape == ASSUME ~Reinit PROVE Spec => []NoEscapeUnderLocalBaseline
<1>1. IInv /\ [Next]_vars => IInv' BY IInvNext
<1>2. IInv => NoEscapeUnderLocalBaseline BY DEF IInv
<1>3. QED BY <1>1, <1>2, IInvInit, PTL DEF Spec

(* If a runtime is initialised once, a session whose baseline is local     *)
(* stays local: no dangerous tool without consent, no network in a sandbox. *)
THEOREM LocalSessions == ASSUME ~Reinit PROVE Spec => []LocalSessionsStayLocal
BY TypeCorrectness, NoEscape, LocalSessionsAreOffline, PTL DEF LocalSessionsStayLocal

-----------------------------------------------------------------------------
(***************************************************************************)
(* The runtime implements ToolGate.  A step of the runtime is a step of    *)
(* the gate or one the gate does not see.                                  *)
(***************************************************************************)
USE DEF GateState

(* Seen from outside, a step of one caller changes that caller's call.     *)
LEMMA OneCallChanges ==
  ASSUME NEW c \in Caller, \A x \in Caller \ {c} : pc'[x] = pc[x] /\ req'[x] = req[x]
  PROVE  GateCall' = [GateCall EXCEPT ![c] = GateCall'[c]]
BY DEF GateCall

LEMMA CallsUnseen ==
  ASSUME \A x \in Caller : GateState(pc'[x]) = GateState(pc[x]) /\ ToolOf(req'[x].act) = ToolOf(req[x].act)
                           /\ req'[x].use = req[x].use /\ req'[x].human = req[x].human
  PROVE  GateCall' = GateCall
BY DEF GateCall

LEMMA NullCall == ToolOf(NoRequest.act) = {} /\ NoRequest.use = "direct" /\ NoRequest.human = FALSE
<1>1. /\ NoRequest.act.type = "tool_call" /\ NoRequest.act.tool = NoTool
      /\ NoRequest.use = "direct" /\ NoRequest.human = FALSE
      BY DEF NoRequest
<1>2. QED BY <1>1, GuardAssumption

(* What is over is forgotten.                                              *)
LEMMA OverIsForgotten ==
  ASSUME NEW c \in Caller, pc'[c] = "idle", req'[c] = NoRequest
  PROVE  GateCall'[c] = Gate!Over
<1>1. ToolOf(NoRequest.act) = {} /\ NoRequest.use = "direct" /\ NoRequest.human = FALSE
      BY NullCall
<1>2. GateCall'[c] = [ state |-> "idle", names |-> {}, how |-> "direct", consent |-> FALSE ]
      BY <1>1 DEF GateCall
<1>3. QED BY <1>2 DEF Gate!Over

LEMMA GateInit == Init => Gate!Init
<1> SUFFICES ASSUME Init PROVE Gate!Init
    OBVIOUS
<1>1. \A c \in Caller : req[c] = NoRequest /\ pc[c] = "idle"
      BY DEF Init
<1>2. GateCall = [c \in Caller |-> Gate!Over]
  <2>1. GateCall = [c \in Caller |-> [ state |-> "idle", names |-> {}, how |-> "direct", consent |-> FALSE ]]
        BY <1>1, NullCall DEF GateCall
  <2>2. QED BY <2>1 DEF Gate!Over
<1>3. QED BY <1>2 DEF Init, SessionLocal, Gate!Init

(* The first mission sets the session up; later phases are not seen.       *)
LEMMA GateMission ==
  ASSUME ~Reinit, IInv, NEW c \in Caller, NEW p \in Prompts, NEW ctx \in Contexts,
         InitializeMission(c, p, ctx) \/ RefreshMissionPhase(c, p, ctx)
  PROVE  Gate!SetUp \/ UNCHANGED Gate!gatevars
<1> USE DEF IInv
<1>1. /\ UNCHANGED <<pc, req, toolsUsed>>
      /\ mission' # NoContract /\ sessionBaseline' \in Contract
  <2>1. p \in Prompt /\ ctx \in Context BY RuntimeAssumption
  <2>2. CASE InitializeMission(c, p, ctx)
        BY <2>1, <2>2, CompileType, NoContractAssumption DEF InitializeMission
  <2>3. CASE RefreshMissionPhase(c, p, ctx)
    <3>1. PhaseContract(p, ctx) \in Contract BY PhaseType
    <3>2. CASE sessionBaseline = NoContract
          BY <2>3, <3>1, <3>2, NoContractAssumption DEF RefreshMissionPhase
    <3>3. CASE sessionBaseline # NoContract
      <4>1. Merge(sessionBaseline, PhaseContract(p, ctx)) \in Contract
            BY <3>1, <3>3, MergeType DEF TypeOK
      <4>2. QED BY <2>3, <3>3, <4>1, NoContractAssumption DEF RefreshMissionPhase, TypeOK
    <3>4. QED BY <3>2, <3>3
  <2>4. QED BY <2>2, <2>3
<1>2. GateCall' = GateCall BY <1>1 DEF GateCall
<1>3. CASE mission = NoContract
  <2>1. /\ executed = {} /\ executed' = {}
        /\ \A x \in Caller : pc[x] \in {"idle", "denied"}
        BY <1>3 DEF InitializeMission, RefreshMissionPhase, SessionInStep
  <2>2. \A x \in Caller : GateCall[x].state \in {"idle", "refused"}
        BY <2>1 DEF GateCall
  <2>3. SessionLocal' \in BOOLEAN BY <1>1 DEF SessionLocal, Contract
  <2>4. QED BY <1>1, <1>2, <1>3, <2>1, <2>2, <2>3 DEF Gate!SetUp
<1>4. CASE mission # NoContract
  <2>1. UNCHANGED <<sessionBaseline, executed>>
        BY <1>4 DEF InitializeMission, RefreshMissionPhase, SessionInStep
  <2>2. QED BY <1>1, <1>2, <1>4, <2>1 DEF Gate!gatevars, SessionLocal
<1>5. QED BY <1>3, <1>4

(* A request is asked for; memory and plan requests are not seen.          *)
LEMMA GateAsk ==
  ASSUME IInv, NEW c \in Caller, Ask(c)
  PROVE  Gate!Ask(c) \/ UNCHANGED Gate!gatevars
<1> USE DEF IInv, TypeOK
<1>1. ASSUME NEW a \in Requests, NEW use \in Uses,
             RefuseWithoutMission(c, a, use) \/ SubmitAction(c, a, use)
      PROVE  Gate!Ask(c)
  <2>1. UNCHANGED <<mission, sessionBaseline, toolsUsed, executed>> /\ pc[c] = "idle"
        BY <1>1 DEF RefuseWithoutMission, SubmitAction
  <2>2. /\ pc'[c] = IF mission # NoContract THEN "judge" ELSE "denied"
        /\ req'[c] = [NoRequest EXCEPT !.act = a, !.use = use]
        /\ \A x \in Caller \ {c} : pc'[x] = pc[x] /\ req'[x] = req[x]
        BY <1>1 DEF RefuseWithoutMission, SubmitAction
  <2>3. req'[c].act = a /\ req'[c].use = use /\ req'[c].human = FALSE
        BY <2>2 DEF NoRequest
  <2>4. ToolOf(a) \in Gate!Named /\ use \in Gate!How
    <3>1. a.type = "tool_call" /\ a.tool \in Tool => ToolOf(a) = {a.tool}
          OBVIOUS
    <3>2. ~(a.type = "tool_call" /\ a.tool \in Tool) => ToolOf(a) = {}
          OBVIOUS
    <3>3. QED BY <3>1, <3>2, RuntimeAssumption DEF Gate!Named, Gate!How, Gate!Bridged
  <2>5. GateCall[c].state = "idle" /\ GateCall'[c].state = IF mission # NoContract THEN "asked" ELSE "refused"
        BY <2>1, <2>2 DEF GateCall
  <2>6. GateCall'[c].names = ToolOf(a) /\ GateCall'[c].how = use /\ GateCall'[c].consent = FALSE
        BY <2>3 DEF GateCall
  <2>7. QED BY <2>1, <2>2, <2>4, <2>5, <2>6, OneCallChanges DEF Gate!Ask, Gate!Becomes, SessionLocal
<1>2. ASSUME \/ \E e \in MemoryEvents : MemoryRequest(c, e)
             \/ \E o \in Outputs, required \in SUBSET Required :
                  \/ EvaluatePlan(c, o, required)
                  \/ \E e \in MemoryEvents : GovernStepOutput(c, e, o, required)
      PROVE  UNCHANGED Gate!gatevars
  <2>1. UNCHANGED <<missionVars, toolsUsed, pc, req, executed>>
        BY <1>2 DEF MemoryRequest, EvaluatePlan, GovernStepOutput
  <2>2. QED BY <2>1 DEF Gate!gatevars, GateCall, SessionLocal
<1>3. QED BY <1>1, <1>2 DEF Ask

(* A grant of the runtime is a grant of the gate: past the approval engine *)
(* a dangerous call of a local session has a human's consent.              *)
LEMMA GateGrant ==
  ASSUME IInv, NEW c \in Caller, pc[c] \in {"chain", "chainApprove"}, Grant(c), UNCHANGED <<missionVars, executed>>
  PROVE  Gate!Grant(c)
<1> USE DEF IInv, TypeOK
<1>1. \A x \in Caller \ {c} : pc'[x] = pc[x] /\ req'[x] = req[x]
      BY DEF Grant
<1>2. GateCall[c].state = "asked" /\ GateCall[c].names = ToolOf(req[c].act)
      /\ GateCall[c].how = req[c].use /\ GateCall[c].consent = req[c].human
      BY DEF GateCall
<1>3. SessionLocal /\ ToolOf(req[c].act) \cap {t \in Tool : Dangerous(t)} # {} => req[c].human
      BY DEF SessionLocal, DangerIsHeld, DangerousCall
<1>4. GateCall'[c] = IF req[c].use \in Gate!Bridged THEN [GateCall[c] EXCEPT !.state = "granted"] ELSE Gate!Over
  <2>1. CASE req[c].use \in Gate!Bridged
        BY <2>1 DEF Grant, GateCall, Gate!Bridged
  <2>2. CASE req[c].use \notin Gate!Bridged
    <3>1. pc'[c] = "idle" /\ req'[c] = NoRequest
          BY <2>2 DEF Grant, Gate!Bridged
    <3>2. QED BY <2>2, <3>1, OverIsForgotten
  <2>3. QED BY <2>1, <2>2
<1>5. toolsUsed' = toolsUsed \cup ToolOf(req[c].act)
      BY DEF Grant
<1>6. UNCHANGED <<mission, SessionLocal>>
      BY DEF SessionLocal
<1>7. QED BY <1>1, <1>2, <1>3, <1>4, <1>5, <1>6, OneCallChanges DEF Gate!Grant, Gate!Becomes

(* A tool that is run was granted, and in a local session its sandbox has   *)
(* no network.                                                             *)
LEMMA GateRun ==
  ASSUME IInv, NEW c \in Caller, RunTool(c)
  PROVE  Gate!Run(c)
<1> USE DEF IInv, TypeOK
<1>1. /\ \A x \in Caller \ {c} : pc'[x] = pc[x] /\ req'[x] = req[x]
      /\ pc'[c] = "idle" /\ req'[c] = NoRequest
      /\ UNCHANGED <<mission, sessionBaseline, toolsUsed>>
      /\ pc[c] = "run"
      BY DEF RunTool
<1>2. GateCall[c].state = "granted" /\ GateCall[c].names = ToolOf(req[c].act)
      /\ GateCall[c].how = req[c].use /\ GateCall[c].consent = req[c].human
      BY <1>1 DEF GateCall
<1>3. req[c].act.tool \in ToolOf(req[c].act)
      BY <1>1 DEF BridgedNamesTool
<1>4. SessionLocal => ~policy.network
  <2>1. mission # NoContract /\ policy = PolicyFromMission(mission)
        BY <1>1 DEF SessionInStep
  <2>2. SessionLocal => mission.local
        BY DEF SessionLocal, MissionKeepsBaseline, KeepsRestrictions
  <2>3. QED BY <2>1, <2>2 DEF PolicyFromMission
<1> DEFINE e == ExecutionOf(req[c])
<1>5. /\ e = [ tool |-> req[c].act.tool, sandboxed |-> req[c].use = "guarded",
               network |-> e.network, human |-> req[c].human ]
      /\ e.network = (req[c].use # "guarded" \/ policy.network)
      /\ executed' = executed \cup {e}
      BY DEF ExecutionOf, RunTool
<1>6. e.network \in BOOLEAN /\ (SessionLocal /\ req[c].use = "guarded" => ~e.network)
      BY <1>4, <1>5
<1> HIDE DEF e
<1>7. GateCall'[c] = Gate!Over
      BY <1>1, OverIsForgotten
<1>8. UNCHANGED <<mission, SessionLocal>>
      BY <1>1 DEF SessionLocal
<1>9. \E t \in GateCall[c].names, network \in BOOLEAN :
        /\ SessionLocal /\ GateCall[c].how = "guarded" => ~network
        /\ executed' = executed \cup {[ tool |-> t, sandboxed |-> GateCall[c].how = "guarded",
                                        network |-> network, human |-> GateCall[c].consent ]}
      BY <1>2, <1>3, <1>5, <1>6, ZenonT(30)
<1>10. GateCall' = [GateCall EXCEPT ![c] = Gate!Over]
       BY <1>1, <1>7, OneCallChanges
<1>11. QED BY <1>1, <1>2, <1>8, <1>9, <1>10 DEF Gate!Run, Gate!Becomes

(* The steps of a call, one by one.                                        *)
LEMMA GateStep ==
  ASSUME IInv, NEW c \in Caller, Step(c)
  PROVE  \/ Gate!Consider(c) \/ Gate!Grant(c) \/ Gate!Run(c) \/ Gate!Report(c)
         \/ UNCHANGED Gate!gatevars
<1> USE DEF IInv, TypeOK
<1>1. CASE JudgeAction(c)
  <2>1. GateCall' = GateCall
    <3>1. \A x \in Caller : /\ GateState(pc'[x]) = GateState(pc[x]) /\ req'[x].act = req[x].act
                            /\ req'[x].use = req[x].use /\ req'[x].human = req[x].human
          BY <1>1 DEF JudgeAction, Request
    <3>2. QED BY <3>1, CallsUnseen
  <2>2. QED BY <1>1, <2>1 DEF JudgeAction, Gate!gatevars, SessionLocal
<1>2. CASE ApproveAction(c)
  <2>1. PICK d \in Decisions(req[c].verdict, req[c].act, mission, WarnPolicy, Interactive) :
          /\ req' = [req EXCEPT ![c].human = d.human]
          /\ pc' = [pc EXCEPT ![c] = IF d.verdict = "BLOCK" THEN "denied" ELSE "chain"]
        BY <1>2 DEF ApproveAction
  <2>2. d.human \in BOOLEAN
        BY <2>1, DecisionType, RuntimeAssumption DEF Decision
  <2>3. GateCall'[c] = [ state |-> IF d.verdict = "BLOCK" THEN "refused" ELSE "asked",
                         names |-> ToolOf(req[c].act), how |-> req[c].use, consent |-> d.human ]
    <3>1. req'[c].act = req[c].act /\ req'[c].use = req[c].use /\ req'[c].human = d.human
          BY <2>1 DEF Request
    <3>2. GateState(pc'[c]) = IF d.verdict = "BLOCK" THEN "refused" ELSE "asked"
          BY <2>1
    <3>3. QED BY <3>1, <3>2 DEF GateCall
  <2>4. /\ GateCall[c].state = "asked" /\ GateCall[c].names = ToolOf(req[c].act)
        /\ GateCall[c].how = req[c].use
        BY <1>2 DEF ApproveAction, GateCall
  <2>5. GateCall' = [GateCall EXCEPT ![c] = GateCall'[c]]
        BY <2>1, OneCallChanges
  <2>6. UNCHANGED <<mission, SessionLocal, toolsUsed, executed>>
        BY <1>2 DEF ApproveAction, SessionLocal
  <2>7. Gate!Consider(c)
    <3>1. CASE d.verdict = "BLOCK"
          BY <2>2, <2>3, <2>4, <2>5, <2>6, <3>1 DEF Gate!Consider, Gate!Becomes
    <3>2. CASE d.verdict # "BLOCK"
          BY <2>2, <2>3, <2>4, <2>5, <2>6, <3>2 DEF Gate!Consider, Gate!Becomes
    <3>3. QED BY <3>1, <3>2
  <2>8. QED BY <2>7
<1>3. CASE CheckChain(c)
  <2>1. CASE Grant(c)
        BY <1>3, <2>1, GateGrant DEF CheckChain
  <2>2. CASE ~Grant(c)
    <3>1. /\ \A x \in Caller : /\ GateState(pc'[x]) = GateState(pc[x]) /\ req'[x].act = req[x].act
                               /\ req'[x].use = req[x].use /\ req'[x].human = req[x].human
          /\ UNCHANGED <<missionVars, toolsUsed, executed>>
          BY <1>3, <2>2 DEF CheckChain, Request
    <3>2. GateCall' = GateCall BY <3>1, CallsUnseen
    <3>3. QED BY <3>1, <3>2 DEF Gate!gatevars, SessionLocal
  <2>3. QED BY <2>1, <2>2
<1>4. CASE ApproveChain(c)
  <2>1. CASE Grant(c)
        BY <1>4, <2>1, GateGrant DEF ApproveChain
  <2>2. CASE ~Grant(c)
    <3>1. /\ pc[c] = "chainApprove" /\ pc' = [pc EXCEPT ![c] = "denied"] /\ UNCHANGED req
          /\ UNCHANGED <<missionVars, toolsUsed, executed>>
          BY <1>4, <2>2 DEF ApproveChain
    <3>2. /\ GateCall'[c] = [ state |-> "refused", names |-> ToolOf(req[c].act), how |-> req[c].use,
                              consent |-> req[c].human ]
          /\ GateCall[c].state = "asked" /\ GateCall[c].names = ToolOf(req[c].act)
          /\ GateCall[c].how = req[c].use
          BY <3>1 DEF GateCall
    <3>3. req[c].human \in BOOLEAN
          BY DEF Request
    <3>4. GateCall' = [GateCall EXCEPT ![c] = GateCall'[c]]
          BY <3>1, OneCallChanges
    <3>5. Gate!Consider(c)
          BY <3>1, <3>2, <3>3, <3>4 DEF Gate!Consider, Gate!Becomes, SessionLocal
    <3>6. QED BY <3>5
  <2>3. QED BY <2>1, <2>2
<1>5. CASE RunTool(c)
      BY <1>5, GateRun
<1>6. CASE ReportDenial(c)
  <2>1. /\ \A x \in Caller \ {c} : pc'[x] = pc[x] /\ req'[x] = req[x]
        /\ pc'[c] = "idle" /\ req'[c] = NoRequest /\ pc[c] = "denied"
        /\ UNCHANGED <<missionVars, toolsUsed, executed>>
        BY <1>6 DEF ReportDenial
  <2>2. GateCall[c].state = "refused" BY <2>1 DEF GateCall
  <2>3. GateCall'[c] = Gate!Over BY <2>1, OverIsForgotten
  <2>4. QED BY <2>1, <2>2, <2>3, OneCallChanges DEF Gate!Report, Gate!Becomes, SessionLocal
<1>7. QED BY <1>1, <1>2, <1>3, <1>4, <1>5, <1>6 DEF Step

LEMMA GateNext == ~Reinit /\ IInv /\ [Next]_vars => [Gate!Next]_(Gate!gatevars)
<1> SUFFICES ASSUME ~Reinit, IInv, [Next]_vars PROVE [Gate!Next]_(Gate!gatevars)
    OBVIOUS
<1>1. ASSUME NEW c \in Caller, Mission(c) PROVE [Gate!Next]_(Gate!gatevars)
      BY <1>1, GateMission DEF Mission, Gate!Next
<1>2. ASSUME NEW c \in Caller, Ask(c) PROVE [Gate!Next]_(Gate!gatevars)
      BY <1>2, GateAsk DEF Gate!Next
<1>3. ASSUME NEW c \in Caller, Step(c) PROVE [Gate!Next]_(Gate!gatevars)
      BY <1>3, GateStep DEF Gate!Next
<1>4. CASE UNCHANGED vars
      BY <1>4 DEF vars, Gate!gatevars, GateCall, SessionLocal
<1>5. QED BY <1>1, <1>2, <1>3, <1>4 DEF Next

(* With a session that is initialised once, whatever callers, refreshes    *)
(* and guards do between one another's steps, tools are asked for, granted *)
(* or refused, and run as ToolGate says: once, only after a grant of that  *)
(* call, and with consent where the session is local.                      *)
THEOREM RuntimeImplementsGate == ASSUME ~Reinit PROVE Spec => ImplementsToolGate
<1>1. IInv /\ [Next]_vars => IInv' BY IInvNext
<1>2. IInv /\ [Next]_vars => [Gate!Next]_(Gate!gatevars) BY GateNext
<1>3. QED BY <1>1, <1>2, IInvInit, GateInit, PTL DEF Spec, ImplementsToolGate, Gate!Spec

-----------------------------------------------------------------------------
(***************************************************************************)
(* Memory and denials.                                                     *)
(***************************************************************************)

(* A review of a memory event is a human's, unless warnings let it pass.   *)
LEMMA HeldReviewNeedsHuman ==
  ASSUME Interactive \/ WarnPolicy = "strict", NEW m, NEW v \in {"REVIEW", "BLOCK"},
         NEW d \in Decisions(v, NoAction, m, WarnPolicy, Interactive), d.verdict # "BLOCK"
  PROVE  d.human = TRUE
<1>1. d \in RequestApproval(Interactive)
  <2>1. CASE v = "BLOCK"
        BY <2>1 DEF Decisions
  <2>2. CASE v = "REVIEW"
    <3>1. ~AutoAllowReview(NoAction, m, WarnPolicy) BY DEF AutoAllowReview
    <3>2. ~(~Interactive /\ WarnPolicy = "permissive" /\ NoAction = NoAction)
          OBVIOUS
    <3>3. QED BY <2>2, <3>1, <3>2 DEF Decisions
  <2>3. QED BY <2>1, <2>2
<1>2. CASE Interactive
      BY <1>1, <1>2 DEF RequestApproval
<1>3. CASE ~Interactive
  <2>1. d = [verdict |-> "BLOCK", human |-> FALSE]
        BY <1>1, <1>3 DEF RequestApproval, Automatic
  <2>2. QED BY <2>1
<1>4. QED BY <1>2, <1>3

(* What is remembered without consent, in a session of LOW tolerance.      *)
LEMMA LowRemembers ==
  ASSUME Interactive \/ WarnPolicy = "strict", NEW e \in MemoryEvent, mission.tolerance = "LOW",
         NEW d \in MemoryDecisions(e), Remember(e, d), remembered \subseteq {"session"}
  PROVE  remembered' \subseteq {"session"}
<1>1. CASE e.op = "write" /\ d.verdict # "BLOCK" /\ ~d.human
  <2>1. MemoryVerdict(e, mission) \notin {"REVIEW", "BLOCK"}
        BY <1>1, HeldReviewNeedsHuman DEF MemoryDecisions
  <2>2. e.scope = "session"
        BY <1>1, <2>1 DEF MemoryVerdict
  <2>3. QED BY <1>1, <2>2 DEF Remember
<1>2. CASE ~(e.op = "write" /\ d.verdict # "BLOCK" /\ ~d.human)
  <2>1. remembered' = remembered BY <1>2 DEF Remember
  <2>2. QED BY <2>1
<1>3. QED BY <1>1, <1>2

(* Nothing is remembered before there is a mission.                        *)
MemoryInv ==
  /\ LowToleranceKeepsToSession
  /\ mission = NoContract => remembered = {}

LEMMA MemoryNext ==
  ASSUME Interactive \/ WarnPolicy = "strict"
  PROVE  SessionInv /\ MemoryInv /\ [Next]_vars => MemoryInv'
<1> SUFFICES ASSUME SessionInv, MemoryInv, [Next]_vars PROVE MemoryInv'
    OBVIOUS
<1> USE DEF SessionInv
<1>1. ASSUME NEW c \in Caller, Mission(c) PROVE MemoryInv'
  <2>1. PICK p \in Prompts, ctx \in Contexts : InitializeMission(c, p, ctx) \/ RefreshMissionPhase(c, p, ctx)
        BY <1>1 DEF Mission
  <2>2. mission' # NoContract
    <3>1. SessionInv' BY <2>1, SessionMission
    <3>2. p \in Prompt /\ ctx \in Context BY RuntimeAssumption
    <3>3. CASE InitializeMission(c, p, ctx)
          BY <3>2, <3>3, CompileType, NoContractAssumption DEF InitializeMission
    <3>4. CASE RefreshMissionPhase(c, p, ctx)
      <4>1. PhaseContract(p, ctx) \in Contract BY PhaseType
      <4>2. sessionBaseline' # NoContract
            BY <3>4, <4>1, NoContractAssumption DEF RefreshMissionPhase
      <4>3. QED BY <3>1, <4>2 DEF SessionInStep
    <3>5. QED BY <2>1, <3>3, <3>4
  <2>3. \/ remembered' = {}
        \/ UNCHANGED <<remembered, sessionBaseline>>
        BY <2>1 DEF InitializeMission, RefreshMissionPhase, MemoryInv, SessionInStep
  <2>4. QED BY <2>2, <2>3 DEF MemoryInv, LowToleranceKeepsToSession
<1>2. ASSUME NEW c \in Caller, NEW e \in MemoryEvents, NEW d \in MemoryDecisions(e),
             Remember(e, d), mission # NoContract, UNCHANGED missionVars
      PROVE  MemoryInv'
  <2>1. sessionBaseline # NoContract /\ mission.tolerance = sessionBaseline.tolerance
        BY <1>2 DEF SessionInStep, MissionKeepsBaseline, KeepsRestrictions
  <2>2. e \in MemoryEvent BY RuntimeAssumption
  <2>3. sessionBaseline.tolerance = "LOW" => remembered' \subseteq {"session"}
        BY <1>2, <2>1, <2>2, LowRemembers DEF MemoryInv, LowToleranceKeepsToSession
  <2>4. QED BY <1>2, <2>1, <2>3 DEF MemoryInv, LowToleranceKeepsToSession
<1>3. ASSUME NEW c \in Caller, Ask(c) PROVE MemoryInv'
  <2>1. CASE \E e \in MemoryEvents : MemoryRequest(c, e)
        BY <1>2, <2>1 DEF MemoryRequest
  <2>2. CASE \E o \in Outputs, required \in SUBSET Required, e \in MemoryEvents : GovernStepOutput(c, e, o, required)
        BY <1>2, <2>2 DEF GovernStepOutput
  <2>3. CASE UNCHANGED <<mission, sessionBaseline, remembered>>
        BY <2>3 DEF MemoryInv, LowToleranceKeepsToSession
  <2>4. QED BY <1>3, <2>1, <2>2, <2>3 DEF Ask, RefuseWithoutMission, SubmitAction, EvaluatePlan
<1>4. ASSUME NEW c \in Caller, Step(c) PROVE MemoryInv'
  <2>1. UNCHANGED <<mission, sessionBaseline, remembered>>
        BY <1>4 DEF Step, JudgeAction, ApproveAction, CheckChain, ApproveChain, RunTool, ReportDenial
  <2>2. QED BY <2>1 DEF MemoryInv, LowToleranceKeepsToSession
<1>5. CASE UNCHANGED vars
      BY <1>5 DEF vars, MemoryInv, LowToleranceKeepsToSession
<1>6. QED BY <1>1, <1>3, <1>4, <1>5 DEF Next

(* Where reviews go to a human or are refused, a session whose baseline    *)
(* tolerates LOW risk only writes to a persistent memory scope with a      *)
(* human's consent only, whatever phases say of risk and of scopes, with   *)
(* any number of callers and of initialisations.                           *)
THEOREM LowRiskMemory ==
  ASSUME Interactive \/ WarnPolicy = "strict" PROVE Spec => []LowToleranceKeepsToSession
<1>1. Init => SessionInv /\ MemoryInv
      BY SessionInit DEF Init, MemoryInv, LowToleranceKeepsToSession
<1>2. SessionInv /\ MemoryInv /\ [Next]_vars => (SessionInv /\ MemoryInv)'
      BY SessionNext, MemoryNext
<1>3. MemoryInv => LowToleranceKeepsToSession BY DEF MemoryInv
<1>4. QED BY <1>1, <1>2, <1>3, PTL DEF Spec

LEMMA DenialNext ==
  ASSUME \A b, c \in Caller : b = c
  PROVE  TypeOK /\ DenialQuotesItsBlock /\ [Next]_vars => DenialQuotesItsBlock'
<1> SUFFICES ASSUME TypeOK, DenialQuotesItsBlock, [Next]_vars, NEW c \in Caller,
                    pc'[c] = "denied", mission' # NoContract
             PROVE  lastApproval' = [by |-> c, verdict |-> "BLOCK"]
    BY DEF DenialQuotesItsBlock
<1> USE DEF TypeOK
<1>1. CASE Mission(c)
      BY <1>1 DEF Mission, InitializeMission, RefreshMissionPhase
<1>2. CASE Ask(c)
      BY <1>2 DEF Ask, RefuseWithoutMission, SubmitAction, MemoryRequest, EvaluatePlan, GovernStepOutput
<1>3. CASE ApproveAction(c) \/ ApproveChain(c)
      BY <1>3 DEF ApproveAction, ApproveChain, Grant
<1>4. CASE JudgeAction(c) \/ CheckChain(c) \/ RunTool(c) \/ ReportDenial(c)
      BY <1>4 DEF JudgeAction, CheckChain, RunTool, ReportDenial, Grant
<1>5. CASE UNCHANGED vars
      BY <1>5 DEF vars, DenialQuotesItsBlock
<1>6. QED BY <1>1, <1>2, <1>3, <1>4, <1>5 DEF Next, Step

(* With one caller the message of a denial quotes the verdict that refused *)
(* that call, though it reads whatever approval was recorded last.         *)
THEOREM DenialsQuoteTheirBlock ==
  ASSUME \A b, c \in Caller : b = c PROVE Spec => []DenialQuotesItsBlock
<1>1. Init => TypeOK /\ DenialQuotesItsBlock
      BY InitTypeOK DEF Init, DenialQuotesItsBlock
<1>2. DenialQuotesItsBlock /\ TypeOK /\ [Next]_vars => DenialQuotesItsBlock'
      BY DenialNext
<1>3. QED BY <1>1, <1>2, TypeCorrectness, PTL DEF Spec

-----------------------------------------------------------------------------
(***************************************************************************)
(* One caller, no human: the chain guard's rules about what was asked hold *)
(* of what runs.                                                           *)
(***************************************************************************)

(* What may stand for a tool in an action.                                 *)
Named == Tool \cup {NoTool}

LEMMA NamesOfAction ==
  ASSUME NEW a
  PROVE  /\ a \in Action => NamedBy(a) \in Seq(Named)
         /\ Len(NamedBy(a)) <= 1
<1>1. CASE IsToolCall(a)
  <2>1. NamedBy(a) = <<a.tool>>
    BY <1>1 DEF NamedBy
  <2>2. Len(NamedBy(a)) = 1
    BY <2>1
  <2>3. a \in Action => a.tool \in Named
    BY DEF Action, Named
  <2>. QED BY <2>1, <2>2, <2>3
<1>2. CASE ~IsToolCall(a)
  <2>1. NamedBy(a) = <<>>
    BY <1>2 DEF NamedBy
  <2>. QED BY <2>1
<1>. QED BY <1>1, <1>2

(* The names of a history are no more than its actions.                    *)
LEMMA NamesOfHistory ==
  ASSUME NEW h \in Seq(Action)
  PROVE  ToolNames(h) \in Seq(Named) /\ Len(ToolNames(h)) <= Len(h)
<1>. DEFINE s == [i \in DOMAIN h |-> NamedBy(h[i])]
<1>1. PICK n \in Nat : n = Len(h) /\ DOMAIN h = 1..n
  OBVIOUS
<1>2. \A i \in 1..n : NamedBy(h[i]) \in Seq(Named) /\ Len(NamedBy(h[i])) <= 1
  BY <1>1, NamesOfAction
<1>3. s = [i \in 1..n |-> NamedBy(h[i])]
  BY <1>1
<1>4. s \in Seq(Seq(Named)) /\ Len(s) = n /\ \A i \in 1..n : s[i] = NamedBy(h[i])
  BY <1>2, <1>3
<1>. HIDE DEF s
<1>5. \A i \in 1..Len(s) : Len(s[i]) <= 1
  BY <1>2, <1>4
<1>6. FlattenSeq(s) \in Seq(Named)
  BY <1>4, FlatType
<1>7. Len(FlattenSeq(s)) <= 1 * Len(s)
  BY <1>4, <1>5, FlatMembers
<1>. QED BY <1>1, <1>4, <1>6, <1>7 DEF s, ToolNames

(* One more action brings at most one more name.                           *)
LEMMA NamesAppended ==
  ASSUME NEW h \in Seq(Action), NEW a \in Action
  PROVE  ToolNames(Append(h, a)) = ToolNames(h) \o NamedBy(a)
<1>. DEFINE s == [i \in DOMAIN h |-> NamedBy(h[i])]
            t == [i \in DOMAIN Append(h, a) |-> NamedBy(Append(h, a)[i])]
<1>1. PICK n \in Nat : n = Len(h) /\ DOMAIN h = 1..n
  OBVIOUS
<1>2. /\ DOMAIN Append(h, a) = 1..(n + 1) /\ Append(h, a)[n + 1] = a
      /\ \A i \in 1..n : Append(h, a)[i] = h[i] /\ h[i] \in Action
  BY <1>1
<1>3. s = [i \in 1..n |-> NamedBy(h[i])] /\ t = [i \in 1..(n + 1) |-> NamedBy(Append(h, a)[i])]
  BY <1>1, <1>2
<1>4. s \in Seq(Seq(Named)) /\ Len(s) = n /\ \A i \in 1..n : s[i] = NamedBy(h[i])
  BY <1>2, <1>3, NamesOfAction
<1>5. t \in Seq(Seq(Named)) /\ Len(t) = n + 1 /\ \A i \in 1..(n + 1) : t[i] = IF i = n + 1 THEN NamedBy(a) ELSE NamedBy(h[i])
  <2>1. \A i \in 1..(n + 1) : NamedBy(Append(h, a)[i]) \in Seq(Named)
    BY <1>2, NamesOfAction
  <2>. QED BY <1>2, <1>3, <2>1
<1>. HIDE DEF s, t
<1>6. FlattenSeq(t) = FlattenSeq(s) \o NamedBy(a)
  <2>1. /\ NamedBy(a) \in Seq(Named) /\ Len(t) = Len(s) + 1 /\ t[Len(t)] = NamedBy(a)
        /\ \A i \in 1..Len(s) : t[i] = s[i]
    BY <1>1, <1>4, <1>5, NamesOfAction
  <2>2. \A p \in Seq(Seq(Named)) : \A q \in Seq(Seq(Named)) : \A x \in Seq(Named) :
          Len(q) = Len(p) + 1 /\ q[Len(q)] = x /\ (\A i \in 1..Len(p) : q[i] = p[i])
            => FlattenSeq(q) = FlattenSeq(p) \o x
    BY FlatOneMore
  <2>. QED BY <1>4, <1>5, <2>1, <2>2
<1>. QED BY <1>6 DEF s, t, ToolNames

(* What the chain guard makes of an anomaly, and what it means that it     *)
(* lets a chain pass.                                                      *)
LEMMA ChainRules ==
  ASSUME NEW h \in Seq(Action), NEW m
  PROVE  /\ AnomalyIn(ToolNames(h)) /\ m.tolerance \notin {"HIGH", "CRITICAL"} => ChainVerdict(h, m) = "BLOCK"
         /\ ChainVerdict(h, m) = "ALLOW" /\ Len(ToolNames(h)) >= 2 => ~CapabilityChain(ToolNames(h), m)
<1>. DEFINE names == ToolNames(h)
            rarity == SequenceRarity(names)
            few == Len(h) < 2 \/ Len(names) < 2
            tolerant == m.tolerance \in {"HIGH", "CRITICAL"}
            chained == CapabilityChain(names, m) \/ LocalChain(names, m)
<1>1. Len(names) \in Nat /\ Len(h) \in Nat /\ Len(names) <= Len(h)
  BY NamesOfHistory
<1>2. few <=> Len(names) < 2
  BY <1>1
<1>3. AnomalyIn(names) => Len(names) >= 2 /\ rarity = "BLOCK"
  <2>. SUFFICES ASSUME AnomalyIn(names) PROVE Len(names) >= 2 /\ rarity = "BLOCK"
    OBVIOUS
  <2>1. PICK i \in 1..(Len(names) - 1) : Rarity[<<Category[names[i]], Category[names[i + 1]]>>] = "BLOCK"
    BY DEF AnomalyIn
  <2>2. Len(names) >= 2
    BY <1>1, <2>1
  <2>. HIDE DEF names
  <2>3. rarity = "BLOCK"
    BY <2>1 DEF SequenceRarity
  <2>. QED BY <2>2, <2>3
<1>4. ChainVerdict(h, m) =
        CASE few -> "ALLOW"
          [] Len(names) >= 2 /\ rarity = "BLOCK" -> IF tolerant THEN "REVIEW" ELSE "BLOCK"
          [] Len(names) >= 2 /\ rarity = "REVIEW" -> "REVIEW"
          [] OTHER -> IF chained THEN "BLOCK" ELSE "ALLOW"
  BY DEF ChainVerdict
<1>5. Len(names) >= 2 <=> ~(Len(names) < 2)
  BY <1>1
<1>. DEFINE big == Len(names) >= 2
<1>7. ChainVerdict(h, m) =
        CASE ~big -> "ALLOW"
          [] big /\ rarity = "BLOCK" -> IF tolerant THEN "REVIEW" ELSE "BLOCK"
          [] big /\ rarity = "REVIEW" -> "REVIEW"
          [] OTHER -> IF chained THEN "BLOCK" ELSE "ALLOW"
  <2>1. few <=> ~(Len(names) >= 2)
    BY <1>2, <1>5
  <2>. HIDE DEF few, rarity, chained, tolerant, names
  <2>. QED BY <1>4, <2>1
<1>. HIDE DEF few, rarity, chained, tolerant, big
<1>8. big /\ rarity = "BLOCK" /\ ~tolerant => ChainVerdict(h, m) = "BLOCK"
  BY <1>7
<1>9. big /\ ChainVerdict(h, m) = "ALLOW" => ~chained
  BY <1>7
<1>. QED BY <1>3, <1>8, <1>9 DEF tolerant, chained, big

(* One caller and no human: what lies between a request and its tool, and  *)
(* that what ran is in the history.                                        *)
Bridged(c) == pc[c] \in {"judge", "approve", "chain", "chainApprove", "run"} /\ req[c].use \in {"guarded", "async"}
InHistory ==
  /\ \A e \in executed : e.tool \in ToSet(ToolNames(actions))
  /\ \A c \in Caller : Bridged(c) =>
       /\ ToolNames(actions) # <<>> /\ ToolNames(actions)[Len(ToolNames(actions))] = req[c].act.tool
       /\ \A e \in executed : e.tool \in Earlier(ToolNames(actions))
Passed ==
  \A c \in Caller :
    /\ pc[c] = "approve" => req[c].verdict = ActionVerdict(req[c].act, mission)
    /\ pc[c] \in {"chain", "chainApprove", "run"} => ActionVerdict(req[c].act, mission) # "BLOCK"
    /\ pc[c] = "chainApprove" => req[c].verdict = ChainVerdict(actions, mission) /\ req[c].verdict \in {"BLOCK", "REVIEW"}
    /\ pc[c] = "run" => \/ ChainVerdict(actions, mission) = "ALLOW"
                        \/ ChainVerdict(actions, mission) = "REVIEW" /\ mission.local /\ req[c].act.type = "tool_call"
AloneInv == InHistory /\ Passed

(* A name appended is the last, and all that was there came earlier.       *)
LEMMA LastAndEarlier ==
  ASSUME NEW names \in Seq(Named), NEW t \in Named
  PROVE  /\ names \o <<t>> # <<>>
         /\ (names \o <<t>>)[Len(names \o <<t>>)] = t
         /\ ToSet(names) \subseteq Earlier(names \o <<t>>)
<1>1. /\ <<t>> \in Seq(Named) /\ Len(<<t>>) = 1 /\ <<t>>[1] = t
  OBVIOUS
<1>2. /\ Len(names \o <<t>>) = Len(names) + 1
      /\ \A i \in 1..(Len(names) + 1) : (names \o <<t>>)[i] = IF i <= Len(names) THEN names[i] ELSE t
  BY <1>1, ConcatProperties
<1>3. Len(names) \in Nat /\ DOMAIN names = 1..Len(names)
  OBVIOUS
<1>. DEFINE more == names \o <<t>>
<1>. HIDE DEF more
<1>4. Len(more) = Len(names) + 1 /\ \A i \in 1..(Len(names) + 1) : more[i] = IF i <= Len(names) THEN names[i] ELSE t
  BY <1>2 DEF more
<1>5. more # <<>> /\ more[Len(more)] = t
  BY <1>3, <1>4
<1>6. ASSUME NEW x \in ToSet(names) PROVE x \in Earlier(more)
  <2>1. PICK i \in 1..Len(names) : names[i] = x
    BY <1>3 DEF ToSet
  <2>2. i \in 1..(Len(more) - 1) /\ more[i] = x
    BY <1>3, <1>4, <2>1
  <2>. QED BY <2>2 DEF Earlier
<1>. QED BY <1>5, <1>6 DEF more

(* Nobody lifts a BLOCK; a REVIEW is lifted in a local session only.       *)
LEMMA AloneDecisions ==
  ASSUME NEW v \in {"REVIEW", "BLOCK"}, NEW a \in Action, NEW m,
         NEW d \in Decisions(v, a, m, WarnPolicy, FALSE), d.verdict # "BLOCK"
  PROVE  v = "REVIEW" /\ m.local /\ a.type = "tool_call"
<1>1. a # NoAction
  BY NoActionAssumption
<1>2. RequestApproval(FALSE) = {Automatic("BLOCK")} /\ Automatic("BLOCK").verdict = "BLOCK"
  BY DEF RequestApproval, Automatic
<1>3. d \notin RequestApproval(FALSE)
  BY <1>2
<1>4. v = "REVIEW" /\ AutoAllowReview(a, m, WarnPolicy)
  BY <1>1, <1>3 DEF Decisions
<1>. QED BY <1>4 DEF AutoAllowReview

LEMMA AloneInit == Init => AloneInv
BY DEF Init, AloneInv, InHistory, Passed, Bridged

(* Asking: the one who asks has no other call under way.                   *)
LEMMA AloneSubmit ==
  ASSUME SessionInv, AloneInv, \A b, x \in Caller : b = x,
         NEW c \in Caller, NEW a \in Requests, NEW use \in Uses, SubmitAction(c, a, use)
  PROVE  AloneInv'
<1>1. /\ pc'[c] = "judge" /\ req'[c].act = a /\ req'[c].use = use /\ executed' = executed
  <2>1. pc \in [Caller -> Label] /\ req \in [Caller -> Request]
    BY DEF SessionInv, TypeOK
  <2>. QED BY <2>1 DEF SubmitAction, NoRequest
<1>2. \A x \in Caller : x = c
  OBVIOUS
<1>3. Passed'
  BY <1>1, <1>2 DEF Passed
<1>4. a \in Action /\ actions \in Seq(Action)
  BY RuntimeAssumption DEF SessionInv, TypeOK
<1>5. \A e \in executed : e.tool \in ToSet(ToolNames(actions))
  BY DEF AloneInv, InHistory
<1>6. CASE use = "preview"
  <2>1. actions' = actions /\ \A x \in Caller : ~Bridged(x)'
    BY <1>1, <1>2, <1>6 DEF SubmitAction, Bridged
  <2>2. InHistory'
    BY <1>1, <1>5, <2>1 DEF InHistory
  <2>. QED BY <1>3, <2>2 DEF AloneInv
<1>7. CASE use # "preview"
  <2>1. actions' = Append(actions, a)
    BY <1>7 DEF SubmitAction
  <2>2. ToolNames(actions') = ToolNames(actions) \o NamedBy(a)
    BY <1>4, <2>1, NamesAppended
  <2>3. ToolNames(actions) \in Seq(Named) /\ NamedBy(a) \in Seq(Named)
    BY <1>4, NamesOfHistory, NamesOfAction
  <2>4. \A y : y \in ToSet(ToolNames(actions)) => y \in ToSet(ToolNames(actions'))
    BY <2>2, <2>3, JoinedMembers
  <2>5. ASSUME Bridged(c)'
        PROVE  /\ ToolNames(actions') # <<>> /\ ToolNames(actions')[Len(ToolNames(actions'))] = a.tool
               /\ ToSet(ToolNames(actions)) \subseteq Earlier(ToolNames(actions'))
    <3>1. a.type = "tool_call" /\ a.tool \in Tool
      BY <1>1, <2>5 DEF Bridged, SubmitAction, Admissible
    <3>2. NamedBy(a) = <<a.tool>> /\ a.tool \in Named
      BY <3>1, GuardAssumption DEF NamedBy, IsToolCall, Named
    <3>. QED BY <2>2, <2>3, <3>2, LastAndEarlier
  <2>6. InHistory'
    BY <1>1, <1>2, <1>5, <2>4, <2>5 DEF InHistory
  <2>. QED BY <1>3, <2>6 DEF AloneInv
<1>. QED BY <1>6, <1>7

(* A call under way brings nothing into the history but its tool.          *)
LEMMA AloneHistory ==
  ASSUME SessionInv, InHistory, \A b, x \in Caller : b = x, NEW c \in Caller, Step(c)
  PROVE  InHistory'
<1>1. pc \in [Caller -> Label] /\ req \in [Caller -> Request] /\ actions \in Seq(Action)
  BY DEF SessionInv, TypeOK
<1>2. actions' = actions
  BY DEF Step, JudgeAction, ApproveAction, CheckChain, ApproveChain, RunTool, ReportDenial
<1>3. \A x \in Caller : x = c
  OBVIOUS
<1>4. CASE RunTool(c)
  <2>. DEFINE e == ExecutionOf(req[c])
              names == ToolNames(actions)
  <2>1. executed' = executed \cup {e} /\ e.tool = req[c].act.tool
    BY <1>4 DEF RunTool, ExecutionOf
  <2>2. Bridged(c)
    BY <1>4 DEF RunTool, Bridged, SessionInv, BridgedNamesTool
  <2>. HIDE DEF e
  <2>3. names # <<>> /\ names[Len(names)] = e.tool
    BY <2>1, <2>2 DEF InHistory
  <2>4. names \in Seq(Named)
    BY <1>1, NamesOfHistory
  <2>. HIDE DEF names
  <2>5. e.tool \in ToSet(names)
    BY <2>3, <2>4 DEF ToSet
  <2>6. pc'[c] = "idle"
    BY <1>1, <1>4 DEF RunTool
  <2>7. \A x \in Caller : ~Bridged(x)'
    BY <1>3, <2>6 DEF Bridged
  <2>8. \A x \in executed' : x.tool \in ToSet(ToolNames(actions'))
    BY <1>2, <2>1, <2>5 DEF InHistory, names
  <2>. QED BY <2>7, <2>8 DEF InHistory
<1>5. CASE ~RunTool(c)
  <2>1. executed' = executed
    BY <1>5 DEF Step, JudgeAction, ApproveAction, CheckChain, ApproveChain, ReportDenial
  <2>2. Bridged(c)' => Bridged(c) /\ req'[c].act = req[c].act
    <3>1. CASE JudgeAction(c) \/ ApproveAction(c)
      BY <1>1, <3>1 DEF JudgeAction, ApproveAction, Bridged, Request
    <3>2. CASE CheckChain(c) \/ ApproveChain(c)
      BY <1>1, <3>2 DEF CheckChain, ApproveChain, Grant, Bridged, Request
    <3>3. CASE ReportDenial(c)
      BY <1>1, <3>3 DEF ReportDenial, Bridged
    <3>. QED BY <1>5, <3>1, <3>2, <3>3 DEF Step
  <2>. QED BY <1>2, <1>3, <2>1, <2>2 DEF InHistory
<1>. QED BY <1>4, <1>5

(* A call under way passes the guards in turn.                             *)
LEMMA AlonePasses ==
  ASSUME SessionInv, Passed, ~Interactive, \A b, x \in Caller : b = x, NEW c \in Caller, Step(c)
  PROVE  Passed'
<1>1. pc \in [Caller -> Label] /\ req \in [Caller -> Request]
  BY DEF SessionInv, TypeOK
<1>2. actions' = actions /\ mission' = mission
  BY DEF Step, JudgeAction, ApproveAction, CheckChain, ApproveChain, RunTool, ReportDenial
<1>3. \A x \in Caller : x = c
  OBVIOUS
<1>4. Interactive = FALSE
  BY RuntimeAssumption
<1>5. req[c].act \in Action
  BY <1>1 DEF Request
<1>6. CASE JudgeAction(c)
  <2>1. pc'[c] = "approve" /\ req'[c].act = req[c].act /\ req'[c].verdict = ActionVerdict(req[c].act, mission)
    BY <1>1, <1>6 DEF JudgeAction, Request
  <2>. QED BY <1>2, <1>3, <2>1 DEF Passed
<1>7. CASE ApproveAction(c)
  <2>1. PICK d \in Decisions(req[c].verdict, req[c].act, mission, WarnPolicy, Interactive) :
          /\ pc'[c] = IF d.verdict = "BLOCK" THEN "denied" ELSE "chain"
          /\ req'[c].act = req[c].act
    BY <1>1, <1>7 DEF ApproveAction, Request
  <2>2. req[c].verdict = ActionVerdict(req[c].act, mission)
    BY <1>7 DEF Passed, ApproveAction
  <2>3. d.verdict # "BLOCK" => ActionVerdict(req[c].act, mission) # "BLOCK"
    BY <1>4, <1>5, <2>1, <2>2, AloneDecisions
  <2>. QED BY <1>2, <1>3, <2>1, <2>3 DEF Passed
<1>8. CASE CheckChain(c)
  <2>1. ActionVerdict(req[c].act, mission) # "BLOCK"
    BY <1>8 DEF Passed, CheckChain
  <2>2. \/ /\ ChainVerdict(actions, mission) \in {"BLOCK", "REVIEW"} /\ pc'[c] = "chainApprove"
           /\ req'[c].act = req[c].act /\ req'[c].verdict = ChainVerdict(actions, mission)
        \/ /\ ChainVerdict(actions, mission) = "ALLOW" /\ pc'[c] = "run" /\ req'[c].act = req[c].act
        \/ pc'[c] = "idle"
    BY <1>1, <1>8 DEF CheckChain, Grant, Request
  <2>. QED BY <1>2, <1>3, <2>1, <2>2 DEF Passed
<1>9. CASE ApproveChain(c)
  <2>1. /\ ActionVerdict(req[c].act, mission) # "BLOCK"
        /\ req[c].verdict = ChainVerdict(actions, mission) /\ req[c].verdict \in {"BLOCK", "REVIEW"}
    BY <1>9 DEF Passed, ApproveChain
  <2>2. PICK d \in Decisions(req[c].verdict, req[c].act, mission, WarnPolicy, Interactive) :
          IF d.verdict = "BLOCK" THEN pc'[c] = "denied"
          ELSE pc'[c] = "idle" \/ (pc'[c] = "run" /\ req'[c].act = req[c].act)
    BY <1>1, <1>9 DEF ApproveChain, Grant
  <2>3. d.verdict # "BLOCK" => req[c].verdict = "REVIEW" /\ mission.local /\ req[c].act.type = "tool_call"
    BY <1>4, <1>5, <2>1, <2>2, AloneDecisions
  <2>. QED BY <1>2, <1>3, <2>1, <2>2, <2>3 DEF Passed
<1>10. CASE RunTool(c) \/ ReportDenial(c)
  <2>1. pc'[c] = "idle"
    BY <1>1, <1>10 DEF RunTool, ReportDenial
  <2>. QED BY <1>3, <2>1 DEF Passed
<1>. QED BY <1>6, <1>7, <1>8, <1>9, <1>10 DEF Step

LEMMA AloneNext ==
  ASSUME ~Interactive, \A b, x \in Caller : b = x
  PROVE  SessionInv /\ AloneInv /\ [Next]_vars => AloneInv'
<1>. SUFFICES ASSUME SessionInv, AloneInv, [Next]_vars PROVE AloneInv'
  OBVIOUS
<1>1. pc \in [Caller -> Label]
  BY DEF SessionInv, TypeOK
<1>2. ASSUME NEW c \in Caller, Mission(c) PROVE AloneInv'
  <2>1. /\ pc[c] = "idle" /\ pc' = pc /\ actions' = actions /\ (executed' = executed \/ executed' = {})
    BY <1>2 DEF Mission, InitializeMission, RefreshMissionPhase
  <2>2. \A x \in Caller : pc'[x] = "idle"
    BY <2>1
  <2>3. Passed' /\ \A x \in Caller : ~Bridged(x)'
    BY <2>2 DEF Passed, Bridged
  <2>4. InHistory'
    BY <2>1, <2>3 DEF AloneInv, InHistory
  <2>. QED BY <2>3, <2>4 DEF AloneInv
<1>3. ASSUME NEW c \in Caller, Ask(c) PROVE AloneInv'
  <2>1. CASE \E a \in Requests, use \in Uses : SubmitAction(c, a, use)
    BY <2>1, AloneSubmit
  <2>2. CASE ~\E a \in Requests, use \in Uses : SubmitAction(c, a, use)
    <3>1. pc[c] = "idle" /\ pc'[c] \in {"idle", "denied"} /\ actions' = actions /\ executed' = executed
      BY <1>1, <1>3, <2>2 DEF Ask, RefuseWithoutMission, MemoryRequest, EvaluatePlan, GovernStepOutput
    <3>2. \A x \in Caller : pc'[x] \in {"idle", "denied"}
      BY <3>1
    <3>3. Passed' /\ \A x \in Caller : ~Bridged(x)'
      BY <3>2 DEF Passed, Bridged
    <3>4. InHistory'
      BY <3>1, <3>3 DEF AloneInv, InHistory
    <3>. QED BY <3>3, <3>4 DEF AloneInv
  <2>. QED BY <2>1, <2>2
<1>4. ASSUME NEW c \in Caller, Step(c) PROVE AloneInv'
  BY <1>4, AloneHistory, AlonePasses DEF AloneInv
<1>5. CASE UNCHANGED vars
  BY <1>5 DEF vars, AloneInv, InHistory, Passed, Bridged
<1>. QED BY <1>2, <1>3, <1>4, <1>5 DEF Next

(* What a tool that is about to run cannot follow.                         *)
LEMMA AloneRuns ==
  ASSUME SessionInv, AloneInv, NEW c \in Caller, pc[c] = "run"
  PROVE  /\ ~(AnomalyIn(ToolNames(actions)) /\ mission.tolerance \notin {"HIGH", "CRITICAL"})
         /\ "destructive" \in Caps[req[c].act.tool] => \A e \in executed : "writes" \notin Caps[e.tool]
<1>. DEFINE names == ToolNames(actions)
<1>1. /\ actions \in Seq(Action) /\ mission \in Contract
      /\ req[c].act \in Action /\ req[c].act.type = "tool_call" /\ req[c].act.tool \in Tool
  BY DEF SessionInv, TypeOK, SessionInStep, BridgedNamesTool, Request
<1>2. Bridged(c)
  BY DEF Bridged, SessionInv, BridgedNamesTool
<1>3. /\ ActionVerdict(req[c].act, mission) # "BLOCK"
      /\ \/ ChainVerdict(actions, mission) = "ALLOW"
         \/ ChainVerdict(actions, mission) = "REVIEW" /\ mission.local
  BY DEF AloneInv, Passed
<1>4. ~(AnomalyIn(names) /\ mission.tolerance \notin {"HIGH", "CRITICAL"})
  BY <1>1, <1>3, ChainRules
<1>5. ASSUME "destructive" \in Caps[req[c].act.tool], NEW e \in executed, "writes" \in Caps[e.tool]
      PROVE  FALSE
  <2>1. e.tool \in Earlier(names) /\ names[Len(names)] = req[c].act.tool
    BY <1>2 DEF AloneInv, InHistory
  <2>2. ~mission.local
    BY <1>1, <1>3, <1>5, DangerIsBlocked DEF Dangerous
  <2>3. names \in Seq(Named)
    BY <1>1, NamesOfHistory
  <2>. HIDE DEF names
  <2>4. Len(names) >= 2 /\ CapabilityChain(names, mission)
    BY <1>5, <2>1, <2>3 DEF Earlier, CapabilityChain
  <2>. QED BY <1>1, <1>3, <2>2, <2>4, ChainRules DEF names
<1>. QED BY <1>4, <1>5

(* An anomalous transition stays in the history: with one caller and no    *)
(* human, no tool runs after it, in this mission or a later one, unless a  *)
(* mission tolerates HIGH risk; for any tools, transition matrix, missions *)
(* and warn policy.                                                        *)
THEOREM NothingFollowsAnomaly ==
  ASSUME ~Interactive, \A b, x \in Caller : b = x
  PROVE  Spec => NothingRunsAfterAnomaly
<1>1. Init => SessionInv /\ AloneInv
  BY SessionInit, AloneInit
<1>2. SessionInv /\ AloneInv /\ [Next]_vars => (SessionInv /\ AloneInv)'
  BY SessionNext, AloneNext
<1>3. SessionInv /\ AloneInv =>
        (AnomalyIn(ToolNames(actions)) /\ mission.tolerance \notin {"HIGH", "CRITICAL"}
           => \A c \in Caller : ~(pc[c] = "run" /\ pc'[c] = "idle"))
  BY AloneRuns
<1>. QED BY <1>1, <1>2, <1>3, PTL DEF Spec, NothingRunsAfterAnomaly

(* With one caller and no human, no destructive tool runs once a writing   *)
(* tool has run, whichever session, phase, matrix or policy let it pass.   *)
THEOREM NothingIsDestroyed ==
  ASSUME ~Interactive, \A b, x \in Caller : b = x
  PROVE  Spec => NothingDestroyedAfterWrite
<1>1. Init => SessionInv /\ AloneInv
  BY SessionInit, AloneInit
<1>2. SessionInv /\ AloneInv /\ [Next]_vars => (SessionInv /\ AloneInv)'
  BY SessionNext, AloneNext
<1>3. SessionInv /\ AloneInv =>
        \A c \in Caller : pc[c] = "run" /\ pc'[c] = "idle" /\ "destructive" \in Caps[req[c].act.tool]
                            => \A e \in executed : "writes" \notin Caps[e.tool]
  BY AloneRuns
<1>. QED BY <1>1, <1>2, <1>3, PTL DEF Spec, NothingDestroyedAfterWrite
=============================================================================
