---------------------------- MODULE ActionGuards ----------------------------
(***************************************************************************)
(* The guards of ANCHOR as functions of an action (or a history) and a     *)
(* contract: the alignment evaluator and action guard, the chain guard,    *)
(* the memory and plan guards, and the approval engine that turns a        *)
(* verdict into a decision.  AnchorRuntime sequences them.                 *)
(*                                                                         *)
(* Tool names are looked at through what the name tables and the           *)
(* capability registry say of them; a payload through how many forbidden   *)
(* terms its metadata matches and which path it names.                     *)
(***************************************************************************)
EXTENDS MissionContract, Integers, Sequences, SequencesExt, FiniteSets

CONSTANTS
  Caps,          \* [Tool -> SUBSET Capability]: get_tool_capabilities
  HighRiskNamed, \* tools whose name is_high_risk_tool flags
  Hinted,        \* tools whose name holds one of approval._DANGEROUS_TOOL_HINTS
  ReadNamed,     \* tools whose name holds a read hint (is_read_tool)
  MutatingNamed, \* tools whose name holds write, update, delete or send
  WriteWord,     \* tools whose name holds "write"
  Matches,       \* [Tool -> SUBSET Token]: forbidden tokens inside the name
  Category,      \* [Tool -> the tool's category in the transition model]
  Rarity,        \* [<<category, category>> -> "SAFE" | "REVIEW" | "BLOCK"]
  Within,        \* pairs <<path, prefix>>: path is prefix or lies under it
  Calibrate,     \* [RawScore -> 0..1000], the isotonic calibrator (per mille)
  ActionType,    \* action types other than "tool_call"
  MutatingType,  \* those whose name holds write, update, delete or send
  MaxHits,       \* BOUND: metadata matches counted per payload
  NoTool, NoPath,\* an action without a tool name, a payload without a path
  NoAction       \* process_verdict's action argument when it is None

Capability == {"reads", "writes", "egress", "destructive"}
Verdict    == {"ALLOW", "WARN", "REVIEW", "BLOCK"}
RawScore   == 0..1000

ASSUME GuardAssumption ==
  /\ Caps \in [Tool -> SUBSET Capability]
  /\ Matches \in [Tool -> SUBSET Token]
  /\ HighRiskNamed \subseteq Tool /\ Hinted \subseteq Tool /\ ReadNamed \subseteq Tool
  /\ WriteWord \subseteq MutatingNamed /\ MutatingNamed \subseteq Tool
  /\ "tool_call" \notin ActionType /\ MutatingType \subseteq ActionType
  /\ NoTool \notin Tool /\ NoPath \notin Path
  /\ MaxHits \in Nat

(* calibrate_score clamps, keeps 0 and 1, and the fitted curve is isotonic. *)
ASSUME CalibratorAssumption ==
  /\ Calibrate \in [RawScore -> RawScore]
  /\ Calibrate[0] = 0 /\ Calibrate[1000] = 1000

Action ==
  [ type : ActionType \cup {"tool_call"},
    tool : Tool \cup {NoTool},
    hits : 0..MaxHits,
    path : Path \cup {NoPath} ]

(* None is not an action.                                                  *)
ASSUME NoActionAssumption == NoAction \notin Action

Restricted(m) == m.local \/ m.forbidNet

Dangerous(t) == t \in HighRiskNamed \/ "egress" \in Caps[t] \/ "destructive" \in Caps[t]

(* is_mission_local_tool                                                   *)
MissionLocal(t, m) ==
  /\ t \in m.allowedTools
  /\ ~Dangerous(t)
  /\ t \in ReadNamed \/ (t \in WriteNamed /\ "write" \in m.allowedActions)

(* _path_is_within_scope: no prefixes means no restriction.                *)
InScope(path, prefixes) == prefixes = {} \/ \E q \in prefixes : <<path, q>> \in Within

(* validate_resource_scope finds a path outside the mission's scopes.      *)
ScopeViolation(a, m) ==
  /\ a.path # NoPath
  /\ \/ a.tool \in WriteNamed /\ ~InScope(a.path, m.writePaths)
     \/ a.tool \in ReadNamed /\ ~InScope(a.path, m.readPaths)

(* For mutation: only the name tables say what is dangerous.               *)
ToolBlockedByName(a, m) ==
  \/ Restricted(m) /\ a.tool \in HighRiskNamed
  \/ Matches[a.tool] \cap m.forbidden # {} /\ ~MissionLocal(a.tool, m)
  \/ a.tool \in m.forbidden
  \/ m.allowedTools # {} /\ a.tool \notin m.allowedTools
  \/ ScopeViolation(a, m)

(* The hard overrides of AlignmentEvaluator.evaluate and ActionGuard.      *)
ToolBlocked(a, m) ==
  \/ Restricted(m) /\ Dangerous(a.tool) /\ ~MissionLocal(a.tool, m)
  \/ Matches[a.tool] \cap m.forbidden # {} /\ ~MissionLocal(a.tool, m)
  \/ a.tool \in m.forbidden
  \/ m.allowedTools # {} /\ a.tool \notin m.allowedTools
  \/ ScopeViolation(a, m)

HardBlock(a, m) ==
  \/ a.type \in m.forbidden
  \/ a.type = "tool_call" /\ a.tool \in Tool /\ ToolBlocked(a, m)

-----------------------------------------------------------------------------
(* The soft score, in parts per thousand: 0.8 for an unlisted action type, *)
(* 0.3 per forbidden match, 0.7 for mutation under LOW tolerance.          *)
Unlisted(a, m) ==
  m.allowedTools # {} /\ a.type # "tool_call" /\ a.type \notin m.allowedTools

Mutating(a, m) ==
  /\ m.tolerance = "LOW"
  /\ \/ a.type \in MutatingType
     \/ /\ a.type = "tool_call" /\ a.tool \in MutatingNamed
        /\ ~(a.tool \in WriteWord /\ a.tool \in m.allowedTools /\ "write" \in m.allowedActions)

Score(a, m) ==
  IF HardBlock(a, m) THEN 0
  ELSE LET listed  == IF Unlisted(a, m) THEN 800 ELSE 1000
           matched == CASE a.hits = 0 -> listed
                        [] a.hits = 1 -> (listed * 3) \div 10
                        [] OTHER      -> (listed * 9) \div 100
       IN  Calibrate[IF Mutating(a, m) THEN (matched * 7) \div 10 ELSE matched]

(* score_to_verdict over the alignment bands 0.80 / 0.50 / 0.30.           *)
Band(score) ==
  CASE score >= 800 -> "ALLOW"
    [] score >= 500 /\ score < 800 -> "WARN"
    [] score >= 300 /\ score < 500 -> "REVIEW"
    [] OTHER -> "BLOCK"

(* ActionGuard.evaluate_action                                             *)
ActionVerdict(a, m) == IF HardBlock(a, m) THEN "BLOCK" ELSE Band(Score(a, m))

-----------------------------------------------------------------------------
(* ChainGuard.evaluate_chain over the recorded actions.                    *)

IsToolCall(a) == a.type = "tool_call" /\ a.tool # NoTool

NamedBy(a)   == IF IsToolCall(a) THEN <<a.tool>> ELSE <<>>
ToolNames(h) == FlattenSeq([i \in DOMAIN h |-> NamedBy(h[i])])

(* For mutation: only the newest pair is scored.                           *)
NewestPairRarity(names) ==
  Rarity[<<Category[names[Len(names) - 1]], Category[names[Len(names)]]>>]

(* score_category_sequence: the rarest adjacent pair decides.              *)
SequenceRarity(names) ==
  LET pairs == {Rarity[<<Category[names[i]], Category[names[i + 1]]>>] : i \in 1..(Len(names) - 1)}
  IN  CASE "BLOCK" \in pairs -> "BLOCK"
        [] "BLOCK" \notin pairs /\ "REVIEW" \in pairs -> "REVIEW"
        [] OTHER -> "SAFE"

Earlier(names) == {names[i] : i \in 1..(Len(names) - 1)}

(* For mutation: only the call before the last one is looked at.           *)
AdjacentCapabilityChain(names, m) ==
  LET last == names[Len(names)]
      prev == names[Len(names) - 1]
  IN  \/ Restricted(m) /\ "egress" \in Caps[last] /\ "reads" \in Caps[prev]
      \/ "destructive" \in Caps[last] /\ "writes" \in Caps[prev]

(* The capability rules: what was read must not leave, what was written    *)
(* must not be destroyed next.                                             *)
CapabilityChain(names, m) ==
  LET last == names[Len(names)]
  IN  \/ /\ Restricted(m) /\ "egress" \in Caps[last]
         /\ \E t \in Earlier(names) : "reads" \in Caps[t]
      \/ /\ "destructive" \in Caps[last]
         /\ \E t \in Earlier(names) : "writes" \in Caps[t]

LocalChain(names, m) ==
  m.local /\ names[Len(names)] \in HighRiskNamed /\ Earlier(names) \cap ReadNamed # {}

ChainVerdict(h, m) ==
  LET names  == ToolNames(h)
      rarity == SequenceRarity(names)
  IN  CASE Len(h) < 2 \/ Len(names) < 2 -> "ALLOW"
        [] Len(names) >= 2 /\ rarity = "BLOCK" ->
             IF m.tolerance \in {"HIGH", "CRITICAL"} THEN "REVIEW" ELSE "BLOCK"
        [] Len(names) >= 2 /\ rarity = "REVIEW" -> "REVIEW"
        [] OTHER -> IF CapabilityChain(names, m) \/ LocalChain(names, m) THEN "BLOCK" ELSE "ALLOW"

-----------------------------------------------------------------------------
(* MemoryGuard.evaluate_memory.  An event says what the poisoning          *)
(* classifier and the secret scanner make of the content.                  *)
MemoryEvent ==
  [ op      : {"read", "write", "delete"},   \* update and insert act as write
    scope   : MemScope,
    poison  : {"SAFE", "REVIEW", "BLOCK"},
    secret  : {"none", "maybe", "sure"},
    keyword : BOOLEAN ]                      \* a sensitive keyword occurs

MemoryVerdict(e, m) ==
  CASE e.scope # "session" /\ e.scope \notin m.scopes -> "BLOCK"
    [] OTHER ->
        IF e.op = "write"
        THEN CASE e.poison = "BLOCK" \/ e.keyword \/ e.secret = "sure" -> "BLOCK"
               [] OTHER -> IF \/ e.poison = "REVIEW" \/ e.secret = "maybe"
                              \/ m.tolerance = "LOW" /\ e.scope # "session"
                           THEN "REVIEW" ELSE "ALLOW"
        ELSE IF e.op = "read" /\ e.keyword THEN "WARN" ELSE "ALLOW"

(* evaluate_plan_output: claim is a success claim, receipt a quoted tool   *)
(* result, mentions the tools the text names.  An empty text claims        *)
(* nothing.                                                                *)
Output == [claim : BOOLEAN, receipt : BOOLEAN, mentions : SUBSET Tool]

PlanVerdict(o, required, used) ==
  CASE ~o.claim \/ o.receipt -> "ALLOW"
    [] OTHER -> IF required \ (used \cup o.mentions) # {} THEN "BLOCK" ELSE "REVIEW"

-----------------------------------------------------------------------------
(* ApprovalEngine.  A decision is ALLOW, WARN (allowed with a warning) or  *)
(* BLOCK, and says whether a human at the prompt gave it.                  *)
Decision == [verdict : {"ALLOW", "WARN", "BLOCK"}, human : BOOLEAN]

Automatic(v) == [verdict |-> v, human |-> FALSE]

(* request_approval: without an operator the answer is "n".                *)
RequestApproval(interactive) ==
  IF interactive THEN [verdict : {"ALLOW", "BLOCK"}, human : {TRUE}] ELSE {Automatic("BLOCK")}

AutoAllowReview(a, m, warnPolicy) ==
  /\ warnPolicy = "permissive" /\ a # NoAction /\ m # NoContract
  /\ a.type = "tool_call" /\ m.local
  /\ a.tool \in m.allowedTools \ Hinted

HighRiskWarning(a, m) ==
  /\ a # NoAction /\ m # NoContract
  /\ a.tool \in HighRiskNamed /\ Restricted(m) /\ ~MissionLocal(a.tool, m)

(* process_verdict: the decisions it can record.                           *)
Decisions(v, a, m, warnPolicy, interactive) ==
  CASE v = "REVIEW" ->
         IF \/ AutoAllowReview(a, m, warnPolicy)
            \/ ~interactive /\ warnPolicy = "permissive" /\ a = NoAction
         THEN {Automatic("ALLOW")}
         ELSE RequestApproval(interactive)
    [] v = "BLOCK" -> RequestApproval(interactive)
    [] v = "WARN" ->
         IF HighRiskWarning(a, m) THEN RequestApproval(interactive) ELSE {Automatic("WARN")}
    [] OTHER -> {Automatic("ALLOW")}
=============================================================================
