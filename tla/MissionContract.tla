-------------------------- MODULE MissionContract --------------------------
(***************************************************************************)
(* The mission contract of ANCHOR: how a prompt and a caller's context are *)
(* compiled into a contract (runtime/anchor/mission.py, intent_parser.py)  *)
(* and how a phase contract is merged into the session's baseline          *)
(* (mission_session.py).  Everything here is a constant-level operator;    *)
(* AnchorRuntime owns the state.                                           *)
(*                                                                         *)
(* Free text is abstracted to what the compiler reads from it: the domain  *)
(* its classifier predicts (or that it predicts none with confidence) and  *)
(* which families of phrases and paths the text contains.                  *)
(***************************************************************************)
CONSTANTS
  Tool,             \* tool names
  Token,            \* entries of forbidden_actions: capability tokens and action types
  Path,             \* normalised path prefixes, OutputDir and DataDir among them
  OutputDir,        \* the default write scope "output/"
  DataDir,          \* the default read scope "data/"
  DataPath,         \* the paths that start with "data/"
  Scope,            \* names of persistent memory scopes other than "session"
  Domain,           \* domains of domain_classifier._DOMAIN_POLICY
  DomainScopes,     \* [Domain -> SUBSET Scope]: policy "memory_scopes"
  DomainForbidden,  \* [Domain -> SUBSET Token]: the domain's suggested_forbidden
  DomainActions,    \* [Domain -> SUBSET Permission]: policy "allowed_actions"
  BaseForbidden,    \* delete, drop, remove, destroy, reboot
  RestrictiveForbidden, \* the fallback for a low-confidence prediction
  NetworkTokens,    \* intent_parser._NETWORK_FORBIDDEN_TOKENS
  WriteNamed,       \* tools whose name holds a write hint (is_write_tool)
  NoContract        \* no contract has been compiled yet (None in the code)

Permission == {"read", "list", "write", "send"}
Tolerance  == {"LOW", "MEDIUM", "HIGH", "CRITICAL"}
MemScope   == Scope \cup {"session"}

ASSUME ContractAssumption ==
  /\ "session" \notin Scope
  /\ OutputDir \in Path \ DataPath
  /\ DataDir \in DataPath
  /\ DataPath \subseteq Path
  /\ DomainScopes \in [Domain -> SUBSET Scope]
  /\ DomainForbidden \in [Domain -> SUBSET Token]
  /\ DomainActions \in [Domain -> SUBSET Permission]
  /\ BaseForbidden \subseteq Token
  /\ RestrictiveForbidden \subseteq Token
  /\ NetworkTokens \subseteq Token
  /\ WriteNamed \subseteq Tool

Contract ==
  [ allowedActions : SUBSET Permission,
    forbidden      : SUBSET Token,
    allowedTools   : SUBSET Tool,
    scopes         : SUBSET MemScope,
    readPaths      : SUBSET Path,
    writePaths     : SUBSET Path,
    local          : BOOLEAN,
    forbidNet      : BOOLEAN,
    lowConf        : BOOLEAN,
    tolerance      : Tolerance ]

ASSUME NoContractAssumption == NoContract \notin Contract

(***************************************************************************)
(* What the compiler reads from a prompt.  confident is FALSE when the     *)
(* classifier's confidence is below its band (fail-closed contract).       *)
(***************************************************************************)
Prompt ==
  [ confident   : BOOLEAN,
    domain      : Domain,
    localPhrase : BOOLEAN,        \* "locally", "do not send", ...
    writePhrase : BOOLEAN,        \* "write", "save", "output/", ...
    readPhrase  : BOOLEAN,        \* "load", "read", "dataset", ...
    paths       : SUBSET Path ]   \* output/... and data/... paths in the text

(***************************************************************************)
(* The context dictionary a caller passes.  given names the optional keys  *)
(* that are present; the value of an absent key is never read.             *)
(***************************************************************************)
OptionalKey == {"local_only", "risk_tolerance", "allowed_read_paths", "allowed_write_paths"}

Context ==
  [ given      : SUBSET OptionalKey,
    tools      : SUBSET Tool,
    local      : BOOLEAN,
    tolerance  : Tolerance,
    readPaths  : SUBSET Path,
    writePaths : SUBSET Path ]

-----------------------------------------------------------------------------
(* parse_mission_intent: the parts a contract depends on.                  *)

IntentLocal(p, ctx) == ("local_only" \in ctx.given /\ ctx.local) \/ p.localPhrase

WriteRequested(p, ctx) == p.writePhrase \/ ctx.tools \cap WriteNamed # {}

CtxPaths(ctx, key, paths) == IF key \in ctx.given THEN paths ELSE {}

(* Paths in the text under data/ become read scopes, the others (output/)  *)
(* write scopes; a missing scope defaults when the text asks for access.   *)
IntentReadPaths(p, ctx) ==
  LET found == (p.paths \cap DataPath) \cup CtxPaths(ctx, "allowed_read_paths", ctx.readPaths)
  IN  IF found = {} /\ p.readPhrase THEN {DataDir} ELSE found

IntentWritePaths(p, ctx) ==
  LET found == (p.paths \ DataPath) \cup CtxPaths(ctx, "allowed_write_paths", ctx.writePaths)
  IN  IF found = {} /\ WriteRequested(p, ctx) THEN {OutputDir} ELSE found

-----------------------------------------------------------------------------
(* MissionCompiler.compile.  default is the runtime's default tolerance.   *)

CompiledActions(p, ctx) ==
  {"read", "list"}
    \cup (IF p.confident /\ ~IntentLocal(p, ctx) THEN DomainActions[p.domain] ELSE {})
    \cup (IF p.writePhrase \/ (p.confident /\ WriteRequested(p, ctx)) THEN {"write"} ELSE {})

CompiledForbidden(p, local) ==
  BaseForbidden
    \cup (IF p.confident THEN DomainForbidden[p.domain] ELSE RestrictiveForbidden)
    \cup (IF local THEN NetworkTokens ELSE {})

Compile(p, ctx, default) ==
  LET local == IntentLocal(p, ctx) \/ ~p.confident
  IN  [ allowedActions |-> CompiledActions(p, ctx),
        forbidden      |-> CompiledForbidden(p, local),
        allowedTools   |-> ctx.tools,
        scopes         |-> {"session"} \cup (IF p.confident THEN DomainScopes[p.domain] ELSE {}),
        readPaths      |-> IntentReadPaths(p, ctx),
        writePaths     |-> IntentWritePaths(p, ctx),
        local          |-> local,
        forbidNet      |-> local,
        lowConf        |-> ~p.confident,
        tolerance      |-> IF "risk_tolerance" \in ctx.given THEN ctx.tolerance ELSE default ]

-----------------------------------------------------------------------------
(* What the merge would be if the phase's path scopes, its tolerance or its *)
(* local_only flag replaced the baseline's (for mutation).                  *)
MergePhasePaths(base, phase) ==
  [phase EXCEPT !.allowedActions = IF base.lowConf THEN base.allowedActions
                                   ELSE base.allowedActions \cup @,
                !.forbidden    = base.forbidden \cup @,
                !.allowedTools = base.allowedTools \cup @,
                !.local        = base.local \/ @,
                !.forbidNet    = base.forbidNet \/ @,
                !.lowConf      = base.lowConf \/ @,
                !.tolerance    = base.tolerance]

MergePhaseTolerance(base, phase) ==
  [MergePhasePaths(base, phase) EXCEPT !.tolerance = phase.tolerance]

(* merge_mission_with_baseline.                                            *)
Merge(base, phase) ==
  [ allowedActions |-> IF base.lowConf THEN base.allowedActions
                       ELSE base.allowedActions \cup phase.allowedActions,
    forbidden      |-> base.forbidden \cup phase.forbidden,
    allowedTools   |-> base.allowedTools \cup phase.allowedTools,
    scopes         |-> phase.scopes,
    readPaths      |-> IF base.readPaths # {} THEN base.readPaths ELSE phase.readPaths,
    writePaths     |-> IF base.writePaths # {} THEN base.writePaths ELSE phase.writePaths,
    local          |-> base.local \/ phase.local,
    forbidNet      |-> base.forbidNet \/ phase.forbidNet,
    lowConf        |-> base.lowConf \/ phase.lowConf,
    tolerance      |-> base.tolerance ]

(***************************************************************************)
(* AnchorRuntime.refresh_mission_phase enriches the context before it      *)
(* compiles the phase: the baseline's tools are added, and a key the       *)
(* caller left out is given the baseline's value.                          *)
(***************************************************************************)
EnrichContext(ctx, base) ==
  LET Given(key) == key \in ctx.given
  IN  [ given      |-> OptionalKey,
        tools      |-> base.allowedTools \cup ctx.tools,
        local      |-> IF Given("local_only") THEN ctx.local ELSE base.local,
        tolerance  |-> IF Given("risk_tolerance") THEN ctx.tolerance ELSE base.tolerance,
        readPaths  |-> IF Given("allowed_read_paths") THEN ctx.readPaths ELSE base.readPaths,
        writePaths |-> IF Given("allowed_write_paths") THEN ctx.writePaths ELSE base.writePaths ]

-----------------------------------------------------------------------------
(***************************************************************************)
(* What "without weakening baseline mission constraints" means: contract m *)
(* keeps every restriction of base.  An empty path set or tool list is no  *)
(* restriction; a set, once there, is one.                                 *)
(***************************************************************************)
KeepsRestrictions(base, m) ==
  /\ base.local => m.local
  /\ base.forbidNet => m.forbidNet
  /\ base.lowConf => m.lowConf /\ m.allowedActions = base.allowedActions
  /\ base.forbidden \subseteq m.forbidden
  /\ base.readPaths # {} => m.readPaths # {} /\ m.readPaths \subseteq base.readPaths
  /\ base.writePaths # {} => m.writePaths # {} /\ m.writePaths \subseteq base.writePaths
  /\ base.allowedTools # {} => m.allowedTools # {}
  /\ m.tolerance = base.tolerance
=============================================================================
