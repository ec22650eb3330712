# A formal model of ASHA

ASHA is a Python library that sits between an application and its language
models.  It processes prompts before they are sent (masking, compiling,
optimizing), checks what comes back, and governs what an agent does with it
(ANCHOR).  This directory holds TLA+ modules for the parts of it that have a
protocol or an algorithm worth checking, the TLC configurations that check them
on small instances, and TLAPS proofs of the results that matter most, for every
value of the constants.

All source paths are relative to the repository; the package is
`src/asha/` (`src/src/asha/` in PROJECT.json).

    tlc -config AnchorSession.cfg MCAnchorRuntime      # one run
    tlapm AnchorRuntimeProofs.tla                      # one proof module

PROJECT.json is the machine-readable companion: which definition stands for
which lines, which run checks which property, which change of the model makes
each property fail, the hazards, the findings and the theorems.

## 1. Inventory

### Prompt side

| Component | State it keeps | Operations | What is hard about it | What makes it correct |
|---|---|---|---|---|
| **Prompt processor** (`runtime/processor.py`, `utils/dropin.py`, `core/engines.py`) | nothing across calls but a dashboard counter; within a call the attempt, the stage, the text so far | `process`, `sanitize`, their async and batch forms | a deadline that races the worker, retries, a fallback for every stage, four modes that disagree about failure | strict mode returns nothing unprocessed; what is not marked degraded has been through a masking pass, and is as clean as such a pass makes it; a refusal is final; a call ends and is counted once |
| **SDK patching and wrapping** (`integrations/auto_patch.py`, `llm_wrap.py`, `core/streaming.py`) | class attributes of third-party SDKs, `_original_functions`, `_patches_applied`, `_asha_enabled`; one attribute per wrapped client | `auto_patch` on and off, `enable`, `disable`, `wrap_llm`; every call through a wrapper | wrappers around wrappers, clients that keep an older function, a switch that flips under a call, streams that fail or are left | originals come back; a prompt the wrapper looks for is processed, once; what failed is not sent; the chunks join to what the provider said |
| **PII pipeline** (`core/pii_pipeline/`, `core/hybrid_pii.py`) | its configuration, which a call may change for good | seven stages: normalise, detect, expand, score, resolve, mask, verify | positions taken before the first replacement, scores moved by context, a stage that raises half-way | where the regular expressions answered, a structured value is masked; spans do not share text; the map undoes the masking |
| **Security layer** (`core/security/`, `utils/dropin_privacy.py`) | one injection detector per process | `run_security` by a rule path and a hybrid path, merge of two verdicts, fail-closed answers | the detector is replaced under a call of another thread; two verdicts and two maskers | no phrase that the layer replaces survives; a verdict is that of the call's own mode; a caller that fails closed gets no text |
| **Compiler and optimizer** (`core/compiler/`, `core/_ir/`, `core/parser/`) | none | format lock, four stages, safety check that reverts them | stages that feed each other and a check that counts kinds | the numbers its patterns count, negations and locked text survive |
| **Output guard, schema validation, format lock** (`core/output_guard.py`, `core/schema_validation.py`, ...) | counters of a validator | detect, repair, validate an answer | rounds of repair that stop at the wrong text | VALID is valid, REPAIRED parses; the guard hands on what the model said |
| **Safety classifier, ML utilities** (`core/safety_classifier.py`, `core/ml/`) | loaded models, the model directories | classify, calibrate, download | half-written downloads, threads, restarts | a marked directory is whole; one download a process |
| **Web middleware** (`integrations/fastapi`, `flask`, `django`) | the request, a cached body | find prompts in a body, process them, run the endpoint | two paths to each field, shallow copies, a body that can be read once, releases of Starlette that disagree, endpoints that raise | a found prompt reaches the endpoint masked, in its own place, where the framework hands on the processed body |
| **LangChain and LlamaIndex** (`integrations/langchain`, `llamaindex`, `framework_adapters`, `composition_strategy`) | metrics of the last call, a chain's intermediate results | wrap templates, LLMs, runnables, engines, retrievers; run tool chains | wrappers inside wrappers, shared metrics, three ways to handle a failure | no text a wrapper can find is sent unprocessed, nor processed twice by one wrapper |
| **Metrics dashboard, trace** (`core/metrics_dashboard.py`, `core/trace_context.py`) | a bounded queue of events, counters; the stages of a run | record, report; start and end stages | unlocked increments, windows, a queue at its limit | counters never overstate; a trace tells the run |
| **Local model advisor** (`runtime/local_advisor/`) | a catalogue cache on disk | fetch, cache, choose a file, judge fit, recommend | two processes write the cache; fit arithmetic | one source per catalogue; what is recommended fits a machine whose memory is counted once |
| **Documents and attachments** (`documents/`) | none | extract text from files | third-party parsers | - |
| **Command line, benchmarks** | none | parse, measure | - | - |

### Agent side (ANCHOR)

| Component | State it keeps | Operations | What is hard about it | What makes it correct |
|---|---|---|---|---|
| **Mission contracts** (`mission.py`, `intent_parser.py`, `mission_session.py`, `contracts.py`) | `MissionSession._baseline` | compile, enrich a context, merge a phase | a chain of phases, each with caller-supplied context, merged into one contract | a phase never loosens the baseline |
| **Guards and approval** (`evaluator.py`, `action_guard.py`, `chain_guard.py`, `memory_guard.py`, `plan_guard.py`, `approval.py`, ...) | a matrix of tool transitions, a capability registry | judge an action, a chain, a memory event, a plan output; decide | many rules that override each other | what is dangerous under the contract is blocked whatever the score says |
| **Runtime and tool bridge** (`runtime.py`, `tool_bridge.py`, `types.py`) | the mission, histories of actions and approvals, tools used | initialize, refresh, evaluate requests, govern step outputs, run a governed tool | no lock: every decision re-reads shared state; histories hold refused calls too | see section 4 |
| **Sandbox** (`sandbox/`) | `builtins.open` and `sys.modules` of the process | execute a tool under hooks | process-wide hooks, nested and overlapping calls | hooks are up exactly while a governed tool runs; a tool stays in its scope |
| **Framework adapters** (`adapters/`) | wrapped third-party objects, the bound runtime of a context | choose an adapter, find and wrap tools, the entry points of a proxy | cyclic object graphs, nested entry points, calls that raise, streams that are left | every listed tool is judged, once but for LangChain's own; the context comes back; a blocked output is held where the entry point raises on one |
| **Poisoning classifier, lite memory guard** (`poisoning_classifier.py`, `memory_guard_lite.py`, `core/text/`) | which classifier, which artifacts | scan for phrases behind a filter, blend scores into bands | artifacts that are partly there, scores that are no numbers | to the lite classifier a known phrase is never SAFE; a score that is no number is not SAFE |
| **Telemetry, settings** | an append-only log | record, configure | - | - |
| **Agent and model adapters** (`runtime/agent.py`, `agent_tools.py`, `runtime/adapters/`) | adapters by provider | generate with retries and fallback, tool loop | retries inside retries, a loop bound | every tool call is governed; attempts are bounded |

### How they interact

A prompt enters through `process()`, `sanitize()`, a wrapped client, a patched
SDK, a web middleware or a framework wrapper.  The wrapper calls the processor,
takes the text out of what it returns and calls the function it found when it
was installed, which may be another wrapper.  The processor drives the security,
compiler and optimizer stages in the caller's thread or in a pool thread the
caller waits for; the security stage owns the PII pipeline, the injection
detector and the safety classifier, which load models from the model store.
The answer may pass the output guard or a schema validator.  At its end a call
is recorded in the dashboard.

An agent enters through an ANCHOR adapter.  The adapter compiles a mission once
(or, LangChain, on every `invoke`), refreshes it per phase, and sends each tool
call through `guarded_tool_call`: `evaluate_tool_call` records the call, asks
the action guard, the approval engine, the chain guard and, if need be, the
approval engine again; an allowed call runs under the `SandboxManager`, which
reads its policy when the tool starts.  Memory writes (which the poisoning
classifier scores), plan outputs and step outputs take shorter paths through the
same guards.  All of it shares the one runtime object, without locks; the
sandbox shares the interpreter.

## 2. Modules

| Module | Code it stands for | Extends |
|---|---|---|
| `MissionContract` | compilation, intent parsing, context enrichment, merge | - |
| `ActionGuards` | the verdicts of all guards, the approval engine's decisions | `MissionContract` |
| `ToolGate` | what ANCHOR promises of a session's tools, abstractly | - |
| `AnchorRuntime` | the runtime's state and handlers, the tool bridge | `ActionGuards` |
| `AnchorAdapters` | adapter selection, tool discovery and wrapping, the proxies' entry points | - |
| `SandboxHooks` | `enforcement_hooks`, `SandboxManager.execute` | - |
| `MemoryPoisoning` | the choice of a poisoning classifier, its blend and bands | `PhraseFilter` |
| `PhraseFilter` | the Bloom filter and its file | - |
| `PhraseMatcher` | the Aho-Corasick scanner, in both backends | - |
| `AgentTurn` | an agent's turns: provider retries, order of fallback, tool loop, ANCHOR proxy | - |
| `PromptProcessor` | one `process()` or `sanitize()` call | - |
| `MaskingCall` | what a caller of the PII pipeline may rely on, abstractly | - |
| `PiiStages` | the seven stages as operators on texts | - |
| `PiiPipeline` | a pipeline's calls, stage by stage, with fallbacks | `PiiStages` |
| `SecurityRules` | pattern banks, masking, scores, injection verdicts, safety levels, as operators | - |
| `SecurityService` | `run_security` under several threads and its two callers | `SecurityRules` |
| `OptimizerEngine` | `PromptOptimizer.optimize`, `optimize_tokens` | - |
| `SdkPatching` | `auto_patch`, `wrap_llm` and the calls through them | - |
| `WrappedCall` | one wrapped call from its arguments to the last item taken | `OutputRepair` |
| `OutputRepair` | `safe_repair_json`, `OutputGuard` | - |
| `SchemaValidation` | the validator and its rounds of repair | - |
| `WebMiddleware` | one HTTP request through six doors | - |
| `FrameworkPipelines` | calls through sixteen kinds of framework wrapper | - |
| `ToolChain` | `ToolChain`, `UniversalComposer`'s pipelines | - |
| `ModelStore` | `ensure_models` under threads, failures and restarts | - |
| `LocalAdvisor` | the catalogue, its cache, fit and recommendation | - |
| `RequestMetrics`, `RunTrace` | the dashboard; the trace of a run | - |
| `DataLemmas` | no code: lemmas about finite sums, flattened sequences, sorting, filtering, least numbers and what is counted or built up | - |
| `AnchorRuntimeProofs` | theorems about `AnchorRuntime` | that module, `DataLemmas`, `TLAPS` |
| `PatchingProofs` | theorems about `SandboxHooks`, `SdkPatching` | these, `TLAPS` |
| `AgentCallProofs` | theorems about `PromptProcessor`, `AgentTurn` | these, `DataLemmas`, `TLAPS` |
| `PipelineProofs` | theorems about `PiiPipeline` | that module, `DataLemmas` |
| `PromptStageProofs` | theorems about `SecurityService`, `OptimizerEngine` | these, `DataLemmas` |
| `AroundTheModelProofs` | theorems about `SchemaValidation`, `OutputRepair`, `WrappedCall`, `WebMiddleware`, `FrameworkPipelines`, `ToolChain`, `AnchorAdapters` | these, `DataLemmas`, `TLAPS` |
| `ServicesProofs` | theorems about `PhraseFilter`, `PhraseMatcher`, `MemoryPoisoning`, `ModelStore`, `LocalAdvisor`, `RequestMetrics`, `RunTrace` | these, `DataLemmas`, `TLAPS` |
| `MC...` | the instances TLC checks | the modules they compose |

Three MC modules compose several components.  In `MCContentChecks`,
`MCAroundTheModel` and `MCServices` a behaviour is about one part, which the
variable `app` names from the start; the others stay in one initial state.  The
parts meet only where one module takes the other's operators (`WrappedCall` the
output guard's, `MemoryPoisoning` the filter's); elsewhere one takes the other's
outcome as an input, so nothing is lost by exploring them side by side.
`SandboxHooks` and `AgentTurn` likewise stand beside `AnchorRuntime`, which takes
from the sandbox only the moment it reads its policy.

Definitions that begin with "For mutation:" are plausible bugs; PROJECT.json
pairs each with the definition it would replace and the property that notices.

### MissionContract, ActionGuards, AnchorRuntime, ToolGate

`MissionContract` and `ActionGuards` are constant-level operators: a contract is
a record with the fields the guards read, a prompt is what the compiler reads
from it (domain and confidence of the classifier, whether it speaks of staying
local, of writing, of reading, which paths it names), a context is the
dictionary with the keys that are present.  Name tables, the trained transition
matrix and the calibrator are constants; the matrix is given as the band
(`SAFE`, `REVIEW`, `BLOCK`) its probability falls into.  Scores are per mille.

`AnchorRuntime` has `state.mission`, `state.baseline_mission`,
`MissionSession._baseline` (which differ: a refresh before any initialisation
sets only the last), `sandbox.policy`, the action history, the last approval and
the tools used.  `evaluate_action_request` is split where another caller can run
and the code re-reads shared state:

| Step | Code |
|---|---|
| `SubmitAction` | the request is appended to the history before any guard has seen it |
| `JudgeAction` | the action guard reads `state.mission` |
| `ApproveAction` | the approval engine, or a human who may take any time, decides |
| `CheckChain` | the chain guard reads the history and the mission again |
| `ApproveChain` | the second decision |
| `RunTool` | the sandbox reads its policy, the tool runs |
| `ReportDenial` | the denial message is built from `approval_history[-1]` |

`InitializeMission` and `RefreshMissionPhase` may come between any two of them.
Memory, plan and step-output requests are one step each: of what they read only
the mission can be replaced under them.  `executed`, `remembered` and `accepted`
are history variables the properties read and no guard does.

`ToolGate` is what a user of ANCHOR is promised, without guards, scores, phases
or histories: a call is asked for, granted or refused once, and what is refused
does not run; in a local session a perilous tool is granted only with a human's
consent and a sandboxed tool has no network.  `ImplementsToolGate` maps the
runtime to it: `SetUp` is the first mission, `Consider` and `Grant` lie
somewhere in the decisions, every refresh and every other guard is a stutter.

### AnchorAdapters

An agent is the objects it is made of, the traits `anchor()` looks at (a class
path, a method, an attribute), the tools each part lists and the links from part
to part, which may form cycles.  `Anchor` chooses the adapter, walks the links
and wraps the tools.  `AdapterFor` asks, in `anchor_any`'s order, what each
adapter's `supports` asks, up to the LlamaIndex adapter's search for any tool.
The entry points of the proxies (`invoke`, `ainvoke`,
`stream`, `kickoff`, `execute_task`, `acall_tool`, ...) are rows of one table,
`Entries`, that says which of the steps in `Begin`, `Govern` and `LeaveEntry`
each takes: what it initialises, binds, governs, finalises and puts back.  They
form a stack, since frameworks call anchored members from inside an entry point;
any of them may raise, and the consumer of a stream may walk away.

### SandboxHooks

`builtins.open` is the chain of guards a call of it goes through; a governed
call keeps, as the context manager's local variables do, the `open` and the
modules it found.  Entry and exit take two steps each (first `open`, then
`sys.modules`), so that threads interleave where they can.  A running tool
writes to any path and imports any module the hooks let it; what a policy around
it forbids and the hooks let through is a leak.

### MemoryPoisoning, PhraseFilter, PhraseMatcher

Which classifier a memory guard takes is decided once, by the artifacts that are
installed then (`Install` may come at any time); what that one loads is decided
when it first answers.  A text is the phrase it holds, how it is spelled, and
the numbers the models would give, which may be no numbers at all.  The Bloom
filter's two hash functions are parameters of `PhraseFilter`, whose file may be
cut short before it is read back.  `PhraseMatcher` builds a trie in which a node
is the string that leads to it, and computes the failure links and the inherited
outputs in the order the code does, once more after every addition.

### AgentTurn

A turn is `Agent.run` or `run_with_fallback`.  A request to the model walks
along legs: the agent's own adapter, under `run_with_fallback` the same adapter
again (`generate_with_fallback` starts with it; a routing adapter has no such
method), then the adapters passed to the call.  Each leg is one `generate` with
its attempts.  In a run with tools every answered request is parsed, and what
the tool did is appended to the conversation.  Under the ANCHOR proxy a tool may
also be denied, and a run that returns or raises is finalised.  Whether ANCHOR
denies, and what it says to the step output, is `AnchorRuntime`'s subject and is
left open here.

### PromptProcessor

Of a text there is how often a value occurs that the patterns know (`copies`),
whether it holds PII only a model finds (`named`) and content the safety
classifier refuses (`unsafe`).  What a security pass makes of it depends on the
detector: the lite one masks every match (`LitePass`); the hybrid pipeline keeps
one entity of a value and is sure to mask one occurrence a pass (`HybridPass`),
and where it may fail (`flaky`: a stage, or the regular expressions in it) it
hands the text back without a word.  The scrub of `_finalize_text` is a hybrid
pass whatever the call's `pii_mode`.  The engines' stages and the
caller are separate: with `timeout_seconds` the caller may stop waiting at any
moment (`Expire`), after which it still joins the worker, as leaving the
executor's `with` block does.  Each stage may fail in the ways the constant
`Faults` allows, and each mode reacts as the code does.  The branches of
`processor.py` that build a fail-closed placeholder cannot be reached, because
strict mode raises first, and have no action.

### PiiStages, PiiPipeline, MaskingCall

A text is a sequence of cells, one per word: a plain word, a capitalised word, a
value of one of the kinds the regular expressions know, or a mask.  `PiiStages`
has one operator per stage on texts and entities, with the code's confidences in
thousandths.  Lists are sorted as the code sorts them, the trailing sort of the
scoring stage by falling score (`ByScore`) included, which decides in which
order later stages meet the entities.  Every stage is a function without
recursive operators, so that it can be reasoned about: a sort is the one
arrangement `InOrder` chooses, a filtering loop is `Only`, and the loops that
fold (removing overlaps, masking from right to left) are recursive functions of
the position. `PiiPipeline` runs the stages in order over the shared context.
Any stage may raise; a fallback then answers, and what it returns is not applied
to the context, only what it changed in place counts.  Any detector may fail or
run out of time on its own, the regular expressions included (`blind` remembers
it): the stage then succeeds with what the others found.  An override of the
detection mode stays in the configuration. `MaskingCall` is what a caller may
rely on without the stages: one answer a call, which is the text as it was sent
and marked failed, or that text with values replaced by labels and all words in
place.

### SecurityRules, SecurityService

A cell holds a phrase named for what the pattern banks say of it.
`SecurityRules` computes masking, neutralisation, threats, scores, the verdict
of each detector mode and the classifier's level; `SecurityService` splits a call
where the shared detector can change: resolve the mode, check the singleton,
create it, return it, detect.  Perplexity and embedding scores, and whether the
classifier answers at all, are inputs.

### OptimizerEngine, OutputRepair, SchemaValidation

A prompt of `OptimizerEngine` is a sequence of sentences of words; of a word
matters which stage removes it and which keywords the safety check finds in it,
by substring, as the code does.  Numbers come plain, with a point ("decimal"),
with a unit on them that hides them from the patterns ("unit", 5kg) and with
both ("measure", 3.5GB).  A template of `StructureBuilder` brings the words of
its labels, keywords among them (`Labels`: "REQUIREMENTS" holds "require").  A
stage that replaces or drops words does it word by word (`Each`) by a table.
One action per stage, then the check that accepts the result or reverts to the
prompt.  `OutputRepair` reads an answer as its shape, its flaw and what stands
before and after it, which may have braces or brackets of its own, and follows
the search for JSON and the guard's detection in their order.
`SchemaValidation` keeps a text's set of flaws, what it fits and the attempt;
each of its actions is a call of the validator, one attempt of the repair
engine, or one revalidation.

### SdkPatching, WrappedCall

A function is the sequence of the layers a call goes through before the SDK's
own code.  Patches of OpenAI and Anthropic look for `_asha_patched` before they
wrap; the others wrap whatever they find.  A call walks down its path one layer
per step, reading the switch when it enters a layer, so every switching
operation can come between two layers; a prompt that stands where `wrap_llm`
does not look (`seen`) crosses its layers as it is.  Each provider's patch is
one operation of `AutoPatch` on a chosen set of SDKs; the set also covers SDKs
that could not be patched.  `WrappedCall` looks into one layer: by which door
the call comes, where its prompt stands (`Passing`) and whether that door looks
there (`Sees`), what is sent, and what the caller receives of a response or of a
stream, which may fail, end, be of the other kind than the wrapper expects, be
cut by a `StreamingGuard`, or be left.

### WebMiddleware, FrameworkPipelines, ToolChain

A body is a sequence of fields that differ in where they hang, since that is
what decides whether a middleware finds them and which object it writes to.  The
middleware's copy shares nested objects with the body, as `body.copy()` does.
Each framework has its own actions where their code differs (which body is
parsed, what is replaced, what is forwarded), and the endpoint may raise.  What
the endpoint gets of it is the framework's: a Starlette that hands on the
request `call_next` was given or one that does not (`relays`), a body that is
read once, a Flask or Django view that asks for the request's data or for what
the middleware left (`reader`). `FrameworkPipelines` has callers that share a
wrapper; a table says which of its items a wrapper can find and how often its
text passes `process()`. `ToolChain` is the loop of `ToolChain.execute`, tool by
tool.

### ModelStore, LocalAdvisor, RequestMetrics, RunTrace

`ModelStore` copies file by file: the step between two files, and between the
last file and the marker, is where a failure or a restart matters.  A process
that dies leaves the directories as they are.  `LocalAdvisor` writes the cache
in two steps (open truncates it, write fills it), so that another process reads
it torn; what lies outside `get_catalog`'s `try` may raise (`CacheRaises`).  In
`RequestMetrics` an event is appended in one step (a `deque` is atomic) and its
counter read and written back in two; `RunTrace` has the one open stage of a
trace context as the engines use it.

## 3. Runs

Seven runs pass and five show a disagreement between the code and what its
documentation says.

| Run | Question | Bounds |
|---|---|---|
| `AnchorSession` | What may phases loosen, and what may run after what, for one caller with nobody to ask? | 3 recorded actions of 4 tools, guarded and async; 4 prompts, 3 contexts; missions refreshed and re-initialised at will |
| `AnchorConcurrent` | What holds when a second caller refreshes the mission or runs tools between any two steps of a call, and does the runtime implement `ToolGate`? | 2 callers, 2 recorded actions of 7 kinds, guarded and direct |
| `AnchorInteractive` | With a human who may answer anything, and memory, plan and step-output requests in between. | 1 caller, 2 recorded actions, 4 memory events, 2 outputs |
| `PatchingPasses` | Do patches stack up, come off, and process what is sent? | a guarded and an unguarded SDK with a client each, 2 layers, 2 modes, 1 call |
| `ContentChecks` | What is masked, neutralised, blocked, judged by whom, and can be undone; does the pipeline implement `MaskingCall`? | PII: one call with a text of up to 4 cells, all detection modes, any detectors failing, the regular expressions too, and up to 2 stages raising in one call. Security: 2 threads, texts of up to 4 phrases, both paths, all modes |
| `AroundTheModel` | What survives the optimizer and the output guard, what is sent unprocessed, what runs twice, what is judged, and what is put back when something fails? | prompts of up to 3 sentences, 2 calls of a validator with 0 to 2 retries, streams of up to 3 chunks, bodies of a few fields, chains of up to 3 tools, agents of 3 parts, entry points nested up to 4 |
| `CallsAndServices` | What may a call return, is it counted once, do calls, turns and waits end; what do the services behind it keep? | see below |
| `AnchorMemoryScopes` | finding 1 | no actions |
| `AnchorPlanEvidence` | finding 2 | 1 action |
| `SandboxThreadsWrite` | finding 3 | 2 threads, one call each |
| `ProcessorStrictTimeout` | finding 4 | every mode, profile, prompt and fault, 2 retries |
| `PatchingSendsRaw` | finding 5 | as `PatchingPasses`, one mode, one layer |

`CallsAndServices` explores one of ten parts at a time:

| Part | Bounds |
|---|---|
| processor | all modes and profiles, prompts with up to 3 copies of a value, lite and hybrid detection that may or may not fail unseen, up to 2 retries, with and without a deadline, every fault |
| turn | 2 turns, 2 tools of which the agent has any subset, 2 retries, 2 tool rounds, up to 2 fallback adapters; governed or not, routing or not |
| sandbox | depth 3, 4 governed calls in one thread, 3 policies, 2 modules, 3 paths, enforcement on and off |
| matcher | 3 additions of patterns that overlap and contain one another, 2 labels, texts that hold them |
| filter | 16 positions, 2 hashes that collide, every order of insertion, files whole and cut |
| memory | any order of installing the artifacts and of scoring, 2 texts scored |
| store | 2 threads, 2 directories, 2 files, 1 restart, every step may fail |
| advisor | 2 processes, 2 calls, 5 machines (no card, a card that shares little or much of the memory, two cards), a cache that expires once |
| metrics | 2 threads, 3 requests, 4 events a request, a queue of 8 |
| trace | every choice of stages, with failures, traced and debugged or not |

Why the bounds are enough.  Three actions are what the longest rule needs: a
write, something harmless, a deletion, where looking at the newest pair alone
would miss the write.  Two suffice for a transition, which is why
concurrent and interactive runs stop there.  Two callers are enough for one to
change what the other has read; a third adds only more of the same.  Tools are
one of each capability, and one that only its name gives away (`wipe`, whose
requests `AnchorConcurrent` leaves to `AnchorSession`); the contexts are an
adapter's, an empty one, and one that asks for more than the baseline.  Nesting
of three has a call that is both inside and outside another.  Two layers give
every pair of patch and wrapper, in either order, and let an unguarded patch
wrap itself.  One caller is enough for `PatchingPasses` because calls share
nothing but the switches, which move freely between the steps of one.  Two
retries make a first, a middle and a last attempt, two tool rounds a first and a
last one, two fallbacks one that is followed by another; the second turn is
there for what the first might leave behind.

Three copies of a value are more than a call has hybrid passes, so that one is
left.  A text of two cells has a value beside a value, a cue, a name or a word;
three make a value repeated around another, and a name beside both.  Two raising
stages are one whose fallback feeds another.  Three sentences let the optimizer
find a repetition, a header and a list; two retries are the fewest that mend
anything in the validator.  Agents of three parts have a tool two links away and
a cycle back to the root.  Four entry points on the stack are one that calls
itself between two others.  In the metrics, a third request evicts the first
one's events, and there are more requests than threads, without which
`StatsOffByThreads` could not fail.  A restart is worth taking once: all it
leaves is what is on disk.

`AnchorSession` uses a transition matrix that allows a clean-up after a write,
so that the capability rule, and not the matrix, has to stop it; the other
ANCHOR runs use the matrix `scripts/bootstrap_models.py` writes, under which
every repeated category and every deletion is anomalous.

`ContentChecks`, `AroundTheModel`, `CallsAndServices`, `SandboxThreadsWrite` and
`ProcessorStrictTimeout` switch off the deadlock check: a call, a request, a
stream or a turn comes to its end, and the number of calls is bounded.
`WhatBeginsEnds` is what says that processing, turns and `ensure_models` do not
stop before their end.

## 4. Properties

Every module states its properties one by one, each under a comment that says
what it means for the code.  What belongs together is checked, and proved,
together: the passing runs check the properties of this table, whose parts are
named definitions of their own, most often with the module's type invariant in
front.

| Checked | Together |
|---|---|
| `LocalSessionsStayLocal` | `NoEscapeUnderLocalBaseline`, `LocalToolsRunOffline` |
| `PatchesComeOff` | `UnpatchedIsOriginal`, `PatchedOnce` |
| `WrappersSendProcessed` | `FailedIsNotSent`, `ScopedCallsSendProcessed` |
| `ResultsAreScrubbed` | `UntimedStrictRefuses`, `UndegradedIsScrubbed` |
| `ProvidersAskedInTurn` | `AttemptsBounded`, `FallbackIsLastResort` |
| `TurnsEndProperly` | `ToolTextOnlyAtLimit`, `FinalisedOnce` |
| `ScopesHold` | `WritesStayInScope`, `OfflineToolsImportNoNetwork` |
| `ValuesAreMasked` | `StructuredValuesMasked`, `MaskSpansDisjoint`, `DroppedStaysReadable` |
| `LayerMaskingIsExact` | `EveryOccurrenceMasked`, `MapRestores` |
| `AnswersFitVerdicts` | `NeutralizedOnEveryPath`, `NoFalseAlarm`, `LayerVerdictStands`, `FailClosedHides` |
| `MeaningSurvives` | `NumbersSurvive`, `NegationsSurvive`, `LostConstraintsAreOffset`, `LockedTextUntouched` |
| `AnswersComeWhole` | `IntactJsonComesWhole`, `GuardKeepsAnswers` |
| `ReportsAreTrue` | `StatsAddUp`, `ValidIsValid`, `RepairedIsUsable`, `RepairsNeedTwoRounds` |
| `WrappedCallsDeliver` | `UnseenPromptsOnlyAreRaw`, `ChunksJoinToTheStream`, `ForeignItemsComeLast`, `StreamsComeInChunks` |
| `EndpointsGetTheirPrompts` | `FieldsKeepTheirText`, `FoundPromptsAreMasked`, `DecoratedWholly`, `RerunsOnlyAfterRaise`, `OriginalTopLevelKept` |
| `WrappersProcessOnce` | `NothingSentUnprocessed`, `ProcessedOncePerWrapper`, `MetricsAreOwnWhenAlone` |
| `ChainsKeepTheirMode` | `ToolsGivenProcessed`, `PostprocessedUnlessAllFailed`, `StoppedAtFirstFailure` |
| `ToolsAreGoverned` | `DiscoveryIsComplete`, `ToolsStayCallable`, `WrappedOnce`, `ListedToolsAreJudged` |
| `RunsKeepTheirContext` | `ContextComesBack`, `OuterMissionStands`, `BlockedOutputsAreHeld` |
| `ScansAreExact` | `MatchesAreOccurrences`, `BackendsAgree` |
| `ScoresErrOnTheSafeSide` | `NoNumberIsNotSafe`, `AgreementOnlyRelaxes`, `PhrasesAreFound` |
| `StoreIsSound` | `DownloadedOnce`, `MarkerMeansWhole` |
| `AdviceIsSound` | `CatalogsAreOneSource`, `RecommendedFits` |
| `StatsAreSound` | `CountersNeverOverstate`, `StatsOffByThreads`, `QuietStatsAreExact` |
| `TracesAreSound` | `TraceTellsTheRun` |
| `WhatBeginsEnds` | `EveryCallEnds`, `EveryTurnEnds`, `EveryAskReturns` |

The others are checked as they are.  What they say, and when they hold:

**ANCHOR runtime.**  `MissionKeepsBaseline`: no sequence of phases loses a
restriction of the session's baseline.  `NoEscapeUnderLocalBaseline`: under a
local baseline a tool that can send data out or destroy it runs only after a
human consented to that very call, whatever is merged between judging and
running it.  `LocalToolsRunOffline`: no sandboxed tool of a local session has
the network.  `ImplementsToolGate`: no interleaving shows as anything but calls
granted or refused once.  `NothingDestroyedAfterWrite`: headless, no destructive
tool runs after a writing one.  `NothingRunsAfterAnomaly`: an anomalous
transition, even a refused one, stops the session's tools for good unless a
mission tolerates HIGH risk.  `DenialQuotesItsBlock`: the message of a denial
quotes the verdict that caused it.  `LowToleranceKeepsToSession`: a LOW-risk
session whose warnings are held writes outside session memory only with consent.

`NothingDestroyedAfterWrite`, `NothingRunsAfterAnomaly` and
`DenialQuotesItsBlock` hold for one caller.  With two, a call judged before
another's anomalous append may still run, and a denial may quote the other's
approval: the code keeps one shared history and no document says what should
happen.  `NoEscapeUnderLocalBaseline` and `ImplementsToolGate` hold for several
callers only while the runtime is initialised once: a second
`initialize_mission` changes the baseline under a call that was judged against
the first, so `AnchorConcurrent` sets `Reinit` to FALSE.  That run checks
`ImplementsToolGate` alone, since the gate says of every interleaving what
`LocalSessionsStayLocal`, which `AnchorSession` checks, says of one caller.
LangChain's adapter initialises on every invocation, one caller at a time, which
is what `AnchorSession` covers.

**ANCHOR adapters.**  `DiscoveryIsComplete`: a tool of every name that can be
reached through any links and cycles is found, once.  `ToolsStayCallable`:
wrapping, once or twice, takes no tool away.  `WrappedOnce` and
`ListedToolsAreJudged`: the tools an agent lists itself are judged, each once a
call (but for LangChain's own).  `ContextComesBack`: the bound runtime and the
patched functions are put back when no entry point is left, unless a stream was
left.  `OuterMissionStands`: entry points within another only refresh its
mission (but for a graph that streams to itself).  `BlockedOutputsAreHeld`: a
blocked output does not come back through an entry point that raises on a block.

**Sandbox.**  `HooksOnlyWhileExecuting`, `WritesStayInScope` and
`OfflineToolsImportNoNetwork` hold for nested calls.  The first two fail for
threads (finding 3).

**Poisoning classifier.**  `NoNumberIsNotSafe`, `AgreementOnlyRelaxes` (the lite
weights can only make a verdict milder), `PhrasesAreFound` (to the lite
classifier a known phrase is never SAFE, unless in leetspeak),
`NoFalseNegatives` (the filter in front of the scanner hides nothing that was
added, also from a file), `MatchesAreOccurrences`, `BackendsAgree` (for matchers
built once, without a pattern twice).

**Agent turns.**  `AttemptsBounded`: retries multiply by passes and tool rounds
and by nothing else.  `FallbackIsLastResort`: a fallback gets the prompt only
when those before it have used up their attempts.  `ModelSeesEveryRun`: what ran
is what the conversation says ran, in order, when tools raise or are denied.
`ToolTextOnlyAtLimit`: a run with tools hands out an unanswered tool request
only when its iterations are spent.  `FinalisedOnce`, and the liveness property
`EveryTurnEnds`.

**Processor.**  `UntimedStrictRefuses`: what a strict call returns without a
deadline is as clean as its security passes make a text: with the lite detector
nothing is left that the patterns know, with the hybrid one what occurred more
often than there were passes, and no name the models find.
`UndegradedIsScrubbed`: in a result of `process()` that is not marked degraded
the patterns find nothing but what occurred more than once, also when the
security stage failed and was passed over, as the scrub at the end is the second
line.  Both leave out calls whose PII pipeline may fail unseen (section 6).
`CountedOnce`, `NothingRunsAfterRefusal`, and the liveness property
`EveryCallEnds`.

**PII pipeline.**  `StructuredValuesMasked`: whatever moves its score and
whichever other stage or detector fails, if the regular expressions answered and
neither detection nor masking raised, a structured value with a valid check
digit is masked at least where it first stands.  `MaskSpansDisjoint`, without which
masking from right to left would be unsound.  `DroppedStaysReadable`: what
scoring dropped is still there to be read; only where nothing passed the floor,
so that the list stays as it was, may a later stage raise a score over the floor
again and mask it, and then all that is listed was dropped before.
`UnmaskRestores`: the map undoes a call, unless two values share a label, a
fallback masked, or labels were rewritten.  `ImplementsMaskingCall`.

**Security service.**  `AloneUsesOwnMode`: a call nobody overlapped is judged by
a detector of its own mode.  `NeutralizedOnEveryPath` (of the phrases the
layer replaces none is left, unless the safety classifier judged the text, whose
verdict then replaces the layer's), `EveryOccurrenceMasked`,
`MapRestores` (rule path), `NoFalseAlarm`, `LayerVerdictStands` (when the
classifier cannot answer), `FailClosedHides`.

**Optimizer.**  `NumbersSurvive`: of the numbers the patterns count the same, in
the same order, as often, in prompts without a number such as 3.5GB, of which
they count a part.  `NegationsSurvive`; `LostConstraintsAreOffset`: a constraint
word is lost only if a template or a sentence the optimizer added holds another;
`LockedTextUntouched`.

**Answers.**  `IntactJsonComesWhole`: flawless JSON in a text without braces of
its own, and for an array of more or less than one object without brackets of
its own, comes back whole, but for the brackets of an array of one object;
`GuardKeepsAnswers`; `StatsAddUp`: a call is counted once and once more by how
it ended; `ValidIsValid`; `RepairedIsUsable`; `RepairsNeedTwoRounds`.

**Patching and wrapped calls.**  `UnpatchedIsOriginal`, `PatchedOnce` (for
guarded SDKs; for the others double wrapping is what the code does),
`FailedIsNotSent`, `ScopedCallsSendProcessed` (of prompts that stand where
`wrap_llm` looks).  `UnseenPromptsOnlyAreRaw`: a
prompt goes out raw only where its wrapper does not look for it;
`ChunksJoinToTheStream`, `ForeignItemsComeLast`, `StreamsComeInChunks`: the
chunks a caller takes join to what the provider said, however cut, failed or
left.

**Integrations.**  `FieldsKeepTheirText` (no prompt is answered in another's
place), `FoundPromptsAreMasked` (where the processed body is delivered),
`RerunsOnlyAfterRaise` (an endpoint is run again only after it raised, and then
finds no body), `DecoratedWholly`, `OriginalTopLevelKept`.
`NothingSentUnprocessed`, `ProcessedOncePerWrapper`, `MetricsAreOwnWhenAlone`.
`ToolsGivenProcessed`, `PostprocessedUnlessAllFailed`, `StoppedAtFirstFailure`.

**Services.**  `DownloadedOnce`, `MarkerMeansWhole`, and the liveness property
`EveryAskReturns`.  `CatalogsAreOneSource`: a call that does not raise is
answered from one source, never with a mix nor a torn file, and a refresh, which
does not read the cache, never raises.  `RecommendedFits`, on machines with at
most one card that shares the processor's memory and, if that card reports 2 GiB
or more, no other (`SharesOnce`). `CountersNeverOverstate`, `StatsOffByThreads`
(a window's totals are off by at most one request a thread),
`QuietStatsAreExact`.  `TraceTellsTheRun`.

Fairness: weak fairness of the engines and of the caller of `process()`, of the
steps inside a turn, and of each thread inside `ensure_models`; none of the
deadline, of new calls, of restarts.  The engines are straight-line Python and
the caller returns from `result()` or from the join as soon as the worker
allows; a deadline need never pass.  That the detectors and models inside a
stage terminate is assumed.  A provider call ends by its timeout, and that a
tool returns or raises is assumed.  A thread in `ensure_models` waits for a lock
whose holder gives it up before it returns, whatever fails, and its downloads
have timeouts.  ANCHOR states no liveness: a human need not answer.

## 5. Proofs

Eight modules hold theorems; tlapm checks every step with Z3, Zenon and LS4. The
constants are arbitrary but for the named assumptions of the modules, which TLC
evaluates in the runs: types of the parameters, `pattern` PII among what the
detectors find, a default write scope outside `data/`, a filter of whole bytes,
finitely many recording threads, finite catalogues with whole sizes, readable
requests, texts to mask that are made of words, names and values of the four
kinds and hold no label yet (`InputsAssumption`), probabilities between 0 and 1,
and the like.  No theorem needs induction over data from the library.
`DataLemmas` does without it: of a set of numbers that is not empty it takes the
least (`LeastNat`, from the library's well-foundedness of `<`), so what fails
somewhere fails somewhere first.  From that come what a finite sum, a flattened
sequence (`FlatHolds`, `FlatLength`) and the values of a recursive function are,
that every finite set can be arranged by a strict total order (`SortExists`, so
that a sort's `CHOOSE` has something to choose) and what a filter keeps, in
which order (`Thinned`). Where a fact is wanted of every number or of every
sequence, the set of those that have it is shown to hold the first and, with
each, the next (`CountedUp`, `BuiltUp`).

`AnchorRuntimeProofs`.  `MergeKeepsRestrictions` is a fact about the merge
alone.  `TypeCorrectness`, `BaselineIsKept`, `LocalSessionsAreOffline` and
`NoEscape` follow from `IInv`, which adds to the properties
- `SessionInStep`: the mission, the session and the sandbox policy are set
  together, so a tool that starts reads the policy of the merged contract;
- `BridgedNamesTool`: only a bridged request reaches a tool, and it names one;
- `DangerIsHeld`: a dangerous call under a local baseline that was judged was
  judged BLOCK, and one that is past the approval engine has a human's consent.

`DangerIsHeld` is what makes the argument go through with several callers: the
verdict may have been reached under another phase's contract than the one in
force when the tool runs, but every contract of the session is local if the
baseline is (`MissionKeepsBaseline`), the guard blocks dangerous tools under
every local contract (`DangerIsBlocked`), and a BLOCK is lifted by a human or
not at all (`BlockNeedsHuman`).  `NoEscape` assumes `~Reinit`, as section
4 explains; `LocalSessionsAreOffline` and the others hold without it.

`RuntimeImplementsGate` proves `ImplementsToolGate` from the same invariant,
under `~Reinit`: every step of the runtime is a step of `ToolGate` or leaves its
variables alone, for any number of callers.  `LowRiskMemory` assumes that
reviews go to a human or are refused (the case the property is about); its
invariant adds that nothing is remembered before there is a mission.
`DenialsQuoteTheirBlock` assumes one caller: then the last approval is this
call's from the decision to the report.

`NothingFollowsAnomaly` and `NothingIsDestroyed` are action properties, stated
where no human is asked and for one caller, the only case they are about: two
callers may both be judged before either has run.  They follow from `SessionInv`
and `AloneInv`: `InHistory` (what ran is among the recorded actions, and the
call on its way is the last of them) and `Passed` (what each verdict on the way
to the tool was, of the mission and the history in force).  A step that runs a
tool then has a history the chain guard did not block, and that history names
all that ran before.

`PatchingProofs`, sandbox, for one thread (`OneThread`) at any depth.
`HooksInv` says that only the innermost call moves (`InnermostMoves`), that the
open of each call is its own guard on what it found, which is the open of the
call around it (`ChainedOpens`) and so holds the guard of every enforcing call
around it (`SavedGuards`), and that whatever is hidden a call on the stack has
hidden (`HiddenByCalls`).  From it: `HooksTypes`, `NestedWritesStayInScope`,
`HooksComeDown`, and with `OfflineHides`, and modules that are loaded before
(`AllLoaded`), `NestedImportsStayOffline`.

`AgentCallProofs`, prompt processor.  `IInv` adds `AttemptsEnd` (an exception
ends its attempt; nobody who has an answer has left a stage running),
`CountingIsLast` (a success is counted with the result, a failure with the
answer), `TextsShrink` (a pass takes copies away and adds none),
`StrictIsMasked` (past the security stage a strict call works on a text that is
as clean as one pass makes it, and ends with one that is as clean as its last
makes it) and `DoneIsScrubbed` (a finished text holds what the patterns know
only where it was repeated).  `CleanAfter` counts the passes, since each is sure
of one copy only.  From it: `ProcessorTypes`, `StrictRefuses`,
`UndegradedResults`, `CallsAreCountedOnce` and the action property
`RefusalsAreFinal`.

`PatchingProofs`, patching.  `IInv` adds `OriginalsAreOwn` (what is kept is the
SDK's own, and what is not kept was never replaced), `GuardedOnce` (a guarded
function has one layer at most, and methods that kept it one patch) and
`CallsInOrder` (a call on its way has neither failed nor been sent; past a
processing wrapper that saw its prompt it carries processed text).  From it:
`PatchingTypes`, `OriginalsComeBack`, `GuardedPatchOnce`, `FailuresStayIn` and
`WrappedCallsAreProcessed`, for any number of SDKs, clients, callers and layers.

`AgentCallProofs`, agent turns.  The invariant adds `TurnInRange` (no leg is
past the last, no response is parsed after the last iteration) and `AskedSoFar`,
which ties the history of provider calls to where the turn is: under
`run_with_fallback` the count of the adapter in front is exactly its full passes
and the attempts of this one, those before it are exhausted and those behind it
untouched; under `run` the count is within `round * (Retries + 1) + attempt`.
The budget is a product of two constants, so two lemmas about products carry the
step from one round to the next.  From it: `AgentTypes`, `AttemptsAreBounded`
and `FallbacksComeLast`.  A second invariant, `EndInv`, counts what a turn still
owes: a governed run on its way owes one finalisation (`FinalisationOwed`), and
each round has added one report to the conversation (`RoundsReported`).  From
it: `SessionsAreFinalised` and `RequestsEndAtLimit`.  `ModelIsToldOfRuns` takes
a lemma about the fold that numbers the runs in a conversation (`RunsAppended`);
with it `ModelSeesEveryRun` is inductive over `TurnTypeOK`.

`PromptStageProofs`, security service, for any number of threads and any texts.
`OwnModeAlone` is about two threads that share one detector: `ModeInv` adds that
whoever overlapped with another is marked (`OverlapIsSeen`) and that an unmarked
call that was judged was judged by the detector of its mode (`OwnDetector`).
`AnswersFit` and `MaskingIsExact` need two invariants per thread: what is
decided at each place of a call, from the threats found to the reply
(`CallInv`), and which text that is (`TextInv`): the one that was asked about,
or what the hybrid pipeline made of it, then the layer's, then that or the
placeholder.  What the layer makes of a text is known for texts of any length:
- `ReplaceHides`: replacing a value leaves none of it and brings none back that
  was gone.  The hard case is the full address, which could come together from
  two cells that a replacement moved side by side; whatever stands between them
  would have been part of that replacement, and then so would they
  (`FlatBeside` says what comes side by side when parts are joined).
- `ReplaceRestores`: putting values back after a replacement gives what putting
  them back before gives.  Token by token both give the same, but for a full
  address, where one token gives the cells of two (`FlatRegrouped`).
- `MaskingExact` takes both over all values, in the order `ByType` lists them,
  and `PutBackNeutralized` exchanges putting back with neutralising, as one
  replacement after another is a third (`SpreadTwiceOver`).
- `LowIsSafe`: on harmless text a probability below 94% of the blocking band is
  neither a hit nor escalated, whichever mode the shared detector had, and its
  score stays below HIGH.

`PipelineProofs` is about texts of any length, any keywords beside them, any
overrides and bad checksums, and any number of raising stages and failing
detectors.  None of its properties is inductive: each speaks of the end of a
call, or of one stage.  `PipeInv` ties every stage to the text the call works on
(`BaseText`, the normalised one unless normalisation raised):
- `Listed`: every entity is a span of the base text, of one value or of two
  capitalised words, with the text it stands on, and no two share a cell.  This
  holds after detection and through every rescoring, filter and sort, and it is
  why masking by positions that were taken before the first replacement is sound;
- `Sure`: where the regular expressions answered, every structured value with a
  valid checksum has an entity whose confidence is at least 900 after detection
  and 700 from scoring on, by whichever path each stage went, and so over the
  floor of 550 when it is masked. Without the numbers the property would not
  survive the next stage: the spreading of scores keeps a structured one that
  reached 750 (`StretchHolds`), scoring's fallback replaces it by one for its
  type, and a teaching context lowers all but the structured ones;
- `LostStands`: what scoring dropped shares no cell with what is still listed,
  or everything that is listed was dropped;
- `AllMade`: from masking on, the text is the base, the base with every entity
  that passes the floor replaced by its label, or the repair of one of these,
  and the map is the one those labels make.

What carries the step of each stage are facts about whole texts:
- `DeduplicateHolds`: of overlapping entities one is kept that is at least as
  sure (`Stays`); removing an entity for a surer one uncovers nothing, as all
  detectors report a value by the same cell (`AllReport`, `SpeaksFor`) and the
  list is taken from the surest down, so that a later entity never is surer;
- `AppliedWalk`: masking from right to left is one walk over the text that puts
  a label for each entity and every other cell as it stands (`WalkDown`, by the
  first position at which the two would differ).  From it: what the masked text
  spreads to (`MaskedSpread`), how often a value still occurs (`MaskedCounts`),
  what between two labels can be read (`MaskedReads`);
- `Unmasked`: putting back what the map holds gives the base, if no two masks
  are the same label;
- `MadeAround`, `MadeCounts`: what is not a value is all there, in its order, and
  no value occurs more often than it was sent, also after `Repair`.

From it: `MaskingHolds`, `UnmaskingHolds`, and by `PipeRefines`, step by step,
`PipelineImplements`: the stages are stutters of `MaskingCall`, `Finish` and the
two stages that may give up are its `Answer`, an empty text its `Refuse`.

The attempt to prove `DroppedStaysReadable` showed that an earlier form of it was
false: it said that what scoring dropped always stays readable.  With teaching
and personal words in one text scoring may drop everything; the context keeps
its old list then (`base_stage.py` takes a list over only if it is not empty),
with the low scores written into it, the personal words outnumber the others,
and the context stage raises a dropped entity over the floor again, where it is
masked after all.  The instance has such keywords now (`MCSayings`), on which TLC
finds the same, and the property says what does hold.

`AroundTheModelProofs`.
- Validator: `SvInv` adds `RepairSoFar`: until a repair the text is the one that
  came in, no repair makes a fragile one whole, and what is revalidated parses.
  From it: `ValidatorTypes`, `CountersAddUp`, `ValidTexts`, `RepairedTexts` and
  `OneRoundMendsNothing`.
- `AnswersStayWhole` needs no invariant beyond the property: answers are of
  finitely many kinds, and each repair is decided kind by kind.
- `CallsDeliver`, for streams of any length and chunks of any size: `WcInv` says
  that what the caller took are whole chunks followed by what the response ends
  with, and that these chunks joined are the stream up to where it was read.
- `PromptsArrive`: `WebInv` says which body the endpoint would be given at each
  place of a request (`Bodies`), which places each door reaches (`Phases`) and
  that every field looked at is as it came or masked (`Prompts`).
- `ProcessedByWrappers`, for any number of callers of one wrapper: `PipeInv` says
  how often each item held has been processed (`ItemsHeld`), that what was sent
  was held (`SentIsHeld`), and that who met nobody has the metrics (`AloneInside`).
- `ChainModesHold`, for chains of any length: `ChainInv` says what the tools
  before the current one were given and returned, and that there is no result
  of one ahead (`NoneAhead`).
- `RunsKeepContext`, for any depth of nesting: `RunInv` says of every entry point
  on the stack that it found the context as the one around it left it
  (`FrameFits`), of the innermost what it has left of it (`InContext`), and that
  the mission of the outermost stands (`OuterStands`): an entry point that is
  called from within only refreshes it, a graph that streams to itself apart.
- `ToolsGoverned`, for any agents: discovery ends, as there are finitely many
  parts and each round of it reads only what is above the parts seen
  (`RoundsAgree`, `DiscoverFromIs`).  What it finds from a part, of what was not
  seen before, is closed under links, can be reached, and has one tool of each
  name (`FoundFrom`); a smallest number of unseen parts for which this fails
  cannot be.  `ToolInv` adds that once an agent is anchored whatever was handed
  to its adapter is wrapped (`AnchoredWell`), and which doors the outermost entry
  point came through, so that only MCP's, which holds no tools, leave any.

`ServicesProofs`.
- Filter: `PfInv` adds that a file was written by a filter of ours
  (`FileOfOurs`).  From it: `FilterTypes`, `NothingAddedIsDenied`.
- Model store: `StoreInv` adds that at most one thread is between taking and
  giving up the lock (`OneCopies`), that its target has no marker
  (`UnmarkedTarget`), and that what it has passed over is whole (`CopySoFar`); so
  the marker is true whatever failed or died before.  From it: `StoreTypes`,
  `DownloadsHappenOnce`, `MarkersAreTrue`.
- `ScoresAreCautious`: `MpInv` says which scores the forest and the centroid can
  give each text by what was installed when they were loaded.
- `TracesTellTheirRuns`: `RtInv` says that a stage under way is the one that is
  open (`OpenStage`) and that the closed ones are those that ran (`TracedSoFar`).
- `StatisticsAreSound`: a window is off by what was being recorded when it
  began or is being recorded now, so by at most one a thread (`WindowsOff`).
  The window slides, so this is said of every suffix of the events.
- `AdviceFits`: a catalogue is the shipped or the fetched one, never both
  (`OneSource`), also in the cache, which a process may leave torn; and what is
  recommended fits memory that is counted once, on the machines of `SharesOnce`.
- `MatcherIsExact` is the correctness of the automaton, for any alphabet,
  patterns and texts.  Three lemmas carry it, each by the first place it would
  fail.  The link of a node is its longest proper suffix in the trie
  (`FailureLinks`), as going back along such links meets every suffix in the
  trie, longest first (`BackSettles`).  The node a scan is in is the longest
  suffix in the trie of what was read (`ScanFollows`).  What a node reports after
  the build is what its suffixes held, longest first (`InheritedGathers`).
  `AcInv` then says what the nodes hold between additions and builds: before the
  first build their own patterns, after it those of their suffixes, and after a
  second one the same with repetitions.

`PromptStageProofs`, optimizer.  `MeaningKept` is about prompts of any length, so
what the stages compute over a text has to be known for every text.  Each of them
puts, for a word, the words of a table (`Each`): replacing distributes over
joining (`EachConcat`, `EachOver`), and one table after another is a third
(`EachTwice`).  From that: `CompressKeeps` (numbers stay, tokens do not grow),
`SentencesPart` (splitting at points takes a number with a point in it apart and
changes nothing else), `DistinctKeeps` and `PruneKeeps`.  The core of the last
is an equality of counts: taking a decimal apart and dropping a repeated
sentence both lower the number of matches and nothing raises it, so as many
matches mean that neither touched a number.  For the keywords `NoneNegates` (no
sentence that shaping adds negates, so as many kinds are the same kinds) and
`LostAreOffset` (as many kinds of others are lost as came).  `OptInv` then says
what the text is at each stage: the prompt, compressed or built, pruned, shaped.

The combined properties of section 4 have theorems of their own: `LocalSessions`
(under `~Reinit`), `PatchesAreUndone`, `WrappersProcess`, `ResultsScrubbed`,
`ProvidersInTurn`, `TurnsEnd`, `NestedScopesHold` (under `OneThread` and
`AllLoaded`), `StoreSound`, `TrueReports`, and those above of the modules with
one property.

Only model-checked: the liveness properties (`EveryCallEnds`, `EveryTurnEnds`,
`EveryAskReturns`, together `WhatBeginsEnds`), which are out of the prover's
reach.  Every other property of a passing run has a theorem.  The model of the
PII stages computes with trained weights only as tables, so what is proved of
scores is proved of these tables.

## 6. Findings

1. `AnchorMemoryScopes` - merging a phase keeps the phase's memory scopes, so a
   refresh whose prompt falls into another domain may write to that domain's
   memory (`mission_session.py:43`; `runtime.py:71` says "without weakening
   baseline mission constraints").
2. `AnchorPlanEvidence` - while nothing was granted the history of requests,
   refused ones included, is taken as the tools used (`runtime.py:282`;
   `plan_guard.py:53`).
3. `SandboxThreadsWrite` - a call that ends restores the `open` it found under
   another call that is still running (`sandbox/hooks.py:50`, `:13`).
4. `ProcessorStrictTimeout` - a strict call whose deadline passes returns the
   prompt as it came (`processor.py:192`, `:210`).
5. `PatchingSendsRaw` - a patched SDK does not recognise the `ProcessResult` and
   sends the raw prompt (`auto_patch.py:256`, `:122`).

What else the models do that a reader of the code or its documentation might not
expect.  These have no run of their own; the properties of section 4 are stated
so that they hold in spite of them.

Prompt processor, agents, patching and wrapping:
- outside strict mode a security stage that fails and is passed over may leave the
  prompt as it was, in a result that is not marked degraded (`processor.py:459`;
  "Degraded result, `degraded=True`", `docs/security.md:74`);
- a call whose deadline passed waits for its worker to finish
  (`processor.py:171`; `docs/performance.md:123`);
- `disable_auto_patch` leaves the patches in place (`auto_patch.py:786`, `:159`);
- an error of the provider is reported as "refusing to send unprocessed prompt"
  though the prompt was sent, processed (`auto_patch.py:342`, `llm_wrap.py`);
- some prompts are not looked for and go out raw: keyword arguments other than
  `messages` and the strings under `prompt`, `input`, `text`, `query` and
  `content`, so `system=`, `contents=` and a list as `input` (`llm_wrap.py:87`,
  `documents/attachments.py:77`, `:212`); positional ones through a nested
  wrapper or `wrap_method`, positional lists through `wrap_llm`, keyword ones
  through `wrap_function`;
- a stream that breaks off yields the response object as a chunk and then ends
  normally (`core/streaming.py:50`; `docs/core-concepts.md:123`); one of the
  other kind is delivered as a single item;
- the fallback providers an `Agent` is configured with are stored and never asked
  (`runtime/adapters/factory.py:147`; `docs/experimental-features.md:94`), and
  `add_fallback` raises on an adapter that has none (`runtime/agent.py:311`);
- a primary that is out of retries is given them all again
  (`runtime/agent.py:219`; "retries: Number of retry attempts" at `:74`).

ANCHOR:
- the MCP proxy's `acall_tool` runs its tool outside the sandbox
  (`adapters/mcp.py:116`; `docs/anchor.md:77`), and a denial comes back without
  having been governed as an output;
- overlapping threads can leave a guarded `open` or hidden modules behind for
  good (`sandbox/hooks.py:50`, `:18`);
- hard isolation cannot start its child, whose target is a local function that
  `spawn` cannot pickle (`sandbox/hooks.py:65`; `docs/anchor.md:210`);
- runs are not finalised by LangChain's `ainvoke` and `stream`, the generic
  `ainvoke` and MCP; LangChain and graph entry points always initialise;
- a LangChain tool that was wrapped is not recognised as such and is judged
  twice; adapters replace the tools of the root and of its children by the union;
- AutoGen and a graph's `astream` hand a chunk on before it is governed, and a
  stream that is left may leave the runtime bound;
- anything with a `run` goes to the LlamaIndex adapter, and a LangChain runnable
  to the graph adapter;
- while a CrewAI agent's model is called `litellm.completion` is replaced for the
  whole process (`adapters/crewai.py:148`);
- the model bundle downloads itself on installations without the libraries it
  needs; the hardened classifier is chosen because its file is there, and every
  memory write then raises `ImportError`;
- in the lite bands a known phrase alone is REVIEW at most.

PII pipeline and security:
- when the pipeline fails it returns the original text without raising
  (`core/pii_pipeline/pii_pipeline.py:189`, `:307`),
  and nothing the processor reads of its answer tells;
- regular expressions that fail or take more than five seconds are caught like
  any other detector, and the call succeeds with the values in it
  (`core/pii_pipeline/stages/detection_stage.py:168`, `:384`);
- of a value that occurs twice only one occurrence is masked a pass, and the
  call succeeds, since the final verification has no leak patterns
  (`core/pii_pipeline/components/detectors/regex_detector.py:76`;
  `stages/verification_stage.py:14` says "- Final PII leak detection");
- labels of the `[X_HASH]` form fail the main verification; its fallback then
  fails the whole call, and returns the original text, if an e-mail is left;
- two phones share a label, of which the map keeps one;
- a card number with a wrong check digit stays readable beside an e-mail;
- an override of the detection mode stays for later calls, and what a raising
  stage's fallback returned is dropped;
- the safety classifier's `is_safe` replaces the layer's
  (`core/security/service.py:127`): a phrase the layer marked as an injection
  may come back as safe with its text unchanged (`README.md:114`);
- the ensemble mode warns that it uses the lite path but raises
  `ModuleNotFoundError` (`core/security/injection_detector.py:62`);
- with two threads a call may be judged by another mode's detector;
- a value that starts inside another leaves the rest of it readable, and the
  hybrid path masks once under a label;
- `derive_threshold_at_fpr` may return a threshold whose false positive rate is
  above the target when scores tie.

Optimizer and answers:
- numbers with letters on them are not counted by the safety check, and 3.5GB
  may be sent as "3. 5GB" (`core/safety_constraints.py:69`);
- the words of a template count as the prompt's: "REQUIREMENTS" offsets a lost
  "must" (`core/compiler/msdpc/structure_builder.py:31`,
  `core/safety_constraints.py:80`);
- a plain prompt nearly always reverts; fillers in "-ally" hold "all", so that
  removing one is itself a violation;
- "exactly" may be dropped because a sentence the optimizer adds holds another
  constraint word; headers and list items are joined (the docstring of
  `FormatLock` says "optimization NEVER breaks");
- `optimize_tokens` reports what the reverted text would have saved;
- `safe_repair_json` returns an inner array for a flawed object that holds one,
  and the object for an array of one object in prose; its search for an array
  goes from the first bracket to the last, so that it fails on
  "As in [1]: [1, 2]" and takes a citation for the answer when the text has no
  other brackets (`core/output_guard.py:67`);
- `OutputGuard` never returns a value it repaired; a number in quotes becomes a
  number;
- `validate_json` never repairs what does not parse; REPAIRED content may still
  violate the schema, one retry mends nothing, and the success rate of repairs
  may exceed one.

Integrations:
- the copy of a body shares nested objects with it; dotted keys name other
  fields; Flask and Django views that read the body themselves get it raw; lists
  of a form-encoded Django body and lists of strings are not found;
- of the two FastAPI middlewares no release of Starlette has both deliver what
  they have processed, though `ASHAMiddleware` "forwards the optimized prompts"
  (`fastapi/middleware.py:58`, `:149`): before 0.28 the endpoint's body is that of the request
  given to `call_next`, from then on it is what the middleware's own `body()`
  has kept, or nothing after `form()`; the repository's test looks at a header
  only (`tests/test_fastapi_integration.py:37`);
- Starlette middlewares run an endpoint again after it raised, and it then finds
  no body;
- the FastAPI middleware sends a form body on as JSON under a form's content
  type, of which the endpoint reads no fields; the one of
  `framework_adapters` with a schema wraps prompts in braces;
- `optimize_queries=False` switches masking off too; `optimize_retrieval` is not
  read; a wrapper's last metrics are those of whoever called last;
- composers hand a `CompositionConfig` where an `IntegrationConfig` is expected,
  and `UniversalComposer.compose` calls a method its parts lack.

Services:
- building a matcher again, or adding to it, inherits outputs twice; a pattern
  with two labels has two matches in one backend and one in the other
  ("Both paths return identical Match results");
- one failed download keeps a process from ever trying again, for other
  directories too; a directory with the probe file but not the rest counts as
  populated;
- a fallback catalogue is cached as if it had been fetched; `get_catalog` raises
  where the cache's directory cannot be made or a record of it cannot be taken
  (`fetcher.py:229`, `cache.py:36`); two GPUs that share memory count twice, and
  so does one that reports 2 GiB or more of it beside another; the speed of a
  machine without a GPU grows with the model;
- timeouts and refusals are not recorded; counters lose updates, a window may
  report a negative number of failures, and a reader may meet a queue that
  changes under it;
- `log_error` does not increment a counter though it says so; nested stages
  overwrite the one open stage.

## 7. What is not modelled

Answers of regular expressions, heuristics and trained models are inputs: they
have no protocol.  File extraction, command line, benchmarks, telemetry and
exporters are I/O.  The compiler, the IR builder and the parser only render; to
the processor they are a stage that may fail.  The masking vault is dead code:
nothing in the package sets it or reads it.  Attachments (but for where the
wrappers look for a prompt), the batch and asynchronous twins of `process()`,
and which provider a model name or a task stands for are left out of modules
that model the rest of their component.  Of third-party frameworks the model has
what the adapters assume of them; how they are found by reflection is left out
beyond that.

Of the values the PII detectors know the pipeline's texts hold addresses, phone
numbers, cards and zip codes.  Of the other kinds some that the main path of
scoring treats as structured (`aadhaar`, `pan`, keys and tokens,
`scoring_stage.py:358`) get 0.5, under the floor, from its fallback
(`scoring_stage.py:525`): that they are masked when scoring raises is not claimed.

ANCHOR's capability registry is fixed while the model runs, so an MCP server
that lists its tools anew is not covered; the risk summary feeds telemetry only;
hard isolation never starts (section 6).  A tool's first import of a network
module inside the sandbox is not blocked by the code, which hides only what is
loaded; the run loads every module up front, as `docs/anchor.md` calls this mode
best effort.  The boundaries of the alignment bands are those of the code, but
scores that fall on one exactly arise only where the model's penalties produce
them.

## 8. Plan

Done: ANCHOR's contracts, guards, runtime and adapters, and the abstract gate
the runtime implements; the sandbox; the poisoning classifier; the prompt
processor; patching and wrapped calls; agent turns; the PII pipeline and what it
promises; the security service; the optimizer; output repair and schema
validation; middleware and framework wrappers; the model store, the advisor,
metrics and traces; theorems about all of these, with every property of a
passing run but the liveness properties among them.

Left:
1. capabilities re-registered while calls are judged (`tool_capabilities.py`,
   `adapters/mcp.py`), composed with `AnchorRuntime`;
2. the risk summary's arithmetic over the histories;
3. the PII kinds scoring's fallback does not know, such as `aadhaar`.
