------------------------- MODULE FrameworkPipelines -------------------------
(***************************************************************************)
(* Calls through the framework wrappers: prompt templates, LLMs, runnables,*)
(* query engines, retrievers and node post-processors of                   *)
(* integrations/langchain and integrations/llamaindex, and the LLM, client *)
(* and decorator wrappers of framework_adapters and composition_strategy.  *)
(* Several callers may use one wrapper, which keeps the metrics of its     *)
(* last call.                                                              *)
(*                                                                         *)
(* A call brings items: "text" is a string the wrapper can find, "opaque"  *)
(* anything else (a message object, a node without text, an input of an    *)
(* unknown type).  None of the wrappers has an exception handler: what     *)
(* process() raises, the caller gets.                                      *)
(***************************************************************************)
EXTENDS Naturals, Sequences, SequencesExt

CONSTANTS
  Callers,
  Uses     \* the uses of a wrapper to consider

Wrapper ==
  {"lc_template", "lc_llm", "lc_chain", "lc_runnable",
   "li_template", "li_llm", "li_query", "li_retriever", "li_nodes",
   "fw_template", "fw_llm", "fw_instructor", "fw_openai", "fw_decorator",
   "composer", "composed_api"}
Listed == {"li_nodes", "fw_instructor", "fw_openai", "fw_decorator", "composer", "composed_api"} \* take several items

Use ==
  [ wrapper  : Wrapper,
    items    : Seq({"text", "opaque"}),
    privacy  : BOOLEAN,     \* privacy, or enable_pii_detection
    optimize : BOOLEAN,     \* optimize_queries, or enable_optimization
    check    : BOOLEAN,     \* enable_safety_check
    debug    : BOOLEAN ]    \* debug_metrics

ASSUME UsesAssumption ==
  \A u \in Uses : u \in Use /\ u.items # <<>> /\ (u.wrapper \notin Listed => Len(u.items) = 1)

VARIABLES
  use,      \* of each caller
  step,     \* "idle", "processing", "again", "model", "reply", "done", "raised"
  held,     \* its items: whether masked, and how often process() had them
  sent,     \* what the model, engine or tool was given
  reply,    \* what came back of it
  metrics,  \* _last_metrics: the caller whose call wrote them last
  met       \* the caller whose call is the last and has had the wrapper to itself

pipevars == <<use, step, held, sent, reply, metrics, met>>

Nobody == "nobody"
Plain(item) == [item |-> item, masked |-> FALSE, passes |-> 0]

PipeInit ==
  /\ use \in [Callers -> Uses]
  /\ step = [c \in Callers |-> "idle"]
  /\ held = [c \in Callers |-> [i \in DOMAIN use[c].items |-> Plain(use[c].items[i])]]
  /\ sent = [c \in Callers |-> <<>>]
  /\ reply = [c \in Callers |-> Plain("text")]
  /\ metrics = Nobody
  /\ met = {}

-----------------------------------------------------------------------------
Busy(c) == step[c] \notin {"idle", "done", "raised"}

(* _optimize_prompt_text: process() in mode "balanced", or "off" without   *)
(* privacy; it may raise, and it may give the text back.                   *)
Made(c, v) ==
  {[v EXCEPT !.masked = @ \/ m, !.passes = @ + 1] : m \in IF use[c].privacy THEN BOOLEAN ELSE {FALSE}}

(* The first item a wrapper has yet to process, if any.                    *)
Pending(c, passes) ==
  {i \in DOMAIN held[c] : held[c][i].item = "text" /\ held[c][i].passes < passes}

(* What each wrapper does: how often it has a text processed before it     *)
(* hands it on, whether it keeps the metrics of the last call (in debug    *)
(* mode) and whether the reply is processed too.                           *)
Kind(times, keeps, answers) == [passes |-> times, keeps |-> keeps, reply |-> answers]

LangchainTemplate == Kind(1, TRUE, FALSE)
LangchainLlm      == Kind(1, TRUE, FALSE)
LangchainRunnable == Kind(1, TRUE, FALSE)

(* wrap_llm_chain wraps both the prompt template and the LLM.              *)
LangchainChain == [LangchainLlm EXCEPT !.passes = LangchainTemplate.passes + @]

LlamaindexTemplate  == Kind(1, TRUE, FALSE)
LlamaindexLlm       == Kind(1, TRUE, FALSE)
(* Without optimize_queries the bundle goes on as it is, privacy or not.   *)
LlamaindexQuery(u)  == Kind(IF u.optimize THEN 1 ELSE 0, TRUE, FALSE)
LlamaindexRetriever == Kind(1, TRUE, FALSE)
LlamaindexNodes     == Kind(1, TRUE, FALSE)

(* _integration_process_text: with both features off the text goes on.     *)
AdapterPasses(u)     == IF u.privacy \/ u.optimize THEN 1 ELSE 0
AdapterTemplate(u)   == Kind(AdapterPasses(u), FALSE, FALSE)
AdapterLlm(u)        == Kind(AdapterPasses(u), FALSE, u.check)
AdapterInstructor(u) == Kind(AdapterPasses(u), FALSE, FALSE)
AdapterOpenAI(u)     == Kind(AdapterPasses(u), FALSE, FALSE)
AshaProcess          == Kind(1, FALSE, FALSE)
UniversalCompose     == Kind(1, FALSE, FALSE)
EnhanceApiCall       == Kind(1, FALSE, FALSE)

Behaviour(u) ==
  CASE u.wrapper = "lc_template" -> LangchainTemplate   [] u.wrapper = "lc_llm" -> LangchainLlm
    [] u.wrapper = "lc_chain" -> LangchainChain         [] u.wrapper = "lc_runnable" -> LangchainRunnable
    [] u.wrapper = "li_template" -> LlamaindexTemplate  [] u.wrapper = "li_llm" -> LlamaindexLlm
    [] u.wrapper = "li_query" -> LlamaindexQuery(u)     [] u.wrapper = "li_retriever" -> LlamaindexRetriever
    [] u.wrapper = "li_nodes" -> LlamaindexNodes        [] u.wrapper = "fw_template" -> AdapterTemplate(u)
    [] u.wrapper = "fw_llm" -> AdapterLlm(u)            [] u.wrapper = "fw_instructor" -> AdapterInstructor(u)
    [] u.wrapper = "fw_openai" -> AdapterOpenAI(u)      [] u.wrapper = "fw_decorator" -> AshaProcess
    [] u.wrapper = "composer" -> UniversalCompose       [] u.wrapper = "composed_api" -> EnhanceApiCall

KeepsMetrics(u) == u.debug /\ Behaviour(u).keeps

StartUse(c) ==
  /\ step[c] = "idle"
  /\ step' = [step EXCEPT ![c] = "processing"]
  /\ met' = IF \E d \in Callers \ {c} : Busy(d) THEN {} ELSE {c}
  /\ UNCHANGED <<use, held, sent, reply, metrics>>

(* self._last_metrics is written after each process(), by whoever called.  *)
Recorded(c) == IF KeepsMetrics(use[c]) THEN c ELSE metrics

ProcessItem(c) ==
  /\ step[c] = "processing"
  /\ Pending(c, Behaviour(use[c]).passes) # {}
  /\ LET i == CHOOSE i \in Pending(c, Behaviour(use[c]).passes) :
                \A j \in Pending(c, Behaviour(use[c]).passes) : held[c][i].passes < held[c][j].passes
                                                     \/ (held[c][i].passes = held[c][j].passes /\ i <= j)
     IN \E v \in Made(c, held[c][i]) : held' = [held EXCEPT ![c][i] = v]
  /\ metrics' = Recorded(c)
  /\ UNCHANGED <<use, step, sent, reply, met>>

(* ASHAProcessingError and whatever else process() lets out.               *)
ProcessRaises(c) ==
  /\ \/ step[c] = "processing" /\ Pending(c, Behaviour(use[c]).passes) # {}
     \/ step[c] = "reply"
  /\ use[c].privacy
  /\ step' = [step EXCEPT ![c] = "raised"]
  /\ UNCHANGED <<use, held, sent, reply, metrics, met>>

(* For mutation: what is ready is sent on.                                 *)
HandOnEarly(c) ==
  /\ step[c] = "processing" /\ held[c][1].passes = Behaviour(use[c]).passes
  /\ sent' = [sent EXCEPT ![c] = held[c]]
  /\ step' = [step EXCEPT ![c] = "model"]
  /\ UNCHANGED <<use, held, reply, metrics, met>>

HandOn(c) ==
  /\ step[c] = "processing" /\ Pending(c, Behaviour(use[c]).passes) = {}
  /\ sent' = [sent EXCEPT ![c] = held[c]]
  /\ step' = [step EXCEPT ![c] = "model"]
  /\ UNCHANGED <<use, held, reply, metrics, met>>

ModelReplies(c) ==
  /\ step[c] = "model"
  /\ step' = [step EXCEPT ![c] = IF Behaviour(use[c]).reply /\ Behaviour(use[c]).passes > 0 THEN "reply" ELSE "done"]
  /\ UNCHANGED <<use, held, sent, reply, metrics, met>>

ModelRaises(c) ==
  /\ step[c] = "model"
  /\ step' = [step EXCEPT ![c] = "raised"]
  /\ UNCHANGED <<use, held, sent, reply, metrics, met>>

ProcessReply(c) ==
  /\ step[c] = "reply"
  /\ \E v \in Made(c, reply[c]) : reply' = [reply EXCEPT ![c] = v]
  /\ step' = [step EXCEPT ![c] = "done"]
  /\ UNCHANGED <<use, held, sent, metrics, met>>

Caller(c) ==
  \/ StartUse(c) \/ ProcessItem(c) \/ ProcessRaises(c) \/ HandOn(c)
  \/ ModelReplies(c) \/ ModelRaises(c) \/ ProcessReply(c)
PipeNext == \E c \in Callers : Caller(c)
PipeSpec == PipeInit /\ [][PipeNext]_pipevars

-----------------------------------------------------------------------------
PipeTypeOK ==
  /\ use \in [Callers -> Uses]
  /\ step \in [Callers -> {"idle", "processing", "model", "reply", "done", "raised"}]
  /\ metrics \in Callers \cup {Nobody}
  /\ met \subseteq Callers

(* No text a wrapper can find reaches the model unprocessed, whatever      *)
(* fails on the way, unless processing is switched off: by both features   *)
(* of an adapter, or by optimize_queries alone of a query engine.          *)
NothingSentUnprocessed ==
  \A c \in Callers : \A i \in DOMAIN sent[c] :
    sent[c][i].item = "text" /\ sent[c][i].passes = 0 =>
      ~use[c].optimize /\ (use[c].wrapper = "li_query" \/ ~use[c].privacy)

(* A text is processed as often as it passes a wrapper, and no more: twice *)
(* in a chain, whose template and LLM are both wrapped; the compiler then  *)
(* works on what it made itself.                                           *)
ProcessedOncePerWrapper ==
  \A c \in Callers : \A i \in DOMAIN sent[c] :
    sent[c][i].passes <= IF use[c].wrapper = "lc_chain" THEN 2 ELSE 1

(* A caller who has had the wrapper to itself since it started finds its   *)
(* own metrics there once its texts are processed, whoever was there       *)
(* before; nothing of the kind holds for two at a time.                    *)
MetricsAreOwnWhenAlone ==
  \A c \in met :
    /\ step[c] \in {"model", "done"} /\ KeepsMetrics(use[c])
    /\ \E i \in DOMAIN held[c] : held[c][i].passes > 0
    => metrics = c

(* A text passes process() at each wrapper on its way, and its caller can  *)
(* read there how that went.                                               *)
WrappersProcessOnce ==
  PipeTypeOK /\ NothingSentUnprocessed /\ ProcessedOncePerWrapper /\ MetricsAreOwnWhenAlone
=============================================================================
