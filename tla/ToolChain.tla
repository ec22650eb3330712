------------------------------ MODULE ToolChain ------------------------------
(***************************************************************************)
(* ToolChain of integrations/composition_strategy.py: tools run one after  *)
(* another on what the one before returned, with process() before or after *)
(* each, and UniversalComposer's pipelines, whose tools process their own  *)
(* arguments as well.                                                      *)
(***************************************************************************)
EXTENDS Naturals, Sequences

CONSTANTS Chains \* the chains to consider

ASSUME ChainsAssumption ==
  \A c \in Chains :
    /\ c.mode \in {"preprocess", "postprocess", "enhance", "validate"}
    /\ c.handling \in {"continue", "stop", "fallback"}
    /\ c.composed \in BOOLEAN                          \* create_pipeline
    /\ c.names \in Seq(STRING) /\ c.names # <<>>

VARIABLES
  chain,
  toolAt,   \* the tool that is next; one past the last when the loop has ended
  phase,    \* "before", "tool", "after", "failed" in the body of the loop
  data,     \* current_data: "text" or "object", and whether process() has had it
  given,    \* what each tool that ran was given, and the data it was made from
  results   \* chain_results

chainvars == <<chain, toolAt, phase, data, given, results>>

Missing == "missing"

ChainInit ==
  /\ chain \in Chains
  /\ toolAt = 1 /\ phase = "before"
  /\ data = [kind |-> "text", processed |-> FALSE]
  /\ given = <<>>
  /\ results = [n \in {chain.names[i] : i \in DOMAIN chain.names} |-> Missing]

-----------------------------------------------------------------------------
Ended == toolAt > Len(chain.names)
Name  == chain.names[toolAt]

(* _preprocess, _postprocess, and the arguments of a composed tool.        *)
ProcessedAs(d) == IF d.kind = "text" THEN [d EXCEPT !.processed = TRUE] ELSE d

(* process() lets its refusal out: the tool is not run.                    *)
Preprocess ==
  /\ phase = "before" /\ ~Ended
  /\ IF chain.mode = "preprocess"
     THEN \/ data' = ProcessedAs(data) /\ phase' = "tool"
          \/ data.kind = "text" /\ phase' = "failed" /\ UNCHANGED data
     ELSE phase' = "tool" /\ UNCHANGED data
  /\ UNCHANGED <<chain, toolAt, given, results>>

(* A tool passes on what it was given or something of its own.             *)
Outputs(argument) == {argument} \cup [kind : {"text", "object"}, processed : {FALSE}]

(* A composed tool processes its argument, and current_data is not that.   *)
RunTool ==
  /\ phase = "tool"
  /\ LET argument == IF chain.composed THEN ProcessedAs(data) ELSE data IN
     \/ /\ given' = Append(given, [tool |-> toolAt, got |-> argument, was |-> data])
        /\ \/ \E d \in Outputs(argument) : data' = d /\ phase' = "after"
           \/ phase' = "failed" /\ UNCHANGED data
     \/ /\ chain.composed /\ data.kind = "text"
        /\ phase' = "failed" /\ UNCHANGED <<given, data>>
  /\ UNCHANGED <<chain, toolAt, results>>

(* The result is stored and becomes the data of the next tool.             *)
Keep ==
  /\ phase = "after"
  /\ data' = IF chain.mode = "postprocess" THEN ProcessedAs(data) ELSE data
  /\ results' = [results EXCEPT ![Name] = "success"]
  /\ toolAt' = toolAt + 1 /\ phase' = "before"
  /\ UNCHANGED <<chain, given>>

(* process() refuses the result: the data is what it was before the tool,  *)
(* which has run.                                                          *)
RefuseResult ==
  /\ phase = "after" /\ chain.mode = "postprocess" /\ data.kind = "text"
  /\ data' = given[Len(given)].was
  /\ phase' = "failed"
  /\ UNCHANGED <<chain, toolAt, given, results>>

(* For mutation: "stop" goes on.                                           *)
FailOn ==
  /\ phase = "failed"
  /\ results' = [results EXCEPT ![Name] = "error"]
  /\ data' = data
  /\ toolAt' = toolAt + 1 /\ phase' = "before"
  /\ UNCHANGED <<chain, given>>

(* _fallback_processing puts a prefix before a text.                       *)
Fail ==
  /\ phase = "failed"
  /\ results' = [results EXCEPT ![Name] = "error"]
  /\ data' = data
  /\ toolAt' = IF chain.handling = "stop" THEN Len(chain.names) + 1 ELSE toolAt + 1
  /\ phase' = "before"
  /\ UNCHANGED <<chain, given>>

ChainNext == Preprocess \/ RunTool \/ Keep \/ RefuseResult \/ Fail
ChainSpec == ChainInit /\ [][ChainNext]_chainvars

-----------------------------------------------------------------------------
(* Whatever failed before, and however it was handled, a tool of a chain   *)
(* that preprocesses, or of a composed one, is given no text process() has *)
(* not had.                                                                *)
ToolsGivenProcessed ==
  chain.mode = "preprocess" \/ chain.composed =>
    \A g \in DOMAIN given : given[g].got.kind = "text" => given[g].got.processed

(* The final result of a chain that postprocesses is a text process() has  *)
(* not had only if no tool succeeded: a result that was refused is dropped,*)
(* not passed on.                                                          *)
PostprocessedUnlessAllFailed ==
  Ended /\ chain.mode = "postprocess" /\ data.kind = "text" /\ ~data.processed =>
    \A n \in DOMAIN results : results[n] # "success"

(* A chain told to stop ends with its first failure, whichever step failed *)
(* and whether or not the tool had run by then: of the tools after it none *)
(* has run or has a result.                                                *)
StoppedAtFirstFailure ==
  chain.handling = "stop" /\ (\E n \in DOMAIN results : results[n] = "error") =>
    /\ Ended /\ phase = "before"
    /\ \E last \in DOMAIN chain.names :
         /\ results[chain.names[last]] = "error"
         /\ \A g \in DOMAIN given : given[g].tool <= last
         /\ \A i \in (last + 1)..Len(chain.names) :
              chain.names[i] \in {chain.names[j] : j \in 1..last} \/ results[chain.names[i]] = Missing

(* A chain does what its mode and its error handling say.                  *)
ChainsKeepTheirMode == ToolsGivenProcessed /\ PostprocessedUnlessAllFailed /\ StoppedAtFirstFailure
=============================================================================
