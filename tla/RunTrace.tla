-------------------------------- MODULE RunTrace --------------------------------
(***************************************************************************)
(* The trace of one processed prompt (core/trace_context.py), as the       *)
(* processor's engines write it (runtime/processor.py, _run_engines): one  *)
(* open stage at a time, whose input is taken when it starts.  A text is   *)
(* the sequence of what was done to the prompt.                            *)
(***************************************************************************)
EXTENDS Naturals, Sequences, SequencesExt

StageName == <<"security", "compile", "optimize">>

VARIABLES
  run,     \* what was asked: [trace, debug, stages, onFailure]
  current, \* the open stage: [name, input], or NoStage
  traced,  \* the stages that ended: [name, input, output]
  working, \* the text so far
  step,    \* how many of the stages are over
  ended    \* running, finished, raised

rtvars == <<run, current, traced, working, step, ended>>

NoStage == [name |-> "none", input |-> <<>>]
Name == StageName[step + 1]
Ongoing == ended = "running" /\ step < 3

RtInit ==
  /\ run \in [ trace : BOOLEAN, debug : BOOLEAN, stages : SUBSET {"security", "compile", "optimize"},
               onFailure : {"raise", "placeholder", "keep"} ]
  /\ current = NoStage /\ traced = <<>> /\ working = <<>> /\ step = 0 /\ ended = "running"

(* A mutant: the prompt is taken as the input of every stage.              *)
StageStartOfPrompt(name, input) ==
  current' = IF run.trace THEN [name |-> name, input |-> <<>>] ELSE current
(* log_stage_start and log_stage_end do nothing unless tracing is on.      *)
LogStageStart(name, input) ==
  current' = IF run.trace THEN [name |-> name, input |-> input] ELSE current

LogStageEnd(name, output) ==
  IF run.trace /\ current # NoStage
  THEN /\ traced' = Append(traced, [name |-> name, input |-> current.input, output |-> output])
       /\ current' = NoStage
  ELSE UNCHANGED <<traced, current>>

(* A stage that was not asked for, or that the policy disables.            *)
SkipStage ==
  /\ Ongoing /\ Name \notin run.stages
  /\ step' = step + 1
  /\ UNCHANGED <<run, current, traced, working, ended>>

(* A stage that is due starts; without a trace there is nothing to write.  *)
Due == Ongoing /\ Name \in run.stages /\ (run.trace => current # NoStage)

StartStage ==
  /\ Ongoing /\ Name \in run.stages /\ run.trace /\ current = NoStage
  /\ LogStageStart(Name, working)
  /\ UNCHANGED <<run, traced, working, step, ended>>

EndStage(output) ==
  /\ working' = output
  /\ LogStageEnd(Name, output)
  /\ step' = step + 1
  /\ UNCHANGED <<run, ended>>

StageWorks == Due /\ EndStage(Append(working, Name))

(* A stage fails.  The optimizer's failure always leaves the engines, the  *)
(* others' when failures raise; else a placeholder goes on in the text's   *)
(* place, or the text the stage was given.                                 *)
StageFails ==
  /\ Due
  /\ \/ /\ run.onFailure = "raise" \/ Name = "optimize"
        /\ ended' = "raised"
        /\ UNCHANGED <<run, current, traced, working, step>>
     \/ /\ run.onFailure = "placeholder" /\ Name # "optimize"
        /\ EndStage(<<"placeholder">>)
     \/ /\ run.onFailure = "keep" /\ Name # "optimize"
        /\ EndStage(working)

Finish ==
  /\ ended = "running" /\ step = 3
  /\ ended' = "finished"
  /\ UNCHANGED <<run, current, traced, working, step>>

RtNext == SkipStage \/ StartStage \/ StageWorks \/ StageFails \/ Finish
RtSpec == RtInit /\ [][RtNext]_rtvars

(* get_trace_summary.                                                      *)
FinalOutput == IF traced = <<>> THEN <<>> ELSE Last(traced).output

Place(name) == CHOOSE p \in 1..3 : StageName[p] = name

RtTypeOK ==
  /\ step \in 0..3 /\ ended \in {"running", "finished", "raised"}
  /\ current.name \in {"none", "security", "compile", "optimize"}
  /\ Len(traced) <= step

(* The trace of a run that came to its end tells it: the stages that ran,  *)
(* in their order, each with the text the one before handed on, the first  *)
(* with the prompt; and its final output is the text the engines return,   *)
(* also when a stage failed on the way.                                    *)
TraceTellsTheRun ==
  ended = "finished" /\ run.trace =>
    /\ {traced[i].name : i \in DOMAIN traced} = run.stages
    /\ \A i, j \in DOMAIN traced : i < j => Place(traced[i].name) < Place(traced[j].name)
    /\ \A i \in DOMAIN traced : traced[i].input = IF i = 1 THEN <<>> ELSE traced[i - 1].output
    /\ FinalOutput = working
    /\ current = NoStage

(* A trace is well formed and tells its run.                               *)
TracesAreSound == RtTypeOK /\ TraceTellsTheRun
=============================================================================
