--------------------------- MODULE PromptProcessor ---------------------------
(***************************************************************************)
(* One call of process() (runtime/processor.py) or of sanitize()           *)
(* (core/engines.py): security, compile, optimize, and the finalizing      *)
(* scrub, run inline or, when the caller gave timeout_seconds, by a pool   *)
(* thread the caller waits for; retries, and what the caller gets when     *)
(* they are used up.  Calls share no state but a counter of the dashboard. *)
(*                                                                         *)
(* Of a text there is what the stages tell apart: how often a value occurs *)
(* that the regular expressions are sure of, whether it holds PII only a   *)
(* model finds, and whether the safety classifier refuses it.              *)
(***************************************************************************)
EXTENDS Naturals

CONSTANTS
  Calls,       \* the calls to consider
  NamesFound,  \* whether this installation has the models that find names
  Faults,      \* what may fail: "config", "detector", "classifier", "compile", "optimize"
  MaxRetries,  \* BOUND: the largest max_retries
  MaxCopies    \* BOUND: how often a value occurs in a prompt

Text   == [copies : 0..MaxCopies, named : BOOLEAN, unsafe : BOOLEAN]
NoText == [copies |-> 0, named |-> FALSE, unsafe |-> FALSE]

Call ==
  [ api      : {"process", "sanitize"},
    mode     : {"strict", "balanced", "lite", "off"},
    profile  : {"standard", "security_only", "optimize_only", "passthrough"},
    pii      : {"lite", "hybrid"},  \* pii_mode; "ml_only" detects as "hybrid" does
    flaky    : BOOLEAN,             \* its PII pipeline, or a detector in it, may fail
    preserve : BOOLEAN,             \* preserve_intent
    timed    : BOOLEAN,             \* timeout_seconds given
    retries  : 0..MaxRetries,
    empty    : BOOLEAN,             \* no prompt
    prompt   : Text ]

ASSUME ProcessorAssumption ==
  /\ MaxRetries \in Nat /\ MaxCopies \in Nat
  /\ NamesFound \in BOOLEAN
  /\ Calls \subseteq Call
  /\ Faults \subseteq {"config", "detector", "classifier", "compile", "optimize"}

VARIABLES
  call,
  attempt,
  caller,     \* the thread that called
  stage,      \* the engine stage that runs next
  text,       \* what the stages have made of the prompt so far
  security,   \* the SecurityResult of this attempt
  error,      \* the exception that ended this attempt
  result,     \* what the caller got
  recorded    \* calls the dashboard counted, by outcome

vars == <<call, attempt, caller, stage, text, security, error, result, recorded>>

Result   == [text : Text, degraded : BOOLEAN, reason : {"", "timeout", "failed", "invalid_prompt"}]
NoResult == [text |-> NoText, degraded |-> FALSE, reason |-> ""]

TypeOK ==
  /\ call \in Calls
  /\ attempt \in 0..call.retries
  /\ caller \in {"start", "waiting", "joining", "returned", "raised"}
  /\ stage \in {"idle", "security", "compile", "optimize", "finalize", "done", "failed"}
  /\ text \in Text
  /\ security \in {"none", "ok", "failed"}
  /\ error \in {"none", "processing", "other"}
  /\ result \in Result
  /\ recorded \in [success : Nat, failure : Nat]

Init ==
  /\ call \in Calls
  /\ attempt = 0 /\ caller = "start" /\ stage = "idle" /\ text = NoText
  /\ security = "none" /\ error = "none"
  /\ result = NoResult /\ recorded = [success |-> 0, failure |-> 0]

-----------------------------------------------------------------------------
Strict      == call.mode = "strict"
Privacy     == call.mode # "off"

(* The stages the profile asks for; mode "off" asks for none.              *)
Enabled ==
  IF call.mode = "off" THEN {}
  ELSE CASE call.profile = "standard"      -> {"security", "compile", "optimize"}
         [] call.profile = "security_only" -> {"security"}
         [] call.profile = "optimize_only" -> {"optimize"}
         [] call.profile = "passthrough"   -> {}

Secure == Privacy /\ "security" \in Enabled

(* The first stage of s that runs; the result is finalized after the last. *)
FirstOf(s) ==
  CASE "security" \in s -> "security"
    [] "security" \notin s /\ "compile" \in s -> "compile"
    [] s \cap {"security", "compile"} = {} /\ "optimize" \in s -> "optimize"
    [] s \cap {"security", "compile", "optimize"} = {} -> "finalize"

(* run_security raises when a detector does and when the safety classifier *)
(* refuses; a classifier that fails is passed over.                        *)
MayRaise(t, blocking) == "detector" \in Faults \/ (blocking /\ t.unsafe)
MayPass(t, blocking)  == (blocking /\ t.unsafe) => "classifier" \in Faults

(* What a security pass that does not raise may make of t. The lite        *)
(* detector masks every match. The hybrid pipeline keeps one entity of a   *)
(* value, so that it is sure to mask one occurrence only; when the         *)
(* pipeline fails it hands t back, and nothing in its answer is read that  *)
(* would tell.                                                             *)
LitePass(t) == {[t EXCEPT !.copies = 0]}
HybridPass(t) ==
  { u \in Text :
      /\ u.unsafe = t.unsafe
      /\ u.copies < t.copies \/ u.copies = 0 \/ (call.flaky /\ u.copies = t.copies)
      /\ (u.named <=> t.named /\ ~NamesFound) \/ (call.flaky /\ u.named = t.named) }

Masked(t) == IF call.pii = "lite" THEN LitePass(t) ELSE HybridPass(t)

Outcome(t, degraded, reason) == [text |-> t, degraded |-> degraded, reason |-> reason]
Return(r) == caller' = "returned" /\ result' = r
Raise     == caller' = "raised" /\ UNCHANGED result
Record(how) == recorded' = [recorded EXCEPT ![how] = @ + 1]
Fail(e)   == stage' = "failed" /\ error' = e

-----------------------------------------------------------------------------
(* A call without a prompt ends at once, in every mode.                    *)
RejectEmpty ==
  /\ caller = "start" /\ call.api = "process" /\ call.empty
  /\ Return(Outcome(NoText, TRUE, "invalid_prompt"))
  /\ UNCHANGED <<call, attempt, stage, text, security, error, recorded>>

(* An attempt works on the prompt, from its first stage.                   *)
StartAttempt ==
  /\ stage' = IF call.api = "sanitize" THEN "security" ELSE FirstOf(Enabled)
  /\ text' = call.prompt
  /\ security' = "none" /\ error' = "none"

Begin ==
  /\ caller = "start" /\ ~(call.api = "process" /\ call.empty)
  /\ caller' = "waiting"
  /\ StartAttempt
  /\ UNCHANGED <<call, attempt, result, recorded>>

(* An unusable pii_mode fails before the loop over attempts.               *)
RejectConfig ==
  /\ caller = "start" /\ call.api = "process" /\ ~call.empty /\ "config" \in Faults
  /\ caller' = "waiting" /\ attempt' = call.retries
  /\ Fail("other")
  /\ UNCHANGED <<call, text, security, result, recorded>>

-----------------------------------------------------------------------------
(* The stages.                                                             *)
AfterSecurity == IF call.api = "sanitize" THEN "done" ELSE FirstOf(Enabled \ {"security"})

(* For mutation: a failed stage is passed over in every mode.              *)
RunSecurityFailOpen ==
  LET blocking == call.api = "sanitize" \/ call.mode \in {"strict", "balanced"}
  IN  /\ stage = "security"
      /\ \/ /\ MayPass(text, blocking)
            /\ text' \in Masked(text) /\ security' = "ok"
         \/ /\ MayRaise(text, blocking)
            /\ security' = "failed" /\ UNCHANGED text
      /\ stage' = AfterSecurity /\ UNCHANGED error
      /\ UNCHANGED <<call, attempt, caller, result, recorded>>

(* _run_security: strict mode turns a failure into ASHAProcessingError,    *)
(* the other modes go on with the prompt as it is and a result that calls  *)
(* it safe.  sanitize() lets the exception out.                            *)
RunSecurity ==
  LET blocking == call.api = "sanitize" \/ call.mode \in {"strict", "balanced"}
  IN  /\ stage = "security"
      /\ \/ /\ MayPass(text, blocking)
            /\ text' \in Masked(text) /\ security' = "ok"
            /\ stage' = AfterSecurity /\ UNCHANGED error
         \/ /\ MayRaise(text, blocking)
            /\ security' = "failed" /\ UNCHANGED text
            /\ IF call.api = "sanitize" THEN Fail("other")
               ELSE IF Strict THEN Fail("processing")
               ELSE stage' = AfterSecurity /\ UNCHANGED error
      /\ UNCHANGED <<call, attempt, caller, result, recorded>>

Compile ==
  /\ stage = "compile"
  /\ \/ stage' = FirstOf(Enabled \ {"security", "compile"}) /\ UNCHANGED error
     \/ "compile" \in Faults /\ Strict /\ Fail("processing")
  /\ UNCHANGED <<call, attempt, caller, text, security, result, recorded>>

(* What fails inside the optimizer leaves the text; what fails before it   *)
(* is built ends the attempt.                                              *)
Optimize ==
  /\ stage = "optimize"
  /\ \/ stage' = "finalize" /\ UNCHANGED error
     \/ "optimize" \in Faults /\ Fail("other")
  /\ UNCHANGED <<call, attempt, caller, text, security, result, recorded>>

(* preserve_intent gives the prompt back when no name was masked and the   *)
(* patterns know nothing in it.  Whether unsafe content was counted as a   *)
(* threat is left open.                                                    *)
MayPreserve ==
  /\ call.preserve
  /\ text.named = call.prompt.named
  /\ ~(Secure /\ call.prompt.copies > 0)
MustPreserve == MayPreserve /\ call.prompt.copies = 0 /\ ~call.prompt.unsafe

(* finalize_privacy_output: a text the patterns find something in goes     *)
(* through security once more, hybrid whatever the call's pii_mode; threat *)
(* patterns match some unsafe content.                                     *)
MayScrub  == Secure /\ (text.copies > 0 \/ text.unsafe)
MustScrub == Secure /\ text.copies > 0

Finished(t) ==
  /\ stage' = "done" /\ text' = t
  /\ Record("success")
  /\ UNCHANGED error

(* For mutation: the request is counted before the scrub that may fail.    *)
FinalizeRecordsFirst ==
  /\ stage = "finalize"
  /\ \/ MayPreserve /\ Finished(call.prompt)
     \/ ~MustPreserve /\ ~MustScrub /\ Finished(text)
     \/ ~MustPreserve /\ MayScrub /\ MayPass(text, TRUE)
        /\ \E t \in HybridPass(text) : Finished(t)
     \/ /\ ~MustPreserve /\ MayScrub /\ MayRaise(text, TRUE)
        /\ Fail("other") /\ Record("success") /\ UNCHANGED text
  /\ UNCHANGED <<call, attempt, caller, security, result>>

Finalize ==
  /\ stage = "finalize"
  /\ \/ MayPreserve /\ Finished(call.prompt)
     \/ ~MustPreserve /\ ~MustScrub /\ Finished(text)
     \/ ~MustPreserve /\ MayScrub /\ MayPass(text, TRUE)
        /\ \E t \in HybridPass(text) : Finished(t)
     \/ /\ ~MustPreserve /\ MayScrub /\ MayRaise(text, TRUE)
        /\ Fail("other") /\ UNCHANGED <<text, recorded>>
  /\ UNCHANGED <<call, attempt, caller, security, result>>

-----------------------------------------------------------------------------
(* The caller.                                                             *)
Running == stage \notin {"idle", "done", "failed"}

ReturnResult ==
  /\ caller = "waiting" /\ stage = "done"
  /\ Return(Outcome(text, FALSE, ""))
  /\ UNCHANGED <<call, attempt, stage, text, security, error, recorded>>

(* result(timeout=...) gives up; leaving the "with" block of the pool then *)
(* waits for the worker, which nothing tells to stop.                      *)
Expire ==
  /\ caller = "waiting" /\ call.timed /\ Running
  /\ caller' = "joining"
  /\ UNCHANGED <<call, attempt, stage, text, security, error, result, recorded>>

(* process() answers a timeout with the prompt in every mode; sanitize()   *)
(* treats it as any failure.                                               *)
TimedOut ==
  /\ caller = "joining" /\ ~Running
  /\ IF call.api = "sanitize" /\ Strict THEN Raise
     ELSE Return(Outcome(call.prompt, TRUE, IF call.api = "process" THEN "timeout" ELSE "failed"))
  /\ UNCHANGED <<call, attempt, stage, text, security, error, recorded>>

(* For mutation: ASHAProcessingError is retried like any exception.        *)
RetryAlways ==
  /\ caller = "waiting" /\ stage = "failed"
  /\ attempt < call.retries
  /\ attempt' = attempt + 1
  /\ StartAttempt
  /\ UNCHANGED <<call, caller, result, recorded>>

Retry ==
  /\ caller = "waiting" /\ stage = "failed"
  /\ error = "other" /\ attempt < call.retries
  /\ attempt' = attempt + 1
  /\ StartAttempt
  /\ UNCHANGED <<call, caller, result, recorded>>

(* ASHAProcessingError is never retried; strict mode turns the last        *)
(* exception into one.                                                     *)
RefuseFailed ==
  /\ caller = "waiting" /\ stage = "failed"
  /\ (error = "processing" \/ (attempt = call.retries /\ Strict))
  /\ Raise
  /\ UNCHANGED <<call, attempt, stage, text, security, error, recorded>>

LastFailure == caller = "waiting" /\ stage = "failed" /\ error = "other" /\ attempt = call.retries /\ ~Strict

(* privacy_fallback runs security alone and gives the prompt when that     *)
(* fails too; sanitize() gives the prompt.                                 *)
FallBack ==
  /\ LastFailure
  /\ \/ /\ call.api = "process" /\ Secure /\ MayPass(call.prompt, TRUE)
        /\ \E t \in HybridPass(call.prompt) : Return(Outcome(t, TRUE, "failed"))
     \/ (call.api = "process" /\ Secure => MayRaise(call.prompt, TRUE))
        /\ Return(Outcome(call.prompt, TRUE, "failed"))
  /\ IF call.api = "process" THEN Record("failure") ELSE UNCHANGED recorded
  /\ UNCHANGED <<call, attempt, stage, text, security, error>>

-----------------------------------------------------------------------------
Engine == RunSecurity \/ Compile \/ Optimize \/ Finalize
Caller ==
  \/ RejectEmpty \/ Begin \/ RejectConfig \/ ReturnResult
  \/ TimedOut \/ Retry \/ RefuseFailed \/ FallBack

Next == Engine \/ Caller \/ Expire

(* The engines are assumed to end and the threads to be scheduled; no      *)
(* deadline has to expire.                                                 *)
Spec == Init /\ [][Next]_vars /\ WF_vars(Engine) /\ WF_vars(Caller)

-----------------------------------------------------------------------------
SecurityAsked == Secure \/ call.api = "sanitize"

(* How many of n occurrences are left, at most, after k hybrid passes.     *)
Leaves(n, k) == IF n > k THEN n - k ELSE 0

(* What the passes of this call are to achieve: the lite detector leaves   *)
(* nothing the patterns know, k hybrid passes leave what occurs more than  *)
(* k times, and no name the models find.  Of a pipeline that fails without *)
(* a word nothing is promised.                                             *)
CleanAfter(t, k) ==
  /\ call.pii = "lite" => t.copies = 0
  /\ call.pii = "hybrid" /\ ~call.flaky =>
       t.copies <= Leaves(call.prompt.copies, k) /\ (NamesFound => ~t.named)

(* The stage and the scrub of process(), the only pass of sanitize().      *)
PassCount == IF call.api = "process" THEN 2 ELSE 1

(* processor.py: strict mode is "refusing to return unprocessed prompt".   *)
(* What a strict call with the security stage returns is as clean as its   *)
(* security passes make a text.                                            *)
StrictRefusesUnprocessed ==
  caller = "returned" /\ Strict /\ SecurityAsked => CleanAfter(result.text, PassCount)

(* The same of calls without a deadline, for which it is true, whichever   *)
(* stages failed and however often.                                        *)
UntimedStrictRefuses == ~call.timed => StrictRefusesUnprocessed

(* In a result of process() that is not marked degraded the patterns find  *)
(* nothing but what occurred more than once, also when the security stage  *)
(* failed and was passed over: the scrub at the end is the second line.    *)
UndegradedIsScrubbed ==
  caller = "returned" /\ call.api = "process" /\ Secure /\ ~result.degraded /\ ~call.flaky =>
    result.text.copies <= Leaves(call.prompt.copies, 1)

(* A call is counted at most once on the dashboard, whatever is retried    *)
(* and whenever its deadline passes.                                       *)
CountedOnce == recorded.success + recorded.failure <= 1

(* Once a stage of process() has refused with ASHAProcessingError, no      *)
(* engine works on that prompt again.                                      *)
NothingRunsAfterRefusal == [][error = "processing" => stage' = stage]_vars

(* Every call that was begun returns or raises: retries run out, and a     *)
(* worker whose caller has given up is waited for but not for ever.        *)
EveryCallEnds == caller = "waiting" ~> caller \in {"returned", "raised"}

-----------------------------------------------------------------------------
(* The inductive invariant behind the safety properties.                   *)

(* An exception ends its attempt, a caller that has its answer has left no *)
(* engine running, and sanitize() has one stage.                           *)
AttemptsEnd ==
  /\ error # "none" => stage = "failed"
  /\ caller = "start" => stage = "idle"
  /\ caller \in {"returned", "raised"} => ~Running
  /\ ~call.timed => caller # "joining"
  /\ call.api = "sanitize" => stage \notin {"compile", "optimize", "finalize"}

(* Counting comes last: a success with the result, a failure with the      *)
(* answer to the caller.                                                   *)
CountingIsLast ==
  /\ recorded.success <= 1 /\ recorded.failure <= 1
  /\ recorded.success = 1 => stage = "done"
  /\ recorded.failure = 1 => stage = "failed" /\ caller = "returned"

(* The passes take away and add nothing.                                   *)
TextsShrink == text.copies <= call.prompt.copies

(* Past the security stage a strict call works on what a pass has made of  *)
(* the prompt, and ends with what the last one has.                        *)
StrictIsMasked ==
  Strict /\ SecurityAsked =>
    /\ stage \in {"compile", "optimize", "finalize"} => security = "ok" /\ CleanAfter(text, 1)
    /\ stage = "done" => CleanAfter(text, PassCount)

(* A finished text holds what the patterns know only where it was repeated. *)
DoneIsScrubbed ==
  stage = "done" /\ call.api = "process" /\ Secure /\ ~call.flaky =>
    text.copies <= Leaves(call.prompt.copies, 1)

IInv ==
  /\ TypeOK /\ AttemptsEnd /\ CountingIsLast /\ TextsShrink /\ StrictIsMasked /\ DoneIsScrubbed
  /\ UntimedStrictRefuses /\ UndegradedIsScrubbed

(* The promises on what a caller is given, for every mode.                 *)
ResultsAreScrubbed == TypeOK /\ UntimedStrictRefuses /\ UndegradedIsScrubbed
=============================================================================
