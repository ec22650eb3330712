-------------------------- MODULE AgentCallProofs ---------------------------
(* Theorems of PromptProcessor, for any calls, models, faults and number   *)
(* of retries, and of AgentTurn, for any tools, retries, iterations,       *)
(* fallbacks and turns. That every call ends is liveness and left to TLC.  *)
EXTENDS PromptProcessor, AgentTurn, DataLemmas

-----------------------------------------------------------------------------
(* PromptProcessor: stages and texts                                       *)

(* There is always a next stage; security, where it is asked for, is the   *)
(* first.                                                                  *)
LEMMA FirstOfType ==
  ASSUME NEW s
  PROVE  /\ FirstOf(s) \in {"security", "compile", "optimize", "finalize"}
         /\ "security" \in s <=> FirstOf(s) = "security"
<1>1. CASE "security" \in s
      BY <1>1 DEF FirstOf
<1>2. CASE "security" \notin s /\ "compile" \in s
      BY <1>2 DEF FirstOf
<1>3. CASE s \cap {"security", "compile"} = {} /\ "optimize" \in s
      BY <1>3 DEF FirstOf
<1>4. CASE s \cap {"security", "compile", "optimize"} = {}
      BY <1>4 DEF FirstOf
<1>5. QED BY <1>1, <1>2, <1>3, <1>4

(* A text has a number of copies; the empty one has none.                  *)
LEMMA TextType ==
  ASSUME NEW t \in Text
  PROVE  t.copies \in Nat /\ t.named \in BOOLEAN /\ NoText \in Text
BY ProcessorAssumption DEF Text, NoText

(* A hybrid pass adds nothing and, when the pipeline does not fail, takes  *)
(* one occurrence of a value and the names out.                            *)
LEMMA HybridType ==
  ASSUME NEW t \in Text, NEW u \in HybridPass(t)
  PROVE  /\ u \in Text /\ u.copies \in Nat /\ u.copies <= t.copies
         /\ ~call.flaky => (u.copies < t.copies \/ u.copies = 0) /\ (t.named /\ NamesFound => ~u.named)
         /\ ~t.named => ~u.named
<1>1. u \in Text /\ u.copies \in Nat /\ t.copies \in Nat
      BY TextType DEF HybridPass
<1>2. u.copies < t.copies \/ u.copies = 0 \/ (call.flaky /\ u.copies = t.copies)
      BY DEF HybridPass
<1>3. (u.named <=> t.named /\ ~NamesFound) \/ (call.flaky /\ u.named = t.named)
      BY DEF HybridPass
<1>4. u.copies <= t.copies /\ (~call.flaky => u.copies < t.copies \/ u.copies = 0)
      BY <1>1, <1>2
<1>5. QED BY <1>1, <1>3, <1>4

LEMMA MaskedType ==
  ASSUME NEW t \in Text, NEW u \in Masked(t), t.copies <= call.prompt.copies, call.prompt.copies \in Nat
  PROVE  u \in Text /\ u.copies <= call.prompt.copies /\ CleanAfter(u, 1)
<1>1. CASE call.pii = "lite"
  <2>1. u = [t EXCEPT !.copies = 0]
        BY <1>1 DEF Masked, LitePass
  <2>2. u \in Text /\ u.copies = 0
        BY <2>1, ProcessorAssumption DEF Text
  <2>3. QED BY <1>1, <2>2 DEF CleanAfter
<1>2. CASE call.pii # "lite"
  <2>1. u \in HybridPass(t)
        BY <1>2 DEF Masked
  <2>2. u \in Text /\ u.copies \in Nat /\ t.copies \in Nat /\ u.copies <= call.prompt.copies
        BY <2>1, HybridType, TextType
  <2>3. ~call.flaky => u.copies <= Leaves(call.prompt.copies, 1) /\ (NamesFound => ~u.named)
        BY <2>1, <2>2, HybridType DEF Leaves
  <2>4. QED BY <1>2, <2>2, <2>3 DEF CleanAfter
<1>3. QED BY <1>1, <1>2

(* A second pass takes one more occurrence out.                            *)
LEMMA TwicePassed ==
  ASSUME NEW t \in Text, NEW u \in HybridPass(t), CleanAfter(t, 1), call.prompt.copies \in Nat
  PROVE  CleanAfter(u, 2)
<1>1. u.copies \in Nat /\ t.copies \in Nat /\ u.copies <= t.copies
      BY HybridType, TextType
<1>2. ~call.flaky => u.copies < t.copies \/ u.copies = 0
      BY HybridType
<1>3. ~t.named => ~u.named
      BY HybridType
<1>4. QED BY <1>1, <1>2, <1>3 DEF CleanAfter, Leaves

(* A call is one of the calls, with a prompt and a number of retries.      *)
LEMMA CallType ==
  ASSUME TypeOK
  PROVE  /\ call \in Calls /\ call \in Call /\ call.prompt \in Text /\ call.prompt.copies \in Nat
         /\ call.retries \in Nat /\ attempt \in Nat
         /\ call.mode \in {"strict", "balanced", "lite", "off"}
         /\ call.api \in {"process", "sanitize"}
<1>1. call \in Calls /\ call \in Call /\ attempt \in 0..call.retries
      BY ProcessorAssumption DEF TypeOK
<1>2. call.prompt \in Text /\ call.retries \in Nat
      BY <1>1, ProcessorAssumption DEF Call
<1>3. QED BY <1>1, <1>2, TextType DEF Call

(* Where security is asked for an attempt starts with it.                  *)
LEMMA StartType ==
  ASSUME TypeOK, StartAttempt
  PROVE  /\ stage' \in {"security", "compile", "optimize", "finalize"}
         /\ SecurityAsked => stage' = "security"
         /\ call.api = "sanitize" => stage' = "security"
         /\ text' = call.prompt /\ text' \in Text /\ text'.copies <= call.prompt.copies
         /\ security' = "none" /\ error' = "none"
<1>1. Secure => "security" \in Enabled
      BY DEF Secure
<1>2. QED BY <1>1, FirstOfType, CallType DEF StartAttempt, SecurityAsked

-----------------------------------------------------------------------------
(* The stages keep the invariant                                           *)

LEMMA CompileStep ==
  ASSUME IInv, Compile
  PROVE  IInv'
<1>1. FirstOf(Enabled \ {"security", "compile"}) \in {"compile", "optimize", "finalize"}
      BY FirstOfType
<1>2. stage = "compile" /\ stage' \in {"compile", "optimize", "finalize", "failed"}
      BY <1>1 DEF Compile, Fail
<1>3. /\ UNCHANGED <<call, attempt, caller, text, security, result, recorded>>
      /\ stage' # "failed" => error' = error
      /\ error' \in {error, "processing"}
      BY <1>1 DEF Compile, Fail
<1>4. TypeOK'
      BY <1>2, <1>3 DEF IInv, TypeOK
<1>5. AttemptsEnd' /\ CountingIsLast'
      BY <1>2, <1>3 DEF IInv, TypeOK, AttemptsEnd, CountingIsLast, Running
<1>6. TextsShrink' /\ StrictIsMasked' /\ DoneIsScrubbed'
      BY <1>2, <1>3 DEF IInv, TextsShrink, StrictIsMasked, DoneIsScrubbed, SecurityAsked, Secure, Privacy, Strict,
                      Enabled, CleanAfter, PassCount
<1>7. UntimedStrictRefuses' /\ UndegradedIsScrubbed'
      BY <1>2, <1>3 DEF IInv, UntimedStrictRefuses, StrictRefusesUnprocessed, UndegradedIsScrubbed,
                        SecurityAsked, Secure, Privacy, Strict, Enabled, CleanAfter, PassCount
<1>8. QED BY <1>4, <1>5, <1>6, <1>7 DEF IInv

LEMMA OptimizeStep ==
  ASSUME IInv, Optimize
  PROVE  IInv'
<1>1. /\ stage = "optimize" /\ stage' \in {"finalize", "failed"}
      /\ UNCHANGED <<call, attempt, caller, text, security, result, recorded>>
      /\ stage' # "failed" => error' = error
      /\ error' \in {error, "other"}
      BY DEF Optimize, Fail
<1>2. TypeOK'
      BY <1>1 DEF IInv, TypeOK
<1>3. AttemptsEnd' /\ CountingIsLast'
      BY <1>1 DEF IInv, TypeOK, AttemptsEnd, CountingIsLast, Running
<1>4. TextsShrink' /\ StrictIsMasked' /\ DoneIsScrubbed'
      BY <1>1 DEF IInv, TextsShrink, StrictIsMasked, DoneIsScrubbed, SecurityAsked, Secure, Privacy, Strict,
                      Enabled, CleanAfter, PassCount
<1>5. UntimedStrictRefuses' /\ UndegradedIsScrubbed'
      BY <1>1 DEF IInv, UntimedStrictRefuses, StrictRefusesUnprocessed, UndegradedIsScrubbed,
                  SecurityAsked, Secure, Privacy, Strict, Enabled, CleanAfter, PassCount
<1>6. QED BY <1>2, <1>3, <1>4, <1>5 DEF IInv

LEMMA RunSecurityStep ==
  ASSUME IInv, RunSecurity
  PROVE  IInv'
<1>1. /\ stage = "security"
      /\ UNCHANGED <<call, attempt, caller, result, recorded>>
      /\ \/ text' \in Masked(text) /\ security' = "ok" /\ stage' = AfterSecurity /\ UNCHANGED error
         \/ /\ text' = text /\ security' = "failed"
            /\ \/ stage' = "failed" /\ error' \in {"processing", "other"}
               \/ call.api # "sanitize" /\ ~Strict /\ stage' = AfterSecurity /\ UNCHANGED error
      BY DEF RunSecurity, Fail
<1>2. /\ AfterSecurity \in {"security", "compile", "optimize", "finalize", "done"}
      /\ AfterSecurity = "done" <=> call.api = "sanitize"
      BY FirstOfType DEF AfterSecurity
<1>3. AfterSecurity # "security"
      BY FirstOfType DEF AfterSecurity
<1>4. text \in Text /\ text.copies <= call.prompt.copies /\ call.prompt.copies \in Nat
      BY CallType DEF IInv, TypeOK, TextsShrink
<1>5. TypeOK'
  <2>1. text' \in Text
        BY <1>1, <1>4, MaskedType
  <2>2. QED BY <1>1, <1>2, <2>1 DEF IInv, TypeOK
<1>6. AttemptsEnd' /\ CountingIsLast'
      BY <1>1, <1>2 DEF IInv, TypeOK, AttemptsEnd, CountingIsLast, Running
<1>7. StrictIsMasked'
  <2>1. Strict' = Strict /\ SecurityAsked' = SecurityAsked /\ PassCount' = PassCount
        BY <1>1 DEF Strict, SecurityAsked, Secure, Privacy, Enabled, PassCount
  <2>2. CASE security' = "ok"
    <3>1. CleanAfter(text', 1)
          BY <1>1, <1>4, <2>2, MaskedType
    <3>2. CleanAfter(text, 1)'
          BY <1>1, <3>1 DEF CleanAfter
    <3>3. stage' = "done" => PassCount = 1
          BY <1>1, <1>2, <2>2 DEF PassCount
    <3>4. QED BY <2>1, <2>2, <3>2, <3>3 DEF StrictIsMasked
  <2>3. CASE security' # "ok"
        BY <1>1, <1>2, <2>1, <2>3 DEF StrictIsMasked
  <2>4. QED BY <2>2, <2>3
<1>8. TextsShrink' /\ DoneIsScrubbed'
  <2>1. text'.copies <= call.prompt.copies
        BY <1>1, <1>4, MaskedType
  <2>2. QED BY <1>1, <1>2, <2>1 DEF TextsShrink, DoneIsScrubbed
<1>9. UntimedStrictRefuses' /\ UndegradedIsScrubbed'
      BY <1>1 DEF IInv, UntimedStrictRefuses, StrictRefusesUnprocessed, UndegradedIsScrubbed,
                  SecurityAsked, Secure, Privacy, Strict, Enabled, CleanAfter, PassCount
<1>10. QED BY <1>5, <1>6, <1>7, <1>8, <1>9 DEF IInv

LEMMA FinalizeStep ==
  ASSUME IInv, Finalize
  PROVE  IInv'
<1>1. stage = "finalize" /\ UNCHANGED <<call, attempt, caller, security, result>>
      BY DEF Finalize
<1>2. /\ text \in Text /\ call.prompt \in Text /\ call.prompt.copies \in Nat /\ text.copies \in Nat
      /\ text.copies <= call.prompt.copies /\ call.api = "process"
      BY <1>1, CallType, TextType DEF IInv, TypeOK, TextsShrink, AttemptsEnd
<1>3. error = "none" /\ recorded.success = 0 /\ recorded.failure = 0 /\ caller \in {"waiting", "joining"}
      BY <1>1 DEF IInv, TypeOK, AttemptsEnd, CountingIsLast, Running
<1>4. CASE stage' = "failed"
  <2>1. error' = "other" /\ UNCHANGED <<text, recorded>>
        BY <1>4 DEF Finalize, Finished, Fail
  <2>2. TypeOK'
        BY <1>1, <1>4, <2>1 DEF IInv, TypeOK
  <2>3. AttemptsEnd' /\ CountingIsLast'
        BY <1>1, <1>3, <1>4, <2>1 DEF IInv, TypeOK, AttemptsEnd, CountingIsLast, Running
  <2>4. TextsShrink' /\ StrictIsMasked' /\ DoneIsScrubbed'
        BY <1>1, <1>2, <1>4, <2>1 DEF TextsShrink, StrictIsMasked, DoneIsScrubbed
  <2>5. UntimedStrictRefuses' /\ UndegradedIsScrubbed'
        BY <1>1, <1>3 DEF UntimedStrictRefuses, StrictRefusesUnprocessed, UndegradedIsScrubbed
  <2>6. QED BY <2>2, <2>3, <2>4, <2>5 DEF IInv
<1>5. CASE stage' # "failed"
  <2>1. /\ stage' = "done" /\ UNCHANGED error
        /\ recorded' = [recorded EXCEPT !["success"] = @ + 1]
        /\ \/ MayPreserve /\ text' = call.prompt
           \/ ~MustScrub /\ text' = text
           \/ text' \in HybridPass(text)
        BY <1>5 DEF Finalize, Finished, Fail, Record
  <2>2. recorded'.success = 1 /\ recorded'.failure = 0 /\ recorded' \in [success : Nat, failure : Nat]
        BY <1>3, <2>1 DEF IInv, TypeOK
  <2>3. TypeOK' /\ TextsShrink'
    <3>1. text' \in Text /\ text'.copies <= call.prompt.copies
      <4>1. CASE text' \in HybridPass(text)
            BY <1>2, <4>1, HybridType
      <4>2. QED BY <1>2, <2>1, <4>1
    <3>2. QED BY <1>1, <2>1, <2>2, <3>1 DEF IInv, TypeOK, TextsShrink
  <2>4. AttemptsEnd' /\ CountingIsLast'
        BY <1>1, <1>3, <2>1, <2>2 DEF IInv, TypeOK, AttemptsEnd, CountingIsLast, Running
  <2>5. StrictIsMasked'
    <3>1. ASSUME Strict, SecurityAsked PROVE CleanAfter(text', 2)
      <4>1. Secure /\ CleanAfter(text, 1)
            BY <1>1, <1>2, <3>1 DEF IInv, StrictIsMasked, SecurityAsked
      <4>2. CASE text' \in HybridPass(text)
            BY <1>2, <4>1, <4>2, TwicePassed
      <4>3. CASE ~MustScrub /\ text' = text
            BY <1>2, <4>1, <4>3 DEF MustScrub, CleanAfter, Leaves
      <4>4. CASE MayPreserve /\ text' = call.prompt
            BY <1>2, <4>1, <4>4 DEF MayPreserve, CleanAfter, Leaves
      <4>5. QED BY <2>1, <4>2, <4>3, <4>4
    <3>2. (Strict' = Strict) /\ (SecurityAsked' = SecurityAsked) /\ PassCount' = 2
          BY <1>1, <1>2 DEF Strict, SecurityAsked, Secure, Privacy, Enabled, PassCount
    <3>3. ASSUME Strict, SecurityAsked PROVE CleanAfter(text, 2)'
          BY <1>1, <3>1, <3>3 DEF CleanAfter
    <3>4. QED BY <2>1, <3>2, <3>3 DEF StrictIsMasked
  <2>6. DoneIsScrubbed'
    <3>1. ASSUME Secure, ~call.flaky PROVE text'.copies <= Leaves(call.prompt.copies, 1)
      <4>1. CASE text' \in HybridPass(text)
            BY <1>2, <3>1, <4>1, HybridType DEF Leaves
      <4>2. CASE ~MustScrub /\ text' = text
            BY <1>2, <3>1, <4>2 DEF MustScrub, Leaves
      <4>3. CASE MayPreserve /\ text' = call.prompt
            BY <1>2, <3>1, <4>3 DEF MayPreserve, Leaves
      <4>4. QED BY <2>1, <4>1, <4>2, <4>3
    <3>2. QED BY <1>1, <3>1 DEF DoneIsScrubbed, Secure, Privacy, Enabled
  <2>7. UntimedStrictRefuses' /\ UndegradedIsScrubbed'
        BY <1>1, <1>3 DEF UntimedStrictRefuses, StrictRefusesUnprocessed, UndegradedIsScrubbed
  <2>8. QED BY <2>3, <2>4, <2>5, <2>6, <2>7 DEF IInv
<1>6. QED BY <1>4, <1>5

-----------------------------------------------------------------------------
(* So does the caller                                                      *)

(* An attempt that starts, with nothing recorded and nothing returned.     *)
LEMMA AttemptStep ==
  ASSUME IInv, StartAttempt, caller' = "waiting", caller \in {"start", "waiting"},
         stage \in {"idle", "failed"}, call' = call, attempt' \in 0..call.retries,
         UNCHANGED <<result, recorded>>
  PROVE  IInv'
<1>1. TypeOK BY DEF IInv
<1>2. /\ stage' \in {"security", "compile", "optimize", "finalize"}
      /\ SecurityAsked => stage' = "security"
      /\ call.api = "sanitize" => stage' = "security"
      /\ text' \in Text /\ text'.copies <= call.prompt.copies /\ security' = "none" /\ error' = "none"
      BY <1>1, StartType
<1>3. recorded.success = 0 /\ recorded.failure = 0
      BY <1>1 DEF IInv, TypeOK, CountingIsLast
<1>4. TypeOK'
      BY <1>1, <1>2 DEF TypeOK
<1>5. AttemptsEnd' /\ CountingIsLast'
      BY <1>2, <1>3 DEF AttemptsEnd, CountingIsLast
<1>6. TextsShrink' /\ StrictIsMasked' /\ DoneIsScrubbed'
      BY <1>2 DEF TextsShrink, StrictIsMasked, DoneIsScrubbed, SecurityAsked, Secure, Privacy, Enabled
<1>7. UntimedStrictRefuses' /\ UndegradedIsScrubbed'
      BY DEF UntimedStrictRefuses, StrictRefusesUnprocessed, UndegradedIsScrubbed
<1>8. QED BY <1>4, <1>5, <1>6, <1>7 DEF IInv

LEMMA BeginStep ==
  ASSUME IInv, Begin
  PROVE  IInv'
<1>1. stage = "idle" /\ attempt \in 0..call.retries
      BY DEF IInv, AttemptsEnd, TypeOK, Begin
<1>2. QED BY <1>1, AttemptStep DEF Begin

LEMMA RetryStep ==
  ASSUME IInv, Retry
  PROVE  IInv'
<1>1. attempt + 1 \in 0..call.retries
      BY CallType DEF IInv, TypeOK, Retry
<1>2. QED BY <1>1, AttemptStep DEF Retry

LEMMA RejectConfigStep ==
  ASSUME IInv, RejectConfig
  PROVE  IInv'
<1>1. /\ caller = "start" /\ caller' = "waiting" /\ attempt' = call.retries
      /\ stage' = "failed" /\ error' = "other"
      /\ UNCHANGED <<call, text, security, result, recorded>>
      BY DEF RejectConfig, Fail
<1>2. stage = "idle" /\ call.retries \in Nat
      BY <1>1, CallType DEF IInv, AttemptsEnd
<1>3. recorded.success = 0 /\ recorded.failure = 0
      BY <1>1, <1>2 DEF IInv, TypeOK, CountingIsLast
<1>4. TypeOK'
      BY <1>1, <1>2 DEF IInv, TypeOK
<1>5. AttemptsEnd' /\ CountingIsLast' /\ TextsShrink' /\ StrictIsMasked' /\ DoneIsScrubbed'
      BY <1>1, <1>3 DEF IInv, AttemptsEnd, CountingIsLast, TextsShrink, StrictIsMasked, DoneIsScrubbed
<1>6. UntimedStrictRefuses' /\ UndegradedIsScrubbed'
      BY <1>1 DEF UntimedStrictRefuses, StrictRefusesUnprocessed, UndegradedIsScrubbed
<1>7. QED BY <1>4, <1>5, <1>6 DEF IInv

LEMMA ExpireStep ==
  ASSUME IInv, Expire
  PROVE  IInv'
<1>1. /\ caller = "waiting" /\ call.timed /\ caller' = "joining"
      /\ UNCHANGED <<call, attempt, stage, text, security, error, result, recorded>>
      BY DEF Expire
<1>2. TypeOK' /\ AttemptsEnd' /\ CountingIsLast'
      BY <1>1 DEF IInv, TypeOK, AttemptsEnd, CountingIsLast, Running
<1>3. TextsShrink' /\ StrictIsMasked' /\ DoneIsScrubbed'
      BY <1>1 DEF IInv, TextsShrink, StrictIsMasked, DoneIsScrubbed, SecurityAsked, Secure, Privacy, Strict,
                      Enabled, CleanAfter, PassCount
<1>4. UntimedStrictRefuses' /\ UndegradedIsScrubbed'
      BY <1>1 DEF UntimedStrictRefuses, StrictRefusesUnprocessed, UndegradedIsScrubbed
<1>5. QED BY <1>2, <1>3, <1>4 DEF IInv

(* An answer, raised or returned, to a caller whose engines are at rest.   *)
LEMMA AnswerStep ==
  ASSUME IInv, caller \notin {"returned", "raised"}, ~Running,
         caller' \in {"returned", "raised"}, result' \in Result,
         UNCHANGED <<call, attempt, stage, text, security, error>>,
         \/ UNCHANGED recorded
         \/ stage = "failed" /\ caller' = "returned" /\ Record("failure"),
         UntimedStrictRefuses', UndegradedIsScrubbed'
  PROVE  IInv'
<1>1. TypeOK /\ AttemptsEnd /\ CountingIsLast
      BY DEF IInv
<1>2. recorded.failure = 0
      BY <1>1 DEF TypeOK, CountingIsLast
<1>3. TypeOK' /\ CountingIsLast'
  <2>1. CASE UNCHANGED recorded
        BY <1>1, <1>2, <2>1 DEF TypeOK, CountingIsLast
  <2>2. CASE stage = "failed" /\ caller' = "returned" /\ Record("failure")
    <3>1. recorded' \in [success : Nat, failure : Nat] /\ recorded'.success = recorded.success
          /\ recorded'.failure = 1
          BY <1>1, <1>2, <2>2 DEF Record, TypeOK
    <3>2. QED BY <1>1, <2>2, <3>1 DEF TypeOK, CountingIsLast
  <2>3. QED BY <2>1, <2>2
<1>4. AttemptsEnd'
      BY <1>1 DEF AttemptsEnd, Running
<1>5. TextsShrink' /\ StrictIsMasked' /\ DoneIsScrubbed'
      BY DEF IInv, TextsShrink, StrictIsMasked, DoneIsScrubbed, SecurityAsked, Secure, Privacy, Strict,
                      Enabled, CleanAfter, PassCount
<1>6. QED BY <1>3, <1>4, <1>5 DEF IInv

(* Why an answer may be given: raised, not by process() with the security  *)
(* stage undegraded, not in strict mode without a deadline.                *)
LEMMA AnswerIsSafe ==
  ASSUME UNCHANGED call,
         \/ caller' = "raised"
         \/ /\ \/ result'.degraded \/ call.api = "sanitize" \/ ~Secure \/ call.flaky
               \/ result'.text.copies <= Leaves(call.prompt.copies, 1)
            /\ ~Strict \/ ~SecurityAsked \/ call.timed \/ CleanAfter(result'.text, PassCount)
  PROVE  UntimedStrictRefuses' /\ UndegradedIsScrubbed'
BY DEF UntimedStrictRefuses, StrictRefusesUnprocessed, UndegradedIsScrubbed,
       SecurityAsked, Secure, Privacy, Strict, Enabled, CleanAfter, PassCount

LEMMA OutcomeType ==
  ASSUME NEW t \in Text, NEW d \in BOOLEAN, NEW r \in {"", "timeout", "failed", "invalid_prompt"}
  PROVE  Outcome(t, d, r) \in Result /\ Outcome(t, d, r).text = t /\ Outcome(t, d, r).degraded = d
BY DEF Outcome, Result

LEMMA RejectEmptyStep ==
  ASSUME IInv, RejectEmpty
  PROVE  IInv'
<1>1. /\ caller = "start" /\ caller' = "returned" /\ result' = Outcome(NoText, TRUE, "invalid_prompt")
      /\ UNCHANGED <<call, attempt, stage, text, security, error, recorded>>
      BY DEF RejectEmpty, Return
<1>2. ~Running
      BY <1>1 DEF IInv, AttemptsEnd, Running
<1>3. NoText \in Text /\ NoText.copies = 0 /\ ~NoText.named /\ call.prompt.copies \in Nat
      BY CallType, ProcessorAssumption DEF Text, NoText, IInv
<1>4. result' \in Result /\ result'.text = NoText /\ result'.degraded = TRUE
      BY <1>1, <1>3, OutcomeType
<1>5. CleanAfter(NoText, PassCount)
      BY <1>3 DEF CleanAfter, PassCount, Leaves
<1>6. UntimedStrictRefuses' /\ UndegradedIsScrubbed'
      BY <1>1, <1>4, <1>5, AnswerIsSafe
<1>7. QED BY <1>1, <1>2, <1>4, <1>6, AnswerStep

LEMMA ReturnResultStep ==
  ASSUME IInv, ReturnResult
  PROVE  IInv'
<1>1. /\ caller = "waiting" /\ stage = "done" /\ caller' = "returned" /\ result' = Outcome(text, FALSE, "")
      /\ UNCHANGED <<call, attempt, stage, text, security, error, recorded>>
      BY DEF ReturnResult, Return
<1>2. TypeOK /\ StrictIsMasked /\ DoneIsScrubbed
      BY DEF IInv
<1>3. result' \in Result /\ result'.text = text
      BY <1>1, <1>2, OutcomeType DEF TypeOK
<1>4. Strict /\ SecurityAsked => CleanAfter(text, PassCount)
      BY <1>1, <1>2 DEF StrictIsMasked
<1>5. call.api = "sanitize" \/ ~Secure \/ call.flaky \/ text.copies <= Leaves(call.prompt.copies, 1)
      BY <1>1, <1>2, CallType DEF DoneIsScrubbed
<1>6. UntimedStrictRefuses' /\ UndegradedIsScrubbed'
      BY <1>1, <1>3, <1>4, <1>5, AnswerIsSafe
<1>7. QED BY <1>1, <1>3, <1>6, AnswerStep DEF Running

LEMMA TimedOutStep ==
  ASSUME IInv, TimedOut
  PROVE  IInv'
<1>1. /\ caller = "joining" /\ ~Running
      /\ UNCHANGED <<call, attempt, stage, text, security, error, recorded>>
      BY DEF TimedOut
<1>2. call.timed /\ call.prompt \in Text /\ result \in Result
      BY <1>1, CallType DEF IInv, AttemptsEnd, TypeOK
<1>3. \/ caller' = "raised" /\ result' = result
      \/ caller' = "returned" /\ result' \in Result /\ result'.degraded
  <2>1. CASE call.api = "sanitize" /\ Strict
        BY <2>1 DEF TimedOut, Raise
  <2>2. CASE ~(call.api = "sanitize" /\ Strict)
    <3>1. PICK r \in {"timeout", "failed"} : caller' = "returned" /\ result' = Outcome(call.prompt, TRUE, r)
          BY <2>2 DEF TimedOut, Return
    <3>2. QED BY <1>2, <3>1, OutcomeType
  <2>3. QED BY <2>1, <2>2
<1>4. UntimedStrictRefuses' /\ UndegradedIsScrubbed'
      BY <1>1, <1>2, <1>3, AnswerIsSafe
<1>5. QED BY <1>1, <1>2, <1>3, <1>4, AnswerStep

LEMMA RefuseFailedStep ==
  ASSUME IInv, RefuseFailed
  PROVE  IInv'
<1>1. /\ caller = "waiting" /\ stage = "failed" /\ caller' = "raised"
      /\ UNCHANGED <<call, attempt, stage, text, security, error, recorded, result>>
      BY DEF RefuseFailed, Raise
<1>2. result' \in Result
      BY <1>1 DEF IInv, TypeOK
<1>3. UntimedStrictRefuses' /\ UndegradedIsScrubbed'
      BY <1>1, AnswerIsSafe
<1>4. QED BY <1>1, <1>2, <1>3, AnswerStep DEF Running

LEMMA FallBackStep ==
  ASSUME IInv, FallBack
  PROVE  IInv'
<1>1. /\ caller = "waiting" /\ stage = "failed" /\ ~Strict
      /\ UNCHANGED <<call, attempt, stage, text, security, error>>
      /\ Record("failure") \/ UNCHANGED recorded
      BY DEF FallBack, LastFailure
<1>2. PICK t \in HybridPass(call.prompt) \cup {call.prompt} :
        caller' = "returned" /\ result' = Outcome(t, TRUE, "failed")
      BY DEF FallBack, Return
<1>3. t \in Text
      BY <1>2, HybridType, CallType DEF IInv
<1>4. result' \in Result /\ result'.degraded = TRUE
      BY <1>2, <1>3, OutcomeType
<1>5. UntimedStrictRefuses' /\ UndegradedIsScrubbed'
      BY <1>1, <1>4, AnswerIsSafe
<1>6. QED BY <1>1, <1>2, <1>4, <1>5, AnswerStep DEF Running

-----------------------------------------------------------------------------
LEMMA ProcessorInit ==
  ASSUME Init
  PROVE  IInv
<1>1. call \in Call
      BY ProcessorAssumption DEF Init
<1>2. TypeOK
  <2>1. NoResult \in Result /\ NoText \in Text
        BY ProcessorAssumption DEF NoResult, Result, Text, NoText
  <2>2. 0 \in 0..call.retries
        BY <1>1, ProcessorAssumption DEF Call
  <2>3. [success |-> 0, failure |-> 0] \in [success : Nat, failure : Nat]
        OBVIOUS
  <2>4. QED BY <2>1, <2>2, <2>3 DEF Init, TypeOK
<1>3. call.prompt.copies \in Nat /\ text.copies = 0
      BY <1>2, CallType DEF Init, NoText
<1>4. QED BY <1>2, <1>3 DEF Init, IInv, AttemptsEnd, Running, CountingIsLast, TextsShrink, StrictIsMasked, DoneIsScrubbed,
             UntimedStrictRefuses, StrictRefusesUnprocessed, UndegradedIsScrubbed

LEMMA ProcessorStep ==
  ASSUME IInv, [Next]_vars
  PROVE  IInv'
<1>1. CASE Engine
      BY <1>1, RunSecurityStep, CompileStep, OptimizeStep, FinalizeStep DEF Engine
<1>2. CASE Caller
      BY <1>2, RejectEmptyStep, BeginStep, RejectConfigStep, ReturnResultStep, TimedOutStep,
         RetryStep, RefuseFailedStep, FallBackStep DEF Caller
<1>3. CASE Expire
      BY <1>3, ExpireStep
<1>4. CASE UNCHANGED vars
  <2>1. UNCHANGED <<call, attempt, caller, stage, text, security, error, result, recorded>>
        BY <1>4 DEF vars
  <2>2. TypeOK'
        BY <2>1 DEF IInv, TypeOK
  <2>3. AttemptsEnd' /\ CountingIsLast'
        BY <2>1 DEF IInv, AttemptsEnd, CountingIsLast, Running
  <2>4. TextsShrink' /\ StrictIsMasked' /\ DoneIsScrubbed'
        BY <2>1 DEF IInv, TextsShrink, StrictIsMasked, DoneIsScrubbed, SecurityAsked, Secure, Privacy, Strict,
                      Enabled, CleanAfter, PassCount
  <2>5. UntimedStrictRefuses' /\ UndegradedIsScrubbed'
        BY <2>1 DEF IInv, UntimedStrictRefuses, StrictRefusesUnprocessed, UndegradedIsScrubbed,
                    SecurityAsked, Secure, Privacy, Strict, Enabled, CleanAfter, PassCount
  <2>6. QED BY <2>2, <2>3, <2>4, <2>5 DEF IInv
<1>5. QED BY <1>1, <1>2, <1>3, <1>4 DEF Next

THEOREM ProcessorInvariance == Spec => []IInv
<1>1. Init => IInv
      BY ProcessorInit
<1>2. IInv /\ [Next]_vars => IInv'
      BY ProcessorStep
<1>3. QED BY <1>1, <1>2, PTL DEF Spec

(* Every state is typed, for any calls, faults and number of retries.      *)
THEOREM ProcessorTypes == Spec => []TypeOK
<1>1. IInv => TypeOK
      BY DEF IInv
<1>2. QED BY <1>1, ProcessorInvariance, PTL

(* processor.py, strict mode without a deadline: what is returned has been *)
(* through its security passes.  The lite detector has left nothing the    *)
(* patterns know; hybrid passes, unless a pipeline failed unseen, only     *)
(* what occurs more often than they ran.                                   *)
THEOREM StrictRefuses == Spec => []UntimedStrictRefuses
<1>1. IInv => UntimedStrictRefuses
      BY DEF IInv
<1>2. QED BY <1>1, ProcessorInvariance, PTL

(* finalize_privacy_output: in a result that is not marked degraded the    *)
(* patterns find only what was repeated, in every mode and after any       *)
(* failures but those of the PII pipeline, which do not show.              *)
THEOREM UndegradedResults == Spec => []UndegradedIsScrubbed
<1>1. IInv => UndegradedIsScrubbed
      BY DEF IInv
<1>2. QED BY <1>1, ProcessorInvariance, PTL

(* processor.py: what a caller gets is refused where strict mode could not *)
(* run its passes, and has had one at least where it is not marked         *)
(* degraded.                                                               *)
THEOREM ResultsScrubbed == Spec => []ResultsAreScrubbed
BY ProcessorTypes, StrictRefuses, UndegradedResults, PTL DEF ResultsAreScrubbed

(* The dashboard counts a call at most once.                               *)
THEOREM CallsAreCountedOnce == Spec => []CountedOnce
<1>1. IInv => CountedOnce
      BY DEF IInv, TypeOK, CountingIsLast, CountedOnce
<1>2. QED BY <1>1, ProcessorInvariance, PTL

(* ASHAProcessingError is final: no stage runs on that prompt again.       *)
THEOREM RefusalsAreFinal == Spec => NothingRunsAfterRefusal
<1>1. IInv /\ [Next]_vars => [error = "processing" => stage' = stage]_vars
  <2>1. SUFFICES ASSUME IInv, Next, error = "processing" PROVE stage' = stage
        OBVIOUS
  <2>2. stage = "failed" /\ caller # "start"
        BY <2>1 DEF IInv, AttemptsEnd
  <2>3. QED BY <2>1, <2>2 DEF Next, Engine, Caller, RunSecurity, Compile, Optimize, Finalize, RejectEmpty,
                Begin, RejectConfig, ReturnResult, TimedOut, Retry, RefuseFailed, FallBack, LastFailure, Expire
<1>2. QED BY <1>1, ProcessorInvariance, PTL DEF Spec, NothingRunsAfterRefusal

-----------------------------------------------------------------------------
(* AgentTurn                                                               *)

(* The budget of the tool loop is a product; the two facts about products  *)
(* that the proof needs.                                                   *)
LEMMA TimesSucc ==
  ASSUME NEW r \in Nat, NEW k \in Nat
  PROVE  (r + 1) * k = r * k + k
OBVIOUS

LEMMA TimesMonotone ==
  ASSUME NEW r \in Nat, NEW m \in Nat, r <= m, NEW k \in Nat
  PROVE  r * k \in Nat /\ r * k <= m * k
<1>1. PICK d \in Nat : m = r + d
  <2>. WITNESS m - r \in Nat
  <2>. QED OBVIOUS
<1>2. m * k = r * k + d * k
  BY <1>1
<1>3. r * k \in Nat /\ d * k \in Nat
  OBVIOUS
<1>. QED BY <1>2, <1>3

-----------------------------------------------------------------------------
LEMMA InitInvariant == TurnInit => TurnInv
<1>. SUFFICES ASSUME TurnInit PROVE TurnInv
  OBVIOUS
<1>. USE TurnAssumption
<1>1. TurnTypeOK
  BY DEF TurnInit, TurnTypeOK, Agent, Turn, Label, Adapter, NothingTried
<1>2. TurnInRange
  BY DEF TurnInit, TurnInRange, LastLeg
<1>3. AskedSoFar
  BY DEF TurnInit, AskedSoFar
<1>4. tried = [a \in Adapter |-> 0] /\ turn.own = 1 /\ turn.entry = "run"
  BY DEF TurnInit, NothingTried
<1>5. (MaxIterations + 1) * (Retries + 1) \in Nat
  OBVIOUS
<1>6. AttemptsBounded
  BY <1>4, <1>5 DEF AttemptsBounded, Adapter
<1>7. FallbackIsLastResort
  BY <1>4 DEF FallbackIsLastResort, Adapter
<1>. QED BY <1>1, <1>2, <1>3, <1>6, <1>7 DEF TurnInv

-----------------------------------------------------------------------------
(* Types, one action at a time.                                            *)
LEMMA StepTypes == TurnTypeOK /\ TurnInRange /\ [TurnNext]_turnvars => TurnTypeOK'
<1>. SUFFICES ASSUME TurnTypeOK, TurnInRange, [TurnNext]_turnvars PROVE TurnTypeOK'
  OBVIOUS
<1>. USE TurnAssumption DEF TurnTypeOK
<1>1. ASSUME NEW e \in {"run", "run_with_fallback"}, NEW n \in 0..MaxFallbacks, StartTurn(e, n)
      PROVE TurnTypeOK'
  <2>1. turn' \in Turn
    BY <1>1 DEF StartTurn, Turn, OwnLegs
  <2>2. tried' \in [Adapter -> Nat]
    BY <1>1 DEF StartTurn, NothingTried
  <2>3. governedRuns' \in Nat /\ turns' \in 0..MaxTurns
    BY <1>1 DEF StartTurn
  <2>. QED BY <1>1, <2>1, <2>2, <2>3 DEF StartTurn, Label
<1>2. CASE SwitchProvider
  BY <1>2 DEF SwitchProvider, Agent, loopVars
<1>3. CASE ProcessPrompt
  BY <1>3 DEF ProcessPrompt, RaiseError, Label, sessionVars, loopVars
<1>4. CASE GovernStepOutput
  BY <1>4 DEF GovernStepOutput, Label, sessionVars, loopVars
<1>5. CASE FinalizeSession
  BY <1>5 DEF FinalizeSession, Label, sessionVars, loopVars
<1>6. AdapterOf(leg) \in Adapter
  BY DEF TurnInRange, LastLeg, AdapterOf, Adapter, Turn
<1>7. Try => tried' \in [Adapter -> Nat]
  BY <1>6 DEF Try
<1>8. ASSUME NEW t \in Tool \cup {NoTool}, ProviderAnswers(t) PROVE TurnTypeOK'
  BY <1>7, <1>8 DEF ProviderAnswers, ReturnAnswer, Label, sessionVars
<1>9. CASE ProviderFails
  <2>1. leg' \in 1..(MaxFallbacks + 2)
    BY <1>9 DEF ProviderFails, LastLeg, Turn
  <2>2. tries' \in 0..Retries
    BY <1>9 DEF ProviderFails
  <2>. QED BY <1>7, <1>9, <2>1, <2>2 DEF ProviderFails, RaiseError, Label, sessionVars, loopVars
<1>10. CASE EndWithAnswer
  BY <1>10 DEF EndWithAnswer, ReturnAnswer, Label, sessionVars, loopVars
<1>11. ASSUME NEW report \in Report, NextRound(report), pc = "parse", ran' \in Seq(Report)
       PROVE  TurnTypeOK'
  BY <1>11 DEF NextRound, TurnInRange, Label, sessionVars
<1>12. CASE UnknownTool
  <2>1. [tool |-> response, outcome |-> "unknown"] \in Report
    BY <1>12 DEF UnknownTool, Report
  <2>. QED BY <1>11, <1>12, <2>1 DEF UnknownTool
<1>13. CASE CallTool
  <2>1. PICK outcome \in Outcomes :
          LET report == [tool |-> response, outcome |-> outcome]
          IN  /\ ran' = IF outcome = "denied" THEN ran ELSE Append(ran, report)
              /\ NextRound(report)
    BY <1>13 DEF CallTool
  <2>. DEFINE report == [tool |-> response, outcome |-> outcome]
  <2>2. report \in Report
    BY <1>13, <2>1 DEF CallTool, Report, Outcomes, Agent
  <2>3. ran' \in Seq(Report)
    BY <2>1, <2>2
  <2>. QED BY <1>11, <1>13, <2>1, <2>2, <2>3 DEF CallTool
<1>14. CASE UNCHANGED turnvars
  BY <1>14 DEF turnvars
<1>. QED
  BY <1>1, <1>2, <1>3, <1>4, <1>5, <1>8, <1>9, <1>10, <1>12, <1>13, <1>14 DEF TurnNext, TurnStep

-----------------------------------------------------------------------------
(* What one more provider call does to the counts: under run it is the     *)
(* agent's own adapter that is called, within the budget of this round;    *)
(* under run_with_fallback the adapter of this leg.                        *)
LEMMA TryCounts ==
  ASSUME TurnInv, pc = "ask", Try
  PROVE  /\ tried' \in [Adapter -> Nat]
         /\ turn.entry = "run" =>
              /\ tried'[0] <= round * (Retries + 1) + tries + 1
              /\ \A b \in Adapter \ {0} : tried'[b] = 0
         /\ turn.entry = "run_with_fallback" =>
              /\ leg <= turn.own => tried'[0] = (leg - 1) * (Retries + 1) + tries + 1
              /\ leg > turn.own =>
                   /\ tried'[0] = turn.own * (Retries + 1)
                   /\ tried'[leg - turn.own] = tries + 1
                   /\ \A b \in 1..(leg - turn.own - 1) : tried'[b] = Retries + 1
         /\ \A b \in Adapter : b > 0 /\ b > leg - turn.own => tried'[b] = 0
<1>1. /\ 0 \in Adapter /\ leg \in Nat \ {0} /\ turn.own \in {1, 2} /\ turn.given \in 0..MaxFallbacks
      /\ turn.entry \in {"run", "run_with_fallback"}
      /\ leg <= turn.own + turn.given
      /\ turn.entry = "run" => turn.own = 1 /\ leg = 1
      /\ tried \in [Adapter -> Nat] /\ tries \in Nat /\ round \in Nat /\ Retries + 1 \in Nat
      /\ MaxFallbacks \in Nat
  BY TurnAssumption DEF TurnInv, TurnTypeOK, Adapter, Turn, TurnInRange, LastLeg
<1>2. AdapterOf(leg) \in Adapter
  <2>1. CASE leg <= turn.own
    BY <1>1, <2>1 DEF AdapterOf
  <2>2. CASE leg > turn.own
    <3>1. leg - turn.own \in 0..MaxFallbacks /\ ~(leg <= turn.own)
      BY <1>1, <2>2
    <3>. QED BY <3>1 DEF AdapterOf, Adapter
  <2>. QED BY <1>1, <2>1, <2>2
<1>3. tried' \in [Adapter -> Nat]
  BY <1>1, <1>2 DEF Try
<1>4. \A b \in Adapter : tried'[b] = IF b = AdapterOf(leg) THEN tried[b] + 1 ELSE tried[b]
  BY <1>1, <1>2 DEF Try
<1>5. ASSUME NEW b \in Adapter, b > 0, b > leg - turn.own PROVE tried'[b] = 0
  <2>1. tried[b] = 0
    BY <1>5 DEF TurnInv, AskedSoFar
  <2>2. b # AdapterOf(leg)
    BY <1>1, <1>5 DEF AdapterOf, Adapter
  <2>. QED BY <1>4, <2>1, <2>2
<1>6. ASSUME turn.entry = "run"
      PROVE  /\ tried'[0] <= round * (Retries + 1) + tries + 1
             /\ \A b \in Adapter \ {0} : tried'[b] = 0
  <2>1. tried[0] <= round * (Retries + 1) + tries
    <3>1. tried[0] <= round * (Retries + 1) + tries + 0
      BY <1>6 DEF TurnInv, AskedSoFar
    <3>2. round * (Retries + 1) \in Nat
      BY <1>1, TimesMonotone
    <3>. QED BY <1>1, <3>1, <3>2
  <2>2. round * (Retries + 1) \in Nat
    BY <1>1, TimesMonotone
  <2>3. AdapterOf(leg) = 0
    BY <1>1, <1>6 DEF AdapterOf
  <2>4. tried'[0] = tried[0] + 1
    BY <1>1, <1>4, <2>3
  <2>5. \A b \in Adapter \ {0} : tried'[b] = 0
    BY <1>1, <1>5, <1>6 DEF Adapter
  <2>6. tried[0] \in Nat
    BY <1>1
  <2>. QED BY <1>1, <2>1, <2>2, <2>4, <2>5, <2>6
<1>7. ASSUME turn.entry = "run_with_fallback", leg <= turn.own
      PROVE  tried'[0] = (leg - 1) * (Retries + 1) + tries + 1
  <2>1. tried[0] = (leg - 1) * (Retries + 1) + tries
    BY <1>7 DEF TurnInv, AskedSoFar
  <2>2. AdapterOf(leg) = 0
    BY <1>7 DEF AdapterOf
  <2>3. tried'[0] = tried[0] + 1
    BY <1>1, <1>4, <2>2
  <2>4. (leg - 1) * (Retries + 1) \in Nat
    BY <1>1, TimesMonotone
  <2>. QED BY <1>1, <2>1, <2>3, <2>4
<1>8. ASSUME turn.entry = "run_with_fallback", leg > turn.own
      PROVE  /\ tried'[0] = turn.own * (Retries + 1)
             /\ tried'[leg - turn.own] = tries + 1
             /\ \A b \in 1..(leg - turn.own - 1) : tried'[b] = Retries + 1
  <2>1. /\ tried[0] = turn.own * (Retries + 1)
        /\ tried[leg - turn.own] = tries
        /\ \A b \in 1..(leg - turn.own - 1) : tried[b] = Retries + 1
    BY <1>8 DEF TurnInv, AskedSoFar
  <2>2. ~(leg <= turn.own) /\ leg - turn.own \in 1..MaxFallbacks
    BY <1>1, <1>8
  <2>3. AdapterOf(leg) = leg - turn.own
    BY <2>2 DEF AdapterOf
  <2>4. tried'[leg - turn.own] = tries + 1
    BY <1>2, <1>4, <2>1, <2>3
  <2>5. 0 # AdapterOf(leg)
    BY <1>1, <2>2, <2>3
  <2>6. tried'[0] = turn.own * (Retries + 1)
    BY <1>1, <1>4, <2>1, <2>5
  <2>7. ASSUME NEW b \in 1..(leg - turn.own - 1) PROVE tried'[b] = Retries + 1
    <3>1. b \in Adapter /\ b # leg - turn.own
      BY <1>1, <2>2 DEF Adapter
    <3>. QED BY <1>4, <2>1, <2>3, <3>1
  <2>. QED BY <2>4, <2>6, <2>7
<1>. QED BY <1>3, <1>5, <1>6, <1>7, <1>8

(* No provider call goes over a budget or comes before its turn.           *)
LEMMA TryInBounds ==
  ASSUME TurnInv, pc = "ask", Try, UNCHANGED <<turn, round>>
  PROVE  AttemptsBounded' /\ FallbackIsLastResort'
<1>1. /\ leg \in Nat \ {0} /\ turn.own \in {1, 2} /\ turn.given \in 0..MaxFallbacks
      /\ turn.entry \in {"run", "run_with_fallback"}
      /\ leg <= turn.own + turn.given
      /\ tries \in 0..Retries /\ round \in 0..MaxIterations
      /\ Retries \in Nat /\ MaxIterations \in Nat /\ MaxFallbacks \in Nat
      /\ UNCHANGED <<turn, round>>
  BY TurnAssumption DEF TurnInv, TurnTypeOK, Turn, TurnInRange, LastLeg
<1>2. CASE turn.entry = "run"
  <2>1. /\ tried'[0] <= round * (Retries + 1) + tries + 1
        /\ \A b \in Adapter \ {0} : tried'[b] = 0
        /\ tried' \in [Adapter -> Nat] /\ 0 \in Adapter
    BY <1>1, <1>2, TryCounts DEF Adapter
  <2>2. (round + 1) * (Retries + 1) = round * (Retries + 1) + (Retries + 1)
    BY <1>1, TimesSucc
  <2>3. /\ (round + 1) * (Retries + 1) \in Nat
        /\ (round + 1) * (Retries + 1) <= (MaxIterations + 1) * (Retries + 1)
    BY <1>1, TimesMonotone
  <2>4. round * (Retries + 1) \in Nat /\ (MaxIterations + 1) * (Retries + 1) \in Nat
    BY <1>1, TimesMonotone
  <2>5. tried'[0] <= (MaxIterations + 1) * (Retries + 1)
    <3>. DEFINE now == round * (Retries + 1)
                next == (round + 1) * (Retries + 1)
                all == (MaxIterations + 1) * (Retries + 1)
    <3>1. tried'[0] <= now + tries + 1 /\ next = now + (Retries + 1) /\ next <= all
      BY <2>1, <2>2, <2>3
    <3>2. tried'[0] \in Nat /\ now \in Nat /\ next \in Nat /\ all \in Nat
      BY <2>1, <2>3, <2>4
    <3>. HIDE DEF now, next, all
    <3>3. tried'[0] <= all
      BY <1>1, <3>1, <3>2
    <3>. QED BY <3>3 DEF all
  <2>6. AttemptsBounded'
    BY <1>1, <1>2, <2>1, <2>5 DEF AttemptsBounded, Adapter
  <2>7. FallbackIsLastResort'
    BY <2>1 DEF FallbackIsLastResort
  <2>. QED BY <2>6, <2>7
<1>3. CASE turn.entry = "run_with_fallback" /\ leg <= turn.own
  <2>1. /\ tried'[0] = (leg - 1) * (Retries + 1) + tries + 1
        /\ \A b \in Adapter \ {0} : tried'[b] = 0
    <3>1. \A b \in Adapter \ {0} : b > 0 /\ b > leg - turn.own
      BY <1>1, <1>3 DEF Adapter
    <3>. QED BY <1>3, <3>1, TryCounts
  <2>2. tried'[0] <= turn.own * (Retries + 1)
    <3>1. CASE leg = 1 /\ turn.own = 1
      BY <1>1, <2>1, <3>1
    <3>2. CASE leg = 1 /\ turn.own = 2
      BY <1>1, <2>1, <3>2
    <3>3. CASE leg = 2 /\ turn.own = 2
      BY <1>1, <2>1, <3>3
    <3>. QED BY <1>1, <1>3, <3>1, <3>2, <3>3
  <2>3. AttemptsBounded'
    BY <1>1, <1>3, <2>1, <2>2 DEF AttemptsBounded, Adapter
  <2>4. FallbackIsLastResort'
    BY <2>1 DEF FallbackIsLastResort
  <2>. QED BY <2>3, <2>4
<1>4. CASE turn.entry = "run_with_fallback" /\ leg > turn.own
  <2>. DEFINE k == leg - turn.own
  <2>1. /\ tried'[0] = turn.own * (Retries + 1)
        /\ tried'[k] = tries + 1
        /\ \A b \in 1..(k - 1) : tried'[b] = Retries + 1
        /\ \A b \in Adapter : b > 0 /\ b > k => tried'[b] = 0
    BY <1>4, TryCounts
  <2>2. k \in Nat \ {0} /\ k <= turn.given
    BY <1>1, <1>4
  <2>3. tried'[0] <= turn.own * (Retries + 1)
    BY <1>1, <2>1
  <2>. HIDE DEF k
  <2>4. ASSUME NEW b \in Adapter, b # 0
        PROVE  b \in Nat \ {0} /\ (b \in 1..(k - 1) \/ b = k \/ b > k)
    BY <2>2, <2>4 DEF Adapter
  <2>5. ASSUME NEW b \in Adapter, b # 0 PROVE tried'[b] <= Retries + 1
    <3>1. CASE b \in 1..(k - 1)
      BY <1>1, <2>1, <3>1
    <3>2. CASE b = k
      BY <1>1, <2>1, <3>2
    <3>3. CASE b > k
      BY <1>1, <2>1, <2>4, <2>5, <3>3
    <3>. QED BY <2>4, <2>5, <3>1, <3>2, <3>3
  <2>6. AttemptsBounded'
    BY <1>1, <1>4, <2>3, <2>5 DEF AttemptsBounded, Adapter
  <2>7. ASSUME NEW a \in Adapter, a # 0, tried'[a] > 0
        PROVE  a <= turn.given /\ \A b \in 1..(a - 1) : tried'[b] = Retries + 1
    <3>1. ~(a > k) /\ a \in Nat \ {0}
      BY <2>1, <2>4, <2>7
    <3>2. a <= k
      BY <2>2, <3>1
    <3>3. \A b \in 1..(a - 1) : b \in 1..(k - 1)
      BY <2>2, <3>1, <3>2
    <3>4. a <= turn.given
      BY <1>1, <2>2, <3>1, <3>2
    <3>. QED BY <2>1, <3>3, <3>4
  <2>8. FallbackIsLastResort'
    BY <1>1, <1>4, <2>1, <2>7 DEF FallbackIsLastResort
  <2>. QED BY <2>6, <2>8
<1>. QED BY <1>1, <1>2, <1>3, <1>4

-----------------------------------------------------------------------------
(* Where no provider is called the bounds stay as they are.                *)
LEMMA CountsKept ==
  ASSUME TurnInv, UNCHANGED <<turn, tried>>
  PROVE  AttemptsBounded' /\ FallbackIsLastResort'
BY DEF TurnInv, AttemptsBounded, FallbackIsLastResort

(* Nothing is left to show once the inner run is over.                     *)
LEMMA InnerRunOver ==
  ASSUME TurnInv, UNCHANGED <<turn, leg>>, pc' \notin {"process", "ask", "parse"}
  PROVE  TurnInRange' /\ AskedSoFar'
BY DEF TurnInv, TurnInRange, LastLeg, AskedSoFar

LEMMA StartTurnKeeps ==
  ASSUME TurnInv, NEW e \in {"run", "run_with_fallback"}, NEW n \in 0..MaxFallbacks, StartTurn(e, n)
  PROVE  TurnInRange' /\ AskedSoFar' /\ AttemptsBounded' /\ FallbackIsLastResort'
<1>. USE TurnAssumption
<1>1. /\ turn' = [entry |-> e, given |-> n, own |-> OwnLegs(e)] /\ OwnLegs(e) \in {1, 2}
      /\ e = "run" => n = 0 /\ OwnLegs(e) = 1
      /\ pc' = "process" /\ leg' = 1 /\ tries' = 0 /\ round' = 0
      /\ tried' = [a \in Adapter |-> 0] /\ 0 \in Adapter
  BY DEF StartTurn, NothingTried, OwnLegs, Adapter
<1>2. TurnInRange'
  BY <1>1 DEF TurnInRange, LastLeg
<1>3. AskedSoFar'
  BY <1>1 DEF AskedSoFar
<1>4. (MaxIterations + 1) * (Retries + 1) \in Nat
  BY TimesMonotone
<1>5. AttemptsBounded'
  BY <1>1, <1>4 DEF AttemptsBounded, Adapter
<1>6. FallbackIsLastResort'
  BY <1>1 DEF FallbackIsLastResort
<1>. QED BY <1>2, <1>3, <1>5, <1>6

(* An answer to a run is within the round's budget, retries and all.       *)
LEMMA ProviderAnswersKeeps ==
  ASSUME TurnInv, NEW t \in Tool \cup {NoTool}, ProviderAnswers(t)
  PROVE  TurnInRange' /\ AskedSoFar' /\ AttemptsBounded' /\ FallbackIsLastResort'
<1>. USE TurnAssumption
<1>1. /\ pc = "ask" /\ Try /\ tries' = 0
      /\ UNCHANGED <<turn, leg, round>>
      /\ pc' \in {"govern", "idle"} \/ (pc' = "parse" /\ Looping)
  BY DEF ProviderAnswers, ReturnAnswer, sessionVars
<1>2. AttemptsBounded' /\ FallbackIsLastResort'
  BY <1>1, TryInBounds
<1>3. CASE pc' \in {"govern", "idle"}
  BY <1>1, <1>2, <1>3, InnerRunOver
<1>4. CASE pc' = "parse" /\ Looping
  <2>1. turn.entry = "run" /\ round < MaxIterations
    BY <1>4 DEF Looping
  <2>2. TurnInRange'
    BY <1>1, <2>1 DEF TurnInv, TurnInRange, LastLeg
  <2>3. /\ tried'[0] <= round * (Retries + 1) + tries + 1
        /\ \A b \in Adapter : b > 0 /\ b > leg - turn.own => tried'[b] = 0
        /\ tried' \in [Adapter -> Nat] /\ 0 \in Adapter
        /\ round * (Retries + 1) \in Nat /\ tries \in 0..Retries
    BY <1>1, <2>1, TryCounts, TimesMonotone DEF TurnInv, TurnTypeOK, Adapter
  <2>4. tried'[0] <= round * (Retries + 1) + 0 + (Retries + 1)
    BY <2>3
  <2>5. AskedSoFar'
    BY <1>1, <1>4, <2>1, <2>3, <2>4 DEF AskedSoFar
  <2>. QED BY <1>2, <2>2, <2>5
<1>. QED BY <1>1, <1>3, <1>4

(* A failure leaves the attempts of this leg counted; after the last of    *)
(* them the next leg starts at nought.                                     *)
LEMMA ProviderFailsKeeps ==
  ASSUME TurnInv, ProviderFails
  PROVE  TurnInRange' /\ AskedSoFar' /\ AttemptsBounded' /\ FallbackIsLastResort'
<1>. USE TurnAssumption
<1>1. pc = "ask" /\ Try /\ UNCHANGED <<turn, round>>
  BY DEF ProviderFails, sessionVars, loopVars
<1>2. AttemptsBounded' /\ FallbackIsLastResort'
  BY <1>1, TryInBounds
<1>3. /\ leg \in Nat \ {0} /\ turn.own \in {1, 2} /\ turn.given \in 0..MaxFallbacks
      /\ turn.entry \in {"run", "run_with_fallback"}
      /\ leg <= turn.own + turn.given
      /\ turn.entry = "run" => turn.own = 1 /\ turn.given = 0
      /\ tries \in 0..Retries /\ 0 \in Adapter
  BY DEF TurnInv, TurnTypeOK, Turn, TurnInRange, LastLeg, Adapter
<1>4. CASE tries < Retries /\ tries' = tries + 1 /\ UNCHANGED <<leg, pc, answer>>
  <2>1. TurnInRange'
    BY <1>1, <1>4 DEF TurnInv, TurnInRange, LastLeg
  <2>2. AskedSoFar'
    <3>1. turn.entry = "run" => tried'[0] <= round * (Retries + 1) + tries' + 0
      <4>. SUFFICES ASSUME turn.entry = "run" PROVE tried'[0] <= round * (Retries + 1) + tries' + 0
        OBVIOUS
      <4>1. tried'[0] <= round * (Retries + 1) + tries + 1 /\ round * (Retries + 1) \in Nat
        BY <1>1, TryCounts, TimesMonotone DEF TurnInv, TurnTypeOK
      <4>. QED BY <1>3, <1>4, <4>1
    <3>2. turn.entry = "run_with_fallback" /\ leg <= turn.own
            => tried'[0] = (leg - 1) * (Retries + 1) + tries'
      <4>. SUFFICES ASSUME turn.entry = "run_with_fallback", leg <= turn.own
                    PROVE  tried'[0] = (leg - 1) * (Retries + 1) + tries'
        OBVIOUS
      <4>1. tried'[0] = (leg - 1) * (Retries + 1) + tries + 1
        BY <1>1, TryCounts
      <4>2. (leg - 1) * (Retries + 1) \in Nat
        BY <1>3, TimesMonotone
      <4>. QED BY <1>3, <1>4, <4>1, <4>2
    <3>3. turn.entry = "run_with_fallback" /\ leg > turn.own =>
            /\ tried'[0] = turn.own * (Retries + 1)
            /\ tried'[leg - turn.own] = tries'
            /\ \A b \in 1..(leg - turn.own - 1) : tried'[b] = Retries + 1
      BY <1>1, <1>4, TryCounts
    <3>4. \A b \in Adapter : b > 0 /\ b > leg - turn.own => tried'[b] = 0
      BY <1>1, TryCounts
    <3>. QED BY <1>1, <1>4, <3>1, <3>2, <3>3, <3>4 DEF AskedSoFar
  <2>. QED BY <1>2, <2>1, <2>2
<1>5. CASE tries = Retries /\ tries' = 0 /\ leg < LastLeg /\ leg' = leg + 1 /\ UNCHANGED <<pc, answer>>
  <2>1. turn.entry = "run_with_fallback"
    BY <1>3, <1>5 DEF LastLeg
  <2>2. TurnInRange'
    BY <1>1, <1>3, <1>5 DEF TurnInv, TurnInRange, LastLeg
  <2>3. CASE leg < turn.own
    <3>1. leg = 1 /\ turn.own = 2
      BY <1>3, <2>3
    <3>2. tried'[0] = Retries + 1
      BY <1>1, <1>3, <1>5, <2>1, <3>1, TryCounts
    <3>3. tried'[0] = (leg' - 1) * (Retries + 1) + tries'
      BY <1>3, <1>5, <3>1, <3>2
    <3>4. \A b \in Adapter : b > 0 /\ b > leg' - turn.own => tried'[b] = 0
      BY <1>1, <1>5, <3>1, TryCounts DEF Adapter
    <3>5. ~(leg' > turn.own)
      BY <1>5, <3>1
    <3>6. AskedSoFar'
      BY <1>1, <1>5, <2>1, <3>3, <3>4, <3>5 DEF AskedSoFar
    <3>. QED BY <1>2, <2>2, <3>6
  <2>4. CASE leg >= turn.own
    <3>. DEFINE k == leg - turn.own
    <3>1. k \in Nat /\ leg' - turn.own = k + 1 /\ leg' > turn.own /\ k + 1 \in Adapter
      BY <1>3, <1>5, <2>4 DEF LastLeg, Adapter
    <3>2. tried'[0] = turn.own * (Retries + 1)
      <4>1. CASE leg = turn.own
        <5>1. tried'[0] = (turn.own - 1) * (Retries + 1) + Retries + 1
          <6>1. tried'[0] = (leg - 1) * (Retries + 1) + tries + 1
            BY <1>1, <2>1, <4>1, <1>3, TryCounts
          <6>. QED BY <1>5, <4>1, <6>1
        <5>2. CASE turn.own = 1
          BY <5>1, <5>2
        <5>3. CASE turn.own = 2
          BY <5>1, <5>3
        <5>. QED BY <1>3, <5>2, <5>3
      <4>2. CASE leg > turn.own
        BY <1>1, <2>1, <4>2, TryCounts
      <4>. QED BY <1>3, <2>4, <4>1, <4>2
    <3>3. \A b \in Adapter : b > 0 /\ b > k => tried'[b] = 0
      BY <1>1, TryCounts
    <3>4. k > 0 => /\ tried'[k] = Retries + 1
                   /\ \A b \in 1..(k - 1) : tried'[b] = Retries + 1
      <4>. SUFFICES ASSUME k > 0 PROVE tried'[k] = tries + 1 /\ \A b \in 1..(k - 1) : tried'[b] = Retries + 1
        BY <1>5
      <4>1. leg > turn.own
        BY <1>3
      <4>. QED BY <1>1, <2>1, <4>1, TryCounts
    <3>. HIDE DEF k
    <3>5. \A b \in 1..k : tried'[b] = Retries + 1
      <4>. TAKE b \in 1..k
      <4>1. b = k \/ b \in 1..(k - 1)
        BY <3>1
      <4>2. k > 0
        BY <3>1
      <4>. QED BY <3>4, <4>1, <4>2
    <3>6. tried'[k + 1] = 0
      BY <3>1, <3>3
    <3>7. \A b \in Adapter : b > 0 /\ b > k + 1 => tried'[b] = 0
      BY <3>1, <3>3 DEF Adapter
    <3>8. AskedSoFar'
      <4>1. leg' - turn'.own = k + 1 /\ ~(leg' <= turn'.own) /\ tries' = 0
            /\ turn'.entry = "run_with_fallback" /\ turn'.own = turn.own
        <5>1. turn' = turn /\ leg' \in Int /\ turn.own \in Int
          BY <1>1, <1>3, <1>5
        <5>2. ~(leg' <= turn.own)
          BY <3>1, <5>1
        <5>. QED BY <1>5, <2>1, <3>1, <5>1, <5>2
      <4>2. tried'[leg' - turn'.own] = tries'
        BY <3>6, <4>1
      <4>3. \A b \in 1..(leg' - turn'.own - 1) : tried'[b] = Retries + 1
        <5>1. leg' - turn'.own - 1 = k
          BY <3>1, <4>1
        <5>. QED BY <3>5, <5>1
      <4>4. \A b \in Adapter : b > 0 /\ b > leg' - turn'.own => tried'[b] = 0
        BY <3>7, <4>1
      <4>5. tried'[0] = turn'.own * (Retries + 1)
        BY <3>2, <4>1
      <4>. QED BY <4>1, <4>2, <4>3, <4>4, <4>5 DEF AskedSoFar
    <3>. QED BY <1>2, <2>2, <3>8
  <2>. QED BY <1>3, <2>3, <2>4
<1>6. CASE tries = Retries /\ RaiseError /\ UNCHANGED leg
  <2>1. pc' \notin {"process", "ask", "parse"}
    BY <1>6 DEF RaiseError
  <2>. QED BY <1>1, <1>2, <1>6, <2>1, InnerRunOver
<1>. QED BY <1>4, <1>5, <1>6 DEF ProviderFails

(* A round of the tool loop passes its budget on to the next.              *)
LEMMA NextRoundKeeps ==
  ASSUME TurnInv, pc = "parse", NEW report, NextRound(report)
  PROVE  TurnInRange' /\ AskedSoFar' /\ AttemptsBounded' /\ FallbackIsLastResort'
<1>. USE TurnAssumption
<1>1. /\ UNCHANGED <<turn, leg, tries, tried>> /\ round' = round + 1 /\ pc' = "ask"
  BY DEF NextRound, sessionVars
<1>2. turn.entry = "run" /\ round \in Nat /\ tries \in Nat
  BY DEF TurnInv, TurnTypeOK, TurnInRange
<1>3. TurnInRange'
  BY <1>1 DEF TurnInv, TurnInRange, LastLeg
<1>4. tried[0] <= round * (Retries + 1) + tries + (Retries + 1)
  BY <1>2 DEF TurnInv, AskedSoFar
<1>5. (round + 1) * (Retries + 1) = round * (Retries + 1) + (Retries + 1) /\ round * (Retries + 1) \in Nat
  BY <1>2, TimesSucc, TimesMonotone
<1>6. tried'[0] <= round' * (Retries + 1) + tries' + 0
  BY <1>1, <1>2, <1>4, <1>5
<1>7. \A b \in Adapter : b > 0 /\ b > leg' - turn'.own => tried'[b] = 0
  BY <1>1 DEF TurnInv, AskedSoFar
<1>8. AskedSoFar'
  BY <1>1, <1>2, <1>6, <1>7 DEF AskedSoFar
<1>. QED BY <1>1, <1>3, <1>8, CountsKept

LEMMA StepInvariant == TurnInv /\ [TurnNext]_turnvars => TurnInv'
<1>. SUFFICES ASSUME TurnInv, [TurnNext]_turnvars PROVE TurnInv'
  OBVIOUS
<1>. DEFINE Kept == TurnInRange' /\ AskedSoFar' /\ AttemptsBounded' /\ FallbackIsLastResort'
<1>1. TurnTypeOK'
  BY StepTypes DEF TurnInv
<1>2. SUFFICES Kept
  BY <1>1 DEF TurnInv
<1>3. ASSUME NEW e \in {"run", "run_with_fallback"}, NEW n \in 0..MaxFallbacks, StartTurn(e, n)
      PROVE Kept
  BY <1>3, StartTurnKeeps
<1>4. CASE SwitchProvider \/ GovernStepOutput \/ FinalizeSession
  <2>1. UNCHANGED <<turn, leg, tried>> /\ pc' \notin {"process", "ask", "parse"}
    BY <1>4 DEF SwitchProvider, GovernStepOutput, FinalizeSession, sessionVars
  <2>. QED BY <2>1, InnerRunOver, CountsKept
<1>5. CASE ProcessPrompt
  <2>1. UNCHANGED <<turn, leg, tries, round, tried>> /\ pc = "process"
    BY <1>5 DEF ProcessPrompt, sessionVars, loopVars
  <2>2. CASE pc' = "ask"
    <3>1. TurnInRange' /\ AskedSoFar'
      BY <2>1, <2>2 DEF TurnInv, TurnInRange, LastLeg, AskedSoFar
    <3>. QED BY <2>1, <3>1, CountsKept
  <2>3. CASE RaiseError
    <3>1. pc' \notin {"process", "ask", "parse"}
      BY <2>3 DEF RaiseError
    <3>. QED BY <2>1, <3>1, InnerRunOver, CountsKept
  <2>. QED BY <1>5, <2>2, <2>3 DEF ProcessPrompt
<1>6. ASSUME NEW t \in Tool \cup {NoTool}, ProviderAnswers(t) PROVE Kept
  BY <1>6, ProviderAnswersKeeps
<1>7. CASE ProviderFails
  BY <1>7, ProviderFailsKeeps
<1>8. CASE EndWithAnswer
  <2>1. UNCHANGED <<turn, leg, tried>> /\ pc' \notin {"process", "ask", "parse"}
    BY <1>8 DEF EndWithAnswer, ReturnAnswer, sessionVars
  <2>. QED BY <2>1, InnerRunOver, CountsKept
<1>9. CASE UnknownTool
  BY <1>9, NextRoundKeeps DEF UnknownTool
<1>10. CASE CallTool
  BY <1>10, NextRoundKeeps DEF CallTool
<1>11. CASE UNCHANGED turnvars
  <2>1. UNCHANGED <<pc, turn, leg, tries, round, tried>>
    BY <1>11 DEF turnvars
  <2>2. TurnInRange' /\ AskedSoFar'
    BY <2>1 DEF TurnInv, TurnInRange, LastLeg, AskedSoFar
  <2>. QED BY <2>1, <2>2, CountsKept
<1>. QED BY <1>3, <1>4, <1>5, <1>6, <1>7, <1>8, <1>9, <1>10, <1>11 DEF TurnNext, TurnStep

-----------------------------------------------------------------------------
LEMMA Invariance == TurnSpec => []TurnInv
BY InitInvariant, StepInvariant, PTL DEF TurnSpec

(* The state of an agent and its turn is of its types at every step.       *)
THEOREM AgentTypes == TurnSpec => []TurnTypeOK
<1>1. TurnInv => TurnTypeOK
  BY DEF TurnInv
<1>. QED BY <1>1, Invariance, PTL

(* However providers fail, a turn calls each of them no more often than    *)
(* its retries, the second pass over the agent's own adapter and the       *)
(* iterations of the tool loop multiply out to.                            *)
THEOREM AttemptsAreBounded == TurnSpec => []AttemptsBounded
<1>1. TurnInv => AttemptsBounded
  BY DEF TurnInv
<1>. QED BY <1>1, Invariance, PTL

(* A fallback adapter is called only after the agent's own adapter and all *)
(* fallbacks passed before it have used up their attempts.                 *)
THEOREM FallbacksComeLast == TurnSpec => []FallbackIsLastResort
<1>1. TurnInv => FallbackIsLastResort
  BY DEF TurnInv
<1>. QED BY <1>1, Invariance, PTL

-----------------------------------------------------------------------------
(* A governed run owes its finalisation from its start to its last step.   *)
FinalisationOwed ==
  /\ pc \in {"govern", "finalize"} => Governed
  /\ finalised + (IF pc # "idle" /\ Governed THEN 1 ELSE 0) = governedRuns

(* Every round of the tool loop adds one report, and a turn that asks for  *)
(* a tool at its end has used its last round.                              *)
RoundsReported ==
  /\ Len(conversation) = round
  /\ pc \in {"process", "ask", "parse"} => answer = "none"
  /\ ToolTextOnlyAtLimit

EndInv == FinalisationOwed /\ RoundsReported

LEMMA EndInit == TurnInit => EndInv
<1>. SUFFICES ASSUME TurnInit PROVE EndInv
  OBVIOUS
<1>1. FinalisationOwed
  BY DEF TurnInit, FinalisationOwed
<1>2. RoundsReported
  BY DEF TurnInit, RoundsReported, ToolTextOnlyAtLimit
<1>. QED BY <1>1, <1>2 DEF EndInv

LEMMA EndStep == TurnInv /\ EndInv /\ [TurnNext]_turnvars => EndInv'
<1>. SUFFICES ASSUME TurnInv, EndInv, [TurnNext]_turnvars PROVE EndInv'
  OBVIOUS
<1>0. /\ governedRuns \in Nat /\ finalised \in Nat /\ round \in 0..MaxIterations /\ MaxIterations \in Nat
      /\ conversation \in Seq(Report) /\ agent \in Agent /\ turn \in Turn /\ FinalisationOwed /\ RoundsReported
  BY TurnAssumption DEF TurnInv, TurnTypeOK, EndInv
<1>1. ASSUME NEW e \in {"run", "run_with_fallback"}, NEW n \in 0..MaxFallbacks, StartTurn(e, n)
      PROVE EndInv'
  <2>1. /\ pc = "idle" /\ pc' = "process" /\ agent' = agent /\ finalised' = finalised
        /\ turn'.entry = e /\ governedRuns' = governedRuns + (IF GovernedCall(e) THEN 1 ELSE 0)
        /\ conversation' = <<>> /\ round' = 0 /\ answer' = "none"
    BY <1>1 DEF StartTurn
  <2>2. Governed' = GovernedCall(e)
    BY <2>1 DEF Governed, GovernedCall
  <2>3. FinalisationOwed'
    BY <1>0, <2>1, <2>2 DEF FinalisationOwed
  <2>4. RoundsReported'
    BY <2>1 DEF RoundsReported, ToolTextOnlyAtLimit
  <2>. QED BY <2>3, <2>4 DEF EndInv
<1>2. CASE SwitchProvider
  <2>1. /\ pc = "idle" /\ agent'.tools = agent.tools /\ agent'.governed = agent.governed
        /\ UNCHANGED <<pc, turn, round, conversation, answer, governedRuns, finalised>>
    BY <1>0, <1>2 DEF SwitchProvider, loopVars, Agent
  <2>. QED
    BY <1>0, <2>1 DEF EndInv, FinalisationOwed, RoundsReported, ToolTextOnlyAtLimit, Governed, GovernedCall

(* Within a turn only its end touches what is owed.                        *)
<1>3. ASSUME UNCHANGED <<sessionVars, finalised>>, pc # "idle", pc' # "idle" \/ ~Governed,
             pc' \in {"govern", "finalize"} => Governed
      PROVE FinalisationOwed'
  <2>1. Governed' = Governed /\ UNCHANGED <<governedRuns, finalised>>
    BY <1>3 DEF sessionVars, Governed, GovernedCall
  <2>. QED BY <1>0, <1>3, <2>1 DEF FinalisationOwed
<1>4. ASSUME UNCHANGED <<sessionVars, round, conversation>>,
             pc' \in {"process", "ask", "parse"} => answer' = "none",
             answer' = "call" => answer = "call" \/ ~Looping
      PROVE RoundsReported'
  <2>1. UNCHANGED <<turn, agent, round, conversation>>
    BY <1>4 DEF sessionVars
  <2>2. ToolTextOnlyAtLimit'
    BY <1>0, <1>4, <2>1 DEF RoundsReported, ToolTextOnlyAtLimit, Looping
  <2>. QED BY <1>0, <1>4, <2>1, <2>2 DEF RoundsReported
<1>5. CASE ProcessPrompt
  <2>1. /\ UNCHANGED <<sessionVars, finalised, round, conversation>> /\ pc = "process"
        /\ \/ pc' = "ask" /\ answer' = answer
           \/ answer' = "raised" /\ pc' = IF Governed THEN "finalize" ELSE "idle"
    BY <1>5 DEF ProcessPrompt, RaiseError, loopVars
  <2>2. FinalisationOwed'
    BY <1>3, <2>1
  <2>3. RoundsReported'
    BY <1>0, <1>4, <2>1 DEF RoundsReported
  <2>. QED BY <2>2, <2>3 DEF EndInv
<1>6. CASE GovernStepOutput
  <2>1. /\ UNCHANGED <<sessionVars, finalised, round, conversation, answer>> /\ pc = "govern" /\ pc' = "finalize"
    BY <1>6 DEF GovernStepOutput, loopVars
  <2>2. FinalisationOwed'
    BY <1>0, <1>3, <2>1 DEF FinalisationOwed
  <2>3. RoundsReported'
    BY <1>4, <2>1
  <2>. QED BY <2>2, <2>3 DEF EndInv
<1>7. CASE FinalizeSession
  <2>1. /\ UNCHANGED <<sessionVars, round, conversation, answer>> /\ pc = "finalize" /\ pc' = "idle"
        /\ finalised' = finalised + 1
    BY <1>7 DEF FinalizeSession, loopVars
  <2>2. Governed /\ governedRuns' = governedRuns
    BY <1>0, <2>1 DEF FinalisationOwed, sessionVars
  <2>3. FinalisationOwed'
    BY <1>0, <2>1, <2>2 DEF FinalisationOwed
  <2>4. RoundsReported'
    BY <1>4, <2>1
  <2>. QED BY <2>3, <2>4 DEF EndInv
<1>8. ASSUME NEW t \in Tool \cup {NoTool}, ProviderAnswers(t) PROVE EndInv'
  <2>1. /\ UNCHANGED <<sessionVars, finalised, round, conversation>> /\ pc = "ask"
        /\ \/ Looping /\ pc' = "parse" /\ answer' = answer
           \/ ~Looping /\ answer' \in {"text", "call"} /\ pc' = IF Governed THEN "govern" ELSE "idle"
    BY <1>8 DEF ProviderAnswers, ReturnAnswer
  <2>2. FinalisationOwed'
    BY <1>3, <2>1
  <2>3. answer = "none"
    BY <1>0, <2>1 DEF RoundsReported
  <2>4. pc' \in {"process", "ask", "parse"} => answer' = "none"
    BY <2>1, <2>3
  <2>5. RoundsReported'
    BY <1>4, <2>1, <2>3, <2>4
  <2>. QED BY <2>2, <2>5 DEF EndInv
<1>9. CASE ProviderFails
  <2>1. /\ UNCHANGED <<sessionVars, finalised, round, conversation>> /\ pc = "ask"
        /\ \/ pc' = pc /\ answer' = answer
           \/ answer' = "raised" /\ pc' = IF Governed THEN "finalize" ELSE "idle"
    BY <1>9 DEF ProviderFails, RaiseError, loopVars
  <2>2. FinalisationOwed'
    BY <1>3, <2>1
  <2>3. RoundsReported'
    BY <1>0, <1>4, <2>1 DEF RoundsReported
  <2>. QED BY <2>2, <2>3 DEF EndInv
<1>10. CASE EndWithAnswer
  <2>1. /\ UNCHANGED <<sessionVars, finalised, round, conversation>> /\ pc = "parse"
        /\ answer' = "text" /\ pc' = IF Governed THEN "govern" ELSE "idle"
    BY <1>10 DEF EndWithAnswer, ReturnAnswer, loopVars
  <2>2. FinalisationOwed'
    BY <1>3, <2>1
  <2>3. RoundsReported'
    BY <1>4, <2>1
  <2>. QED BY <2>2, <2>3 DEF EndInv
<1>11. ASSUME NEW report, pc = "parse", NextRound(report) PROVE EndInv'
  <2>1. /\ UNCHANGED <<sessionVars, finalised, answer>> /\ pc' = "ask"
        /\ conversation' = Append(conversation, report) /\ round' = round + 1
    BY <1>11 DEF NextRound
  <2>2. FinalisationOwed'
    BY <1>3, <1>11, <2>1
  <2>3. Len(conversation') = round' /\ answer' = "none"
    BY <1>0, <1>11, <2>1 DEF RoundsReported
  <2>4. RoundsReported'
    BY <2>3 DEF RoundsReported, ToolTextOnlyAtLimit
  <2>. QED BY <2>2, <2>4 DEF EndInv
<1>12. CASE UnknownTool
  BY <1>11, <1>12 DEF UnknownTool
<1>13. CASE CallTool
  BY <1>11, <1>13 DEF CallTool
<1>14. CASE UNCHANGED turnvars
  <2>1. UNCHANGED <<agent, pc, turn, round, conversation, answer, governedRuns, finalised>>
    BY <1>14 DEF turnvars
  <2>. QED
    BY <1>0, <2>1 DEF EndInv, FinalisationOwed, RoundsReported, ToolTextOnlyAtLimit, Governed, GovernedCall
<1>. QED
  BY <1>1, <1>2, <1>5, <1>6, <1>7, <1>8, <1>9, <1>10, <1>12, <1>13, <1>14 DEF TurnNext, TurnStep

LEMMA EndInvariance == TurnSpec => []EndInv
<1>1. TurnInit => TurnInv /\ EndInv
  BY InitInvariant, EndInit
<1>2. TurnInv /\ EndInv /\ [TurnNext]_turnvars => (TurnInv /\ EndInv)'
  BY StepInvariant, EndStep
<1>. QED BY <1>1, <1>2, PTL DEF TurnSpec

(* Between turns every governed run has been finalised once, whether it    *)
(* returned, raised while the prompt was processed or lost its provider in *)
(* the middle of the tool loop.                                            *)
THEOREM SessionsAreFinalised == TurnSpec => []FinalisedOnce
<1>1. TurnTypeOK /\ EndInv => FinalisedOnce
  <2>. SUFFICES ASSUME TurnTypeOK, FinalisationOwed, pc = "idle" PROVE finalised = governedRuns
    BY DEF EndInv, FinalisedOnce
  <2>. QED BY DEF FinalisationOwed, TurnTypeOK
<1>. QED BY <1>1, AgentTypes, EndInvariance, PTL

(* A run with tools returns an unanswered request for a tool only when its *)
(* iterations are spent.                                                   *)
THEOREM RequestsEndAtLimit == TurnSpec => []ToolTextOnlyAtLimit
<1>1. EndInv => ToolTextOnlyAtLimit
  BY DEF EndInv, RoundsReported
<1>. QED BY <1>1, EndInvariance, PTL

(* agent.py: attempts are bounded, and fallbacks are the last resort.      *)
THEOREM ProvidersInTurn == TurnSpec => []ProvidersAskedInTurn
BY AgentTypes, AttemptsAreBounded, FallbacksComeLast, PTL DEF ProvidersAskedInTurn

(* agent_tools.py and adapters/asha_agent.py: runs end with an answer or at *)
(* their limit, and every governed one is finalised once.                  *)
THEOREM TurnsEnd == TurnSpec => []TurnsEndProperly
BY RequestsEndAtLimit, SessionsAreFinalised, PTL DEF TurnsEndProperly

(* Runs of a conversation that has one more report.                        *)
LEMMA RunsAppended ==
  ASSUME NEW c \in Seq(Report), NEW r \in Report
  PROVE  FlattenSeq([i \in DOMAIN Append(c, r) |-> RunOf(Append(c, r)[i])])
           = FlattenSeq([i \in DOMAIN c |-> RunOf(c[i])]) \o RunOf(r)
<1>. DEFINE s == [i \in DOMAIN c |-> RunOf(c[i])]
            t == [i \in DOMAIN Append(c, r) |-> RunOf(Append(c, r)[i])]
<1>1. \A x \in Report : RunOf(x) \in Seq(Report)
  BY DEF RunOf
<1>2. PICK n \in Nat : n = Len(c) /\ DOMAIN c = 1..n
  OBVIOUS
<1>3. /\ DOMAIN Append(c, r) = 1..(n + 1) /\ Append(c, r)[n + 1] = r
      /\ \A i \in 1..n : Append(c, r)[i] = c[i] /\ c[i] \in Report
  BY <1>2
<1>4. s = [i \in 1..n |-> RunOf(c[i])] /\ t = [i \in 1..(n + 1) |-> RunOf(Append(c, r)[i])]
  BY <1>2, <1>3
<1>5. s \in Seq(Seq(Report)) /\ Len(s) = n /\ \A i \in 1..n : s[i] = RunOf(c[i])
  BY <1>1, <1>3, <1>4
<1>6. t \in Seq(Seq(Report)) /\ Len(t) = n + 1 /\ \A i \in 1..(n + 1) : t[i] = IF i = n + 1 THEN RunOf(r) ELSE RunOf(c[i])
  <2>1. \A i \in 1..(n + 1) : RunOf(Append(c, r)[i]) \in Seq(Report)
    BY <1>1, <1>3
  <2>. QED BY <1>3, <1>4, <2>1
<1>. HIDE DEF s, t
<1>7. FlattenSeq(t) = FlattenSeq(s) \o RunOf(r)
  <2>1. /\ RunOf(r) \in Seq(Report) /\ Len(t) = Len(s) + 1 /\ t[Len(t)] = RunOf(r)
        /\ \A i \in 1..Len(s) : t[i] = s[i]
    BY <1>1, <1>5, <1>6
  <2>2. \A p \in Seq(Seq(Report)) : \A q \in Seq(Seq(Report)) : \A x \in Seq(Report) :
          Len(q) = Len(p) + 1 /\ q[Len(q)] = x /\ (\A i \in 1..Len(p) : q[i] = p[i])
            => FlattenSeq(q) = FlattenSeq(p) \o x
    BY FlatOneMore
  <2>. QED BY <1>5, <1>6, <2>1, <2>2
<1>. QED BY <1>7 DEF s, t

(* runtime/agent_tools.py: whatever tools did, raised or were denied, the  *)
(* conversation the model is sent tells in order what ran.                 *)
THEOREM ModelIsToldOfRuns == TurnSpec => []ModelSeesEveryRun
<1>1. TurnInit => ModelSeesEveryRun
  <2>1. ASSUME conversation = <<>> PROVE [i \in DOMAIN conversation |-> RunOf(conversation[i])] = <<>>
    BY <2>1
  <2>. QED BY <2>1, FlatEmpty DEF TurnInit, ModelSeesEveryRun
<1>2. TurnTypeOK /\ ModelSeesEveryRun /\ [TurnNext]_turnvars => ModelSeesEveryRun'
  <2>. SUFFICES ASSUME TurnTypeOK, ModelSeesEveryRun, [TurnNext]_turnvars PROVE ModelSeesEveryRun'
    OBVIOUS
  <2>1. CASE UNCHANGED <<conversation, ran>>
    BY <2>1 DEF ModelSeesEveryRun
  <2>2. ASSUME NEW e \in {"run", "run_with_fallback"}, NEW n \in 0..MaxFallbacks, StartTurn(e, n)
        PROVE  ModelSeesEveryRun'
    <3>1. conversation' = <<>> /\ ran' = <<>>
      BY <2>2 DEF StartTurn
    <3>2. [i \in DOMAIN conversation' |-> RunOf(conversation'[i])] = <<>>
      BY <3>1
    <3>. QED BY <3>1, <3>2, FlatEmpty DEF ModelSeesEveryRun, RunOf
  <2>3. ASSUME NEW r \in Report, conversation' = Append(conversation, r), ran' = ran \o RunOf(r)
        PROVE  ModelSeesEveryRun'
    <3>1. conversation \in Seq(Report)
      BY DEF TurnTypeOK
    <3>2. FlattenSeq([i \in DOMAIN conversation' |-> RunOf(conversation'[i])])
            = FlattenSeq([i \in DOMAIN conversation |-> RunOf(conversation[i])]) \o RunOf(r)
      BY <2>3, <3>1, RunsAppended
    <3>. QED BY <2>3, <3>2 DEF ModelSeesEveryRun, RunOf
  <2>4. CASE UnknownTool
    <3>. DEFINE r == [tool |-> response, outcome |-> "unknown"]
    <3>1. r \in Report /\ conversation' = Append(conversation, r) /\ ran' = ran /\ RunOf(r) = <<>>
      BY <2>4 DEF UnknownTool, NextRound, Report, RunOf
    <3>2. ran \o <<>> = ran
      BY DEF TurnTypeOK
    <3>. QED BY <2>3, <3>1, <3>2
  <2>5. CASE CallTool
    <3>1. PICK outcome \in Outcomes :
            LET r == [tool |-> response, outcome |-> outcome]
            IN  /\ ran' = IF outcome = "denied" THEN ran ELSE Append(ran, r)
                /\ conversation' = Append(conversation, r)
      BY <2>5 DEF CallTool, NextRound
    <3>. DEFINE r == [tool |-> response, outcome |-> outcome]
    <3>2. outcome \in {"value", "raised", "denied"} /\ response \in Tool
      BY <2>5 DEF CallTool, Outcomes, TurnTypeOK, Agent
    <3>3. r \in Report /\ RunOf(r) = IF outcome = "denied" THEN <<>> ELSE <<r>>
      BY <3>2 DEF Report, RunOf
    <3>4. conversation' = Append(conversation, r) /\ ran' = IF outcome = "denied" THEN ran ELSE Append(ran, r)
      BY <3>1
    <3>. HIDE DEF r
    <3>5. ran \in Seq(Report)
      BY DEF TurnTypeOK
    <3>6. ran \o <<>> = ran /\ ran \o <<r>> = Append(ran, r)
      BY <3>3, <3>5
    <3>7. ran' = ran \o RunOf(r)
      BY <3>3, <3>4, <3>6
    <3>. QED BY <2>3, <3>3, <3>4, <3>7
  <2>6. ASSUME TurnStep, ~UnknownTool, ~CallTool PROVE UNCHANGED <<conversation, ran>>
    BY <2>6 DEF TurnStep, ProcessPrompt, GovernStepOutput, FinalizeSession, ProviderAnswers, ProviderFails,
                EndWithAnswer, loopVars
  <2>7. CASE SwitchProvider
    BY <2>7, <2>1 DEF SwitchProvider, loopVars
  <2>8. CASE UNCHANGED turnvars
    BY <2>8, <2>1 DEF turnvars
  <2>. QED BY <2>1, <2>2, <2>4, <2>5, <2>6, <2>7, <2>8 DEF TurnNext
<1>. QED BY <1>1, <1>2, AgentTypes, PTL DEF TurnSpec
=============================================================================
