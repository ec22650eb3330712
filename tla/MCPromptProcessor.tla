-------------------------- MODULE MCPromptProcessor --------------------------
(* Instances of PromptProcessor for TLC: every mode and profile on prompts *)
(* of every kind, with and without retries, a deadline, and a              *)
(* PII pipeline that may fail.                                             *)
EXTENDS PromptProcessor

Prompts == {t \in Text : t.unsafe => t.copies <= 1 /\ ~t.named}
Detecting == {<<"lite", FALSE>>, <<"hybrid", FALSE>>, <<"hybrid", TRUE>>}
Secured(api, modes, profiles, preserve, timed, retries) ==
  UNION {[ api : {api}, mode : modes, profile : profiles, pii : {d[1]}, flaky : {d[2]}, preserve : preserve,
           timed : timed, retries : retries, empty : {FALSE}, prompt : Prompts ] : d \in Detecting}

CallsOf(timed, retries) ==
  Secured("process", {"strict", "balanced", "lite"}, {"standard"}, BOOLEAN, timed, retries)
  \cup Secured("process", {"strict", "balanced"}, {"security_only"}, {FALSE}, timed, retries)
  \cup Secured("sanitize", {"strict", "balanced"}, {"security_only"}, {FALSE}, timed, retries)
  \cup
  [ api : {"process"}, mode : {"strict", "balanced", "off"}, profile : {"optimize_only", "passthrough"},
    pii : {"hybrid"}, flaky : {FALSE}, preserve : BOOLEAN, timed : timed, retries : retries,
    empty : {FALSE}, prompt : {t \in Text : t.copies = 1 /\ ~t.unsafe} ]
  \cup
  [ api : {"process"}, mode : {"strict", "balanced"}, profile : {"standard"}, pii : {"hybrid"}, flaky : {FALSE},
    preserve : {FALSE}, timed : timed, retries : retries, empty : {TRUE}, prompt : {NoText} ]

AllCalls == CallsOf(BOOLEAN, {0, MaxRetries})
=============================================================================
