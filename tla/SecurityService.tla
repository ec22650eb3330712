-------------------------- MODULE SecurityService --------------------------
(***************************************************************************)
(* run_security of core/security/service.py, called by several threads,    *)
(* and the two helpers of utils/dropin_privacy.py that call it for a       *)
(* caller: privacy_fallback and finalize_privacy_output.  The threads      *)
(* share the injection detector, a process-wide object that is replaced    *)
(* when a call wants another mode.                                         *)
(***************************************************************************)
EXTENDS SecurityRules

CONSTANTS Threads,
          Asks,       \* [Threads -> set of requests a thread may make]
          Scores,       \* bound: pairs of probabilities the models may give
          MlScores      \* bound: scores the optional toxicity model may give

(* Users write readable text; probabilities are in 1/10000.                *)
Readable(T) == Len(T) \in Nat /\ T = [i \in 1..Len(T) |-> Cell(T[i].v[1])]
ASSUME AsksAssumption == \A t \in Threads : \A r \in Asks[t] : Readable(r.text)
ASSUME ScoresAssumption == Scores \subseteq (0..One) \X (0..One)

Modes == {"lite", "regex_only", "ensemble"}

VARIABLES detector,  \* the mode of the shared injection detector, or "none"
          hardened,  \* the hardened models can be loaded
          pc, req, work, reply,
          crossed    \* threads whose call overlapped another one's

secvars == <<detector, hardened, pc, req, work, reply, crossed>>

NoRequest == [text |-> <<>>, pii |-> TRUE, inj |-> TRUE, mode |-> "unset",
              pii_mode |-> "lite", blocking |-> TRUE, reversible |-> FALSE,
              caller |-> "direct"]
NoCall == [text |-> <<>>, map |-> <<>>, hybrid |-> FALSE, mode |-> "none",
           used |-> "none", found |-> {}, base |-> {}, judged |-> FALSE]
NoOut == [kind |-> "none", text |-> <<>>, safe |-> TRUE, level |-> "LOW",
          threats |-> {}, map |-> <<>>]

SecInit ==
  /\ detector = "none" /\ hardened \in BOOLEAN
  /\ pc = [t \in Threads |-> "idle"]
  /\ req = [t \in Threads |-> NoRequest]
  /\ work = [t \in Threads |-> NoCall]
  /\ reply = [t \in Threads |-> NoOut]
  /\ crossed = {}

Idle(t) == pc[t] = "idle"
Inside(t) == pc[t] \notin {"idle", "done"}
Goto(t, l) == pc' = [pc EXCEPT ![t] = l]
Shared == UNCHANGED <<detector, hardened, crossed>>

Answer(t, kind, r) ==
  /\ Goto(t, "done")
  /\ reply' = [reply EXCEPT ![t] = [kind |-> kind, text |-> r.text, safe |-> r.safe,
                level |-> r.level, threats |-> r.threats, map |-> r.map]]
Plain(T) == [text |-> T, safe |-> TRUE, level |-> "LOW", threats |-> {}, map |-> <<>>]

(* An exception: privacy_fallback catches it, the other callers do not.    *)
Placeholder == <<Marked("blocked")>>
OnError(r) ==
  CASE r.caller = "fail_closed" -> [kind |-> "answer", text |-> Placeholder]
    [] r.caller = "fail_open"   -> [kind |-> "answer", text |-> r.text]
    [] OTHER                    -> [kind |-> "raised", text |-> <<>>]
RaiseError(t) == LET e == OnError(req[t]) IN Answer(t, e.kind, Plain(e.text))
-----------------------------------------------------------------------------
Call(t) ==
  /\ Idle(t)
  /\ \E r \in Asks[t] :
       /\ req' = [req EXCEPT ![t] = r]
       /\ IF \/ ~r.pii /\ ~r.inj
             \/ r.caller = "finalize" /\ ~NeedsScrub(r.text)
          THEN Answer(t, "answer", Plain(r.text))
          ELSE Goto(t, "resolve") /\ UNCHANGED reply
  /\ crossed' = IF \E u \in Threads \ {t} : Inside(u)
                THEN crossed \cup {t} \cup {u \in Threads : Inside(u)}
                ELSE crossed
  /\ UNCHANGED <<detector, hardened, work>>

(* resolve_injection_mode: explicit, or the best that is available.        *)
ResolvedMode(wanted) ==
  IF wanted = "unset" THEN (IF hardened THEN "ensemble" ELSE "lite") ELSE wanted
Resolve(t) ==
  /\ pc[t] = "resolve"
  /\ LET m == ResolvedMode(req[t].mode) IN
     IF m \notin Modes
     THEN RaiseError(t) /\ UNCHANGED work
     ELSE /\ Goto(t, "mask") /\ UNCHANGED reply
          /\ work' = [work EXCEPT ![t].mode = m]
  /\ Shared /\ UNCHANGED req

(* The hybrid detector masks first; without it, the layer masks itself.    *)
MaskWithHybrid(t) ==
  /\ pc[t] = "mask" /\ req[t].pii /\ req[t].pii_mode # "lite"
  /\ \E h \in HybridOutcomes(req[t].text) :
       work' = [work EXCEPT ![t].text = h.text, ![t].hybrid = TRUE,
                  ![t].map = IF req[t].reversible THEN h.map ELSE <<>>]
  /\ Goto(t, "check") /\ Shared /\ UNCHANGED <<req, reply>>
LeaveToLayer(t) ==          \* lite, no PII step, or the import failed
  /\ pc[t] = "mask"
  /\ work' = [work EXCEPT ![t].text = req[t].text]
  /\ Goto(t, "check") /\ Shared /\ UNCHANGED <<req, reply>>

(* get_injection_detector: the test is made outside the lock, and what is  *)
(* returned is read from the global afterwards.                            *)
KeepAnyDetector(wanted) == detector = "none"
MustReplace(wanted) == detector = "none" \/ detector # wanted
CheckDetector(t) ==
  /\ pc[t] = "check"
  /\ Goto(t, IF MustReplace(work[t].mode) THEN "create" ELSE "return")
  /\ Shared /\ UNCHANGED <<req, work, reply>>
CreateDetector(t) ==
  /\ pc[t] = "create" /\ detector' = work[t].mode
  /\ Goto(t, "return") /\ UNCHANGED <<hardened, crossed, req, work, reply>>
ReturnDetector(t) ==
  /\ pc[t] = "return"
  /\ work' = [work EXCEPT ![t].used = detector]
  /\ Goto(t, "detect") /\ Shared /\ UNCHANGED <<req, reply>>

Detect(t) ==
  /\ pc[t] = "detect"
  /\ IF work[t].used = "ensemble" /\ ~hardened
     THEN RaiseError(t) /\ UNCHANGED work      \* its encoder cannot be imported
     ELSE /\ \E s \in Scores :
               work' = [work EXCEPT ![t].found =
                          {InjectionDetect(work[t].used, work[t].text, s)}]
          /\ Goto(t, "score") /\ UNCHANGED reply
  /\ Shared /\ UNCHANGED req

HybridTextKept(r, c) ==
  LET b == Layer(c.text, r.pii /\ ~c.hybrid, c.mode,
                 CHOOSE f \in c.found : TRUE, r.reversible)
  IN  IF c.hybrid THEN [b EXCEPT !.map = c.map, !.text = c.text] ELSE b
LayerResult(r, c) ==
  LET b == Layer(c.text, r.pii /\ ~c.hybrid, c.mode,
                 CHOOSE f \in c.found : TRUE, r.reversible)
  IN  IF c.hybrid THEN [b EXCEPT !.map = c.map] ELSE b
ScoreLayer(t) ==
  /\ pc[t] = "score"
  /\ work' = [work EXCEPT ![t].base = {LayerResult(req[t], work[t])}]
  /\ Goto(t, "classify") /\ Shared /\ UNCHANGED <<req, reply>>
Base(t) == CHOOSE b \in work[t].base : TRUE

(* _apply_safety_classifier, the block, and _merge_with_safety.            *)
ReturnUnjudged(t) ==        \* injection checks off, or the classifier raised
  /\ pc[t] = "classify"
  /\ Answer(t, "answer", Base(t)) /\ Shared /\ UNCHANGED <<req, work>>
Blocks(r, safety) == safety.level # "SAFE" /\ r.blocking
Judge(t) ==
  /\ pc[t] = "classify" /\ req[t].inj
  /\ \E ml \in MlScores :
       LET safety == Classify(Base(t).text, ml) IN
       IF Blocks(req[t], safety) THEN RaiseError(t)
       ELSE Answer(t, "answer", Merge(Base(t), safety))
  /\ work' = [work EXCEPT ![t].judged = TRUE]
  /\ Shared /\ UNCHANGED req

HardenedLoads ==            \* "MiniLM may load later in-session"
  /\ ~hardened /\ hardened' = TRUE
  /\ UNCHANGED <<detector, pc, req, work, reply, crossed>>

SecNext ==
  \/ HardenedLoads
  \/ \E t \in Threads :
       \/ Call(t) \/ Resolve(t) \/ MaskWithHybrid(t) \/ LeaveToLayer(t)
       \/ CheckDetector(t) \/ CreateDetector(t) \/ ReturnDetector(t)
       \/ Detect(t) \/ ScoreLayer(t) \/ ReturnUnjudged(t) \/ Judge(t)
SecSpec == SecInit /\ [][SecNext]_secvars
-----------------------------------------------------------------------------
SecTypeOK ==
  /\ detector \in Modes \cup {"none"} /\ hardened \in BOOLEAN
  /\ \A t \in Threads :
       /\ req[t] \in Asks[t] \cup {NoRequest}
       /\ work[t].mode \in Modes \cup {"none"}
       /\ reply[t].kind \in {"none", "answer", "raised"}
       /\ reply[t].level \in {"LOW", "MEDIUM", "HIGH", "CRITICAL"}
  /\ crossed \subseteq Threads

Answered(t) == reply[t].kind = "answer" /\ req[t].caller # "fail_open"
Secured(t) == Answered(t) /\ work[t].base # {}
Layered(t) == Secured(t) /\ req[t].pii /\ ~work[t].hybrid /\ reply[t].text # Placeholder

(* A call that no other call overlapped is judged by a detector of the     *)
(* mode it resolved, whatever mode earlier calls left in the singleton.    *)
AloneUsesOwnMode ==
  \A t \in Threads :
    work[t].used # "none" /\ t \notin crossed => work[t].used = work[t].mode

(* On every path, the hybrid one included, what a caller gets back has the  *)
(* phrases replaced that _neutralize_dangerous_content knows.  The banks of *)
(* the detectors hold others, which are judged and not replaced.            *)
NeutralizedOnEveryPath ==
  \A t \in Threads : Secured(t) => Said(reply[t].text) \cap Neutralized = {}

(* The rule-based path masks a value wherever it stands, also inside       *)
(* another value and at places the detector did not report.                *)
EveryOccurrenceMasked ==
  \A t \in Threads : Layered(t) =>
    \A e \in Range(PiiMatches(req[t].text)) :
      \A i \in DOMAIN reply[t].text : ~HoldsAt(reply[t].text, i, e.value)

(* With reversible masking the map of the rule-based path gives back the   *)
(* text it was given, but for the phrases that were neutralised.           *)
MapRestores ==
  \A t \in Threads : Layered(t) /\ req[t].reversible =>
    PutBack(reply[t].text, reply[t].map) = Neutralize(req[t].text)

(* An uncertain verdict alone (REVIEW, no pattern, below the blocking      *)
(* band) adds no threat: harmless text comes back as it went in, and safe. *)
Harmless == {"word", "guide", "now", "jim", "cardword"}
NoFalseAlarm ==
  \A t \in Threads :
    /\ Secured(t) /\ Said(req[t].text) \subseteq Harmless /\ ~work[t].judged
    /\ \A f \in work[t].found : f.p < Times(Bands(work[t].used).block_min, Percent(94))
    => reply[t].text = req[t].text /\ reply[t].safe /\ reply[t].threats = {}

(* When the classifier cannot answer, the layer's own verdict stands: a    *)
(* phrase of its banks is then never reported safe.                        *)
LayerVerdictStands ==
  \A t \in Threads :
    Secured(t) /\ ~work[t].judged /\ Said(work[t].text) \cap LitePhrases # {}
    /\ work[t].used = "lite" => ~reply[t].safe

(* A caller that asked to fail closed never gets a text back when the call *)
(* was blocked or failed: it gets the placeholder.                         *)
FailClosedHides ==
  \A t \in Threads :
    /\ reply[t].kind = "answer" /\ req[t].caller = "fail_closed"
    /\ \/ work[t].base = {} /\ (req[t].pii \/ req[t].inj)
       \/ /\ work[t].judged /\ req[t].blocking
          /\ SafetyThreats(Base(t).text) # {}
    => reply[t].text = Placeholder

(* The rule-based path masks all of what it looks for, and reversibly.     *)
LayerMaskingIsExact == EveryOccurrenceMasked /\ MapRestores

(* What a caller gets back fits what was judged: no phrase the layer        *)
(* replaces is left in it, no alarm is raised without a reason nor a phrase *)
(* of the banks called safe because a model failed, and no text is given    *)
(* where the caller wants none.                                             *)
AnswersFitVerdicts ==
  SecTypeOK /\ NeutralizedOnEveryPath /\ NoFalseAlarm /\ LayerVerdictStands /\ FailClosedHides
=============================================================================
