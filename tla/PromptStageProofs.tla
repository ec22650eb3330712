-------------------------- MODULE PromptStageProofs --------------------------
(* Theorems of the two stages a prompt passes on its way to a model:       *)
(* SecurityService, for any threads, requests and scores, and              *)
(* OptimizerEngine, for any prompts of any length.                         *)
EXTENDS SecurityService, OptimizerEngine, DataLemmas

-----------------------------------------------------------------------------
(* SecurityService                                                         *)

(* What the steps rewrite are records of all threads.                      *)
WorkFields == {"text", "map", "hybrid", "mode", "used", "found", "base", "judged"}
ReplyFields == {"kind", "text", "safe", "level", "threats", "map"}
SecShape ==
  /\ DOMAIN pc = Threads /\ DOMAIN req = Threads /\ DOMAIN work = Threads /\ DOMAIN reply = Threads
  /\ \A t \in Threads : DOMAIN work[t] = WorkFields

(* Two calls that are inside at a time have crossed.                       *)
OverlapIsSeen ==
  \A t, u \in Threads : t # u /\ Inside(t) /\ Inside(u) => t \in crossed

(* Before the detector is returned nothing is used, and what a call that   *)
(* nobody overlapped is about to be returned is of its own mode.           *)
OwnDetector ==
  \A t \in Threads :
    /\ pc[t] \in {"idle", "resolve"} => work[t].used = "none"
    /\ pc[t] = "return" /\ t \notin crossed => detector = work[t].mode

ModeInv == SecShape /\ OverlapIsSeen /\ OwnDetector /\ AloneUsesOwnMode

LEMMA ModeInit == SecInit => ModeInv
BY DEF SecInit, ModeInv, SecShape, WorkFields, OverlapIsSeen, OwnDetector, AloneUsesOwnMode, Inside, NoCall

(* A step of a thread that is inside and stays there, or leaves.           *)
LEMMA OverlapStep ==
  ASSUME SecShape, OverlapIsSeen, NEW t \in Threads, Inside(t), crossed' = crossed,
         NEW l, pc' = [pc EXCEPT ![t] = l]
  PROVE  OverlapIsSeen'
BY DEF SecShape, OverlapIsSeen, Inside

LEMMA ModeCall ==
  ASSUME ModeInv, NEW t \in Threads, Call(t)
  PROVE  ModeInv'
<1>. USE DEF ModeInv
<1>1. pc[t] = "idle" /\ detector' = detector /\ work' = work
  BY DEF Call, Idle
<1>2. PICK r \in Asks[t] :
        /\ req' = [req EXCEPT ![t] = r]
        /\ \/ pc' = [pc EXCEPT ![t] = "done"] /\ \E x : reply' = [reply EXCEPT ![t] = x]
           \/ pc' = [pc EXCEPT ![t] = "resolve"] /\ reply' = reply
  BY DEF Call, Answer, Goto
<1>3. crossed' = IF \E u \in Threads \ {t} : Inside(u)
                 THEN crossed \cup {t} \cup {u \in Threads : Inside(u)}
                 ELSE crossed
  BY DEF Call
<1>4. SecShape'
  BY <1>1, <1>2 DEF SecShape
<1>5. \A u \in Threads : u # t => pc'[u] = pc[u]
  BY <1>2 DEF SecShape
<1>6. OverlapIsSeen'
  BY <1>3, <1>5 DEF OverlapIsSeen, Inside
<1>7. crossed \subseteq crossed' /\ pc'[t] \in {"done", "resolve"}
  BY <1>2, <1>3 DEF SecShape
<1>8. OwnDetector'
  BY <1>1, <1>5, <1>7 DEF OwnDetector
<1>9. AloneUsesOwnMode'
  BY <1>1, <1>7 DEF AloneUsesOwnMode
<1>. QED BY <1>4, <1>6, <1>8, <1>9

LEMMA ModeResolve ==
  ASSUME ModeInv, NEW t \in Threads, Resolve(t)
  PROVE  ModeInv'
<1>. USE DEF ModeInv
<1>1. pc[t] = "resolve" /\ detector' = detector /\ crossed' = crossed /\ req' = req
  BY DEF Resolve, Shared
<1>2. CASE work' = work /\ pc' = [pc EXCEPT ![t] = "done"] /\ \E x : reply' = [reply EXCEPT ![t] = x]
  <2>1. SecShape'
    BY <1>1, <1>2 DEF SecShape
  <2>2. OverlapIsSeen'
    BY <1>1, <1>2, OverlapStep DEF Inside
  <2>3. OwnDetector' /\ AloneUsesOwnMode'
    BY <1>1, <1>2 DEF OwnDetector, AloneUsesOwnMode, SecShape
  <2>. QED BY <2>1, <2>2, <2>3
<1>3. ASSUME NEW m, work' = [work EXCEPT ![t].mode = m], pc' = [pc EXCEPT ![t] = "mask"], reply' = reply
      PROVE  ModeInv'
  <2>1. /\ DOMAIN work' = Threads /\ DOMAIN work'[t] = WorkFields
        /\ work'[t].used = "none" /\ \A u \in Threads : u # t => work'[u] = work[u]
    BY <1>1, <1>3 DEF SecShape, WorkFields, OwnDetector
  <2>2. SecShape'
    BY <1>1, <1>3, <2>1 DEF SecShape
  <2>3. OverlapIsSeen'
    BY <1>1, <1>3, OverlapStep DEF Inside
  <2>4. OwnDetector' /\ AloneUsesOwnMode'
    BY <1>1, <1>3, <2>1 DEF OwnDetector, AloneUsesOwnMode, SecShape
  <2>. QED BY <2>2, <2>3, <2>4
<1>. QED BY <1>2, <1>3 DEF Resolve, RaiseError, Answer, Goto

(* Steps that write neither the mode nor the detector that is used.        *)
LEMMA ModeKept ==
  ASSUME ModeInv, NEW t \in Threads, NEW l, Inside(t),
         l \notin {"idle", "resolve", "return"},
         UNCHANGED <<detector, crossed, req>>, pc' = [pc EXCEPT ![t] = l],
         DOMAIN reply' = Threads, DOMAIN work' = Threads, DOMAIN work'[t] = WorkFields,
         work'[t].mode = work[t].mode, work'[t].used = work[t].used,
         \A u \in Threads : u # t => work'[u] = work[u]
  PROVE  ModeInv'
<1>. USE DEF ModeInv
<1>1. SecShape'
  BY DEF SecShape
<1>2. OverlapIsSeen'
  BY OverlapStep
<1>3. OwnDetector' /\ AloneUsesOwnMode'
  BY DEF OwnDetector, AloneUsesOwnMode, SecShape
<1>. QED BY <1>1, <1>2, <1>3

LEMMA ModeStep == ModeInv /\ [SecNext]_secvars => ModeInv'
<1>. SUFFICES ASSUME ModeInv, [SecNext]_secvars PROVE ModeInv'
  OBVIOUS
<1>1. CASE HardenedLoads
  BY <1>1 DEF HardenedLoads, ModeInv, SecShape, OverlapIsSeen, OwnDetector, AloneUsesOwnMode, Inside
<1>2. ASSUME NEW t \in Threads, MaskWithHybrid(t) \/ LeaveToLayer(t) PROVE ModeInv'
  <2>1. /\ pc[t] = "mask" /\ pc' = [pc EXCEPT ![t] = "check"]
        /\ UNCHANGED <<detector, crossed, req, reply>>
    BY <1>2 DEF MaskWithHybrid, LeaveToLayer, Goto, Shared
  <2>2. /\ DOMAIN work' = Threads /\ DOMAIN work'[t] = WorkFields
        /\ work'[t].mode = work[t].mode /\ work'[t].used = work[t].used
        /\ \A u \in Threads : u # t => work'[u] = work[u]
    <3>1. CASE MaskWithHybrid(t)
      <4>1. PICK x, m : work' = [work EXCEPT ![t].text = x, ![t].hybrid = TRUE, ![t].map = m]
        BY <3>1 DEF MaskWithHybrid
      <4>. QED BY <4>1 DEF ModeInv, SecShape, WorkFields
    <3>2. CASE LeaveToLayer(t)
      BY <3>2 DEF LeaveToLayer, ModeInv, SecShape, WorkFields
    <3>. QED BY <1>2, <3>1, <3>2
  <2>3. Inside(t) /\ DOMAIN reply' = Threads
    BY <2>1 DEF Inside, ModeInv, SecShape
  <2>. QED BY <2>1, <2>2, <2>3, ModeKept
<1>3. ASSUME NEW t \in Threads, CheckDetector(t) PROVE ModeInv'
  <2>1. /\ pc[t] = "check" /\ UNCHANGED <<detector, crossed, req, work, reply>>
        /\ \/ pc' = [pc EXCEPT ![t] = "create"]
           \/ pc' = [pc EXCEPT ![t] = "return"] /\ detector = work[t].mode
    BY <1>3 DEF CheckDetector, Goto, Shared, MustReplace
  <2>2. SecShape'
    BY <2>1 DEF ModeInv, SecShape
  <2>3. OverlapIsSeen'
    BY <2>1, OverlapStep DEF ModeInv, Inside
  <2>4. OwnDetector' /\ AloneUsesOwnMode'
    BY <2>1 DEF ModeInv, OwnDetector, AloneUsesOwnMode, SecShape
  <2>. QED BY <2>2, <2>3, <2>4 DEF ModeInv
<1>4. ASSUME NEW t \in Threads, CreateDetector(t) PROVE ModeInv'
  <2>1. /\ pc[t] = "create" /\ UNCHANGED <<crossed, req, work, reply>>
        /\ pc' = [pc EXCEPT ![t] = "return"] /\ detector' = work[t].mode
    BY <1>4 DEF CreateDetector, Goto
  <2>2. SecShape'
    BY <2>1 DEF ModeInv, SecShape
  <2>3. OverlapIsSeen'
    BY <2>1, OverlapStep DEF ModeInv, Inside
  <2>4. \A u \in Threads : u # t /\ pc[u] = "return" => u \in crossed
    BY <2>1 DEF ModeInv, OverlapIsSeen, Inside
  <2>5. OwnDetector' /\ AloneUsesOwnMode'
    BY <2>1, <2>4 DEF ModeInv, OwnDetector, AloneUsesOwnMode, SecShape
  <2>. QED BY <2>2, <2>3, <2>5 DEF ModeInv
<1>5. ASSUME NEW t \in Threads, ReturnDetector(t) PROVE ModeInv'
  <2>1. /\ pc[t] = "return" /\ UNCHANGED <<detector, crossed, req, reply>>
        /\ pc' = [pc EXCEPT ![t] = "detect"] /\ work' = [work EXCEPT ![t].used = detector]
    BY <1>5 DEF ReturnDetector, Goto, Shared
  <2>2. /\ DOMAIN work' = Threads /\ DOMAIN work'[t] = WorkFields
        /\ work'[t].used = detector /\ work'[t].mode = work[t].mode
        /\ \A u \in Threads : u # t => work'[u] = work[u]
    BY <2>1 DEF ModeInv, SecShape, WorkFields
  <2>3. SecShape'
    BY <2>1, <2>2 DEF ModeInv, SecShape
  <2>4. OverlapIsSeen'
    BY <2>1, OverlapStep DEF ModeInv, Inside
  <2>5. OwnDetector' /\ AloneUsesOwnMode'
    BY <2>1, <2>2 DEF ModeInv, OwnDetector, AloneUsesOwnMode, SecShape
  <2>. QED BY <2>3, <2>4, <2>5 DEF ModeInv
<1>6. ASSUME NEW t \in Threads, Detect(t) \/ ScoreLayer(t) \/ ReturnUnjudged(t) \/ Judge(t) PROVE ModeInv'
  <2>1. /\ Inside(t) /\ UNCHANGED <<detector, crossed, req>>
        /\ \E l \in {"score", "classify", "done"} : pc' = [pc EXCEPT ![t] = l]
        /\ reply' = reply \/ \E x : reply' = [reply EXCEPT ![t] = x]
    BY <1>6 DEF Detect, ScoreLayer, ReturnUnjudged, Judge, RaiseError, Answer, Goto, Shared, Inside
  <2>2. \/ work' = work \/ (\E x : work' = [work EXCEPT ![t].found = x])
        \/ (\E x : work' = [work EXCEPT ![t].base = x]) \/ work' = [work EXCEPT ![t].judged = TRUE]
    BY <1>6 DEF Detect, ScoreLayer, ReturnUnjudged, Judge
  <2>3. /\ DOMAIN work' = Threads /\ DOMAIN work'[t] = WorkFields
        /\ work'[t].mode = work[t].mode /\ work'[t].used = work[t].used
        /\ \A u \in Threads : u # t => work'[u] = work[u]
    BY <2>2 DEF ModeInv, SecShape, WorkFields
  <2>4. DOMAIN reply' = Threads
    BY <2>1 DEF ModeInv, SecShape
  <2>. QED BY <2>1, <2>3, <2>4, ModeKept
<1>7. CASE UNCHANGED secvars
  BY <1>7 DEF secvars, ModeInv, SecShape, OverlapIsSeen, OwnDetector, AloneUsesOwnMode, Inside
<1>. QED BY <1>1, <1>2, <1>3, <1>4, <1>5, <1>6, <1>7, ModeCall, ModeResolve DEF SecNext

(* Whatever the threads ask for and however their steps mix, a call that   *)
(* no other overlapped is judged by a detector of its own mode.            *)
THEOREM OwnModeAlone == SecSpec => []AloneUsesOwnMode
<1>1. ModeInv => AloneUsesOwnMode
  BY DEF ModeInv
<1>. QED BY <1>1, ModeInit, ModeStep, PTL DEF SecSpec

-----------------------------------------------------------------------------
(* Where the detector's answer and the layer's result come from, and what  *)
(* a call returns, of one thread: a step is another thread's stutter.      *)
Detected(t) ==
  \E s \in Scores : work[t].found = {InjectionDetect(work[t].used, work[t].text, s)}
Level == {"LOW", "MEDIUM", "HIGH", "CRITICAL"}

(* A caller that fails closed and was blocked or failed.                   *)
MustHide(t) ==
  /\ reply[t].kind = "answer" /\ req[t].caller = "fail_closed"
  /\ \/ work[t].base = {} /\ (req[t].pii \/ req[t].inj)
     \/ work[t].judged /\ req[t].blocking /\ SafetyThreats(Base(t).text) # {}

CallInv(t) ==
  /\ DOMAIN work[t] = WorkFields /\ DOMAIN reply[t] = ReplyFields
  /\ req[t] \in Asks[t] \cup {NoRequest}
  /\ work[t].mode \in Modes \cup {"none"}
  /\ reply[t].kind \in {"none", "answer", "raised"} /\ reply[t].level \in Level
  /\ pc[t] # "done" => reply[t].kind = "none" /\ work[t].judged = FALSE
  /\ pc[t] \notin {"classify", "done"} => work[t].base = {}
  /\ pc[t] \in {"mask", "check", "create", "return"} => work[t].mode \in Modes
  /\ pc[t] \in {"score", "classify"} => Detected(t)
  /\ pc[t] = "classify" => work[t].base # {}
  /\ work[t].base # {} => Detected(t) /\ work[t].base = {LayerResult(req[t], work[t])}
  /\ pc[t] = "done" /\ work[t].base # {} /\ ~work[t].judged => reply[t].safe = Base(t).safe
  /\ MustHide(t) => reply[t].text = Placeholder

VerdictInv ==
  /\ SecShape /\ crossed \subseteq Threads
  /\ detector \in Modes \cup {"none"} /\ hardened \in BOOLEAN
  /\ \A t \in Threads : CallInv(t)

(* A text with a threat in it is never judged safe.                        *)
LEMMA ThreatsAreUnsafe ==
  ASSUME NEW threats, threats # {}, NEW ml
  PROVE  SafetyLevel(threats, ml) # "SAFE"
BY DEF SafetyLevel

(* The lite detector never calls a text SAFE that has a phrase of its bank,*)
(* and says why.                                                           *)
LEMMA LiteFindsPhrases ==
  ASSUME NEW T, NEW s, Said(T) \cap LitePhrases # {}
  PROVE  /\ LiteDetect(T, s).hit = TRUE
         /\ LiteDetect(T, s).verdict \in {"BLOCK", "REVIEW"}
<1>. DEFINE fused == NoisyOr(Percent(85), AtMost(Percent(45), s[1]), s[2])
            p == Higher(fused, Bands("lite").block_min)
<1>1. LiteDetect(T, s) = [verdict |-> Bucket(p, Bands("lite")), p |-> p, hit |-> TRUE]
  BY DEF LiteDetect
<1>2. Bands("lite").block_min = 9956
  BY DEF Bands
<1>3. Bucket(p, Bands("lite")) \in {"BLOCK", "REVIEW"}
  <2>. HIDE DEF fused
  <2>1. CASE p < 0 \/ p > One
    BY <2>1 DEF Bucket
  <2>2. CASE ~(p < 0 \/ p > One)
    <3>1. p >= Bands("lite").block_min
      BY <1>2 DEF Higher
    <3>. QED BY <3>1, <2>2 DEF Bucket
  <2>. QED BY <2>1, <2>2
<1>. QED BY <1>1, <1>3

LEMMA LayerIsTyped ==
  ASSUME NEW T, NEW m, NEW mode, NEW f, NEW rev
  PROVE  /\ DOMAIN Layer(T, m, mode, f, rev) = {"safe", "level", "threats", "text", "map"}
         /\ Layer(T, m, mode, f, rev).level \in {"LOW", "MEDIUM", "HIGH", "CRITICAL"}
         /\ (f.verdict = "BLOCK" \/ (f.verdict = "REVIEW" /\ f.hit = TRUE)) => Layer(T, m, mode, f, rev).safe = FALSE
<1>1. \A x : ThreatLevel(x) \in {"LOW", "MEDIUM", "HIGH", "CRITICAL"}
  BY DEF ThreatLevel
<1>2. ASSUME f.verdict = "BLOCK" \/ (f.verdict = "REVIEW" /\ f.hit = TRUE)
      PROVE  "injection" \in InjectionThreats(mode, f, T)
  BY <1>2 DEF InjectionThreats, Escalates
<1>3. \A l, th : "injection" \in th => ContentSafe(l, th) = FALSE
  BY DEF ContentSafe
<1>. QED BY <1>1, <1>2, <1>3, Zenon DEF Layer

LEMMA ResultIsTyped ==
  ASSUME NEW r, NEW c
  PROVE  /\ DOMAIN LayerResult(r, c) = {"safe", "level", "threats", "text", "map"}
         /\ LayerResult(r, c).level \in {"LOW", "MEDIUM", "HIGH", "CRITICAL"}
         /\ LET f == CHOOSE f \in c.found : TRUE IN
              (f.verdict = "BLOCK" \/ (f.verdict = "REVIEW" /\ f.hit = TRUE)) => LayerResult(r, c).safe = FALSE
<1>. DEFINE f == CHOOSE x \in c.found : TRUE
            b == Layer(c.text, r.pii /\ ~c.hybrid, c.mode, f, r.reversible)
<1>1. PICK T, m, mode, rev : T = c.text /\ m = (r.pii /\ ~c.hybrid) /\ mode = c.mode /\ rev = r.reversible
  OBVIOUS
<1>2. b = Layer(T, m, mode, f, rev)
  BY <1>1
<1>. HIDE DEF b, f
<1>3. /\ DOMAIN b = {"safe", "level", "threats", "text", "map"}
      /\ b.level \in {"LOW", "MEDIUM", "HIGH", "CRITICAL"}
      /\ (f.verdict = "BLOCK" \/ (f.verdict = "REVIEW" /\ f.hit = TRUE)) => b.safe = FALSE
  BY <1>2, LayerIsTyped
<1>4. LayerResult(r, c) = IF c.hybrid THEN [b EXCEPT !.map = c.map] ELSE b
  BY DEF LayerResult, b, f
<1>. QED BY <1>3, <1>4 DEF f

LEMMA VerdictInit == SecInit => VerdictInv
<1>. SUFFICES ASSUME SecInit PROVE VerdictInv
  OBVIOUS
<1>. USE DEF SecInit, NoCall, NoOut
<1>1. SecShape /\ crossed \subseteq Threads /\ detector \in Modes \cup {"none"} /\ hardened \in BOOLEAN
  BY DEF SecShape, WorkFields
<1>2. ASSUME NEW t \in Threads PROVE CallInv(t)
  BY DEF CallInv, MustHide, WorkFields, ReplyFields, Level
<1>. QED BY <1>1, <1>2 DEF VerdictInv

(* A thread that a step leaves alone keeps what holds of it.               *)
LEMMA OtherCalls ==
  ASSUME NEW u \in Threads, CallInv(u),
         pc'[u] = pc[u], req'[u] = req[u], work'[u] = work[u], reply'[u] = reply[u]
  PROVE  CallInv(u)'
BY DEF CallInv, MustHide, Detected, Base

(* A step of one thread, by what it does to that thread.                   *)
LEMMA OneCall ==
  ASSUME VerdictInv, NEW t \in Threads, CallInv(t)', SecShape',
         crossed' \subseteq Threads, detector' \in Modes \cup {"none"}, hardened' = hardened,
         \A u \in Threads : u # t => pc'[u] = pc[u] /\ req'[u] = req[u] /\ work'[u] = work[u] /\ reply'[u] = reply[u]
  PROVE  VerdictInv'
<1>1. \A u \in Threads : CallInv(u)'
  BY OtherCalls DEF VerdictInv
<1>. QED BY <1>1 DEF VerdictInv

(* Raising: the caller that fails closed gets the placeholder.             *)
LEMMA Raises ==
  ASSUME NEW t \in Threads, SecShape, CallInv(t), RaiseError(t), req' = req,
         DOMAIN work' = Threads, DOMAIN work'[t] = WorkFields,
         work'[t].base = {} \/ work'[t].judged = TRUE,
         work'[t].base # {} => Detected(t)' /\ work'[t].base = {LayerResult(req[t], work'[t])},
         work'[t].mode \in Modes \cup {"none"}
  PROVE  CallInv(t)'
<1>1. /\ pc'[t] = "done"
      /\ reply'[t] = [kind |-> OnError(req[t]).kind, text |-> OnError(req[t]).text, safe |-> TRUE,
                      level |-> "LOW", threats |-> {}, map |-> <<>>]
  BY DEF RaiseError, Answer, Goto, Plain, SecShape
<1>2. OnError(req[t]).kind \in {"answer", "raised"}
  BY DEF OnError
<1>3. req[t].caller = "fail_closed" => OnError(req[t]).text = Placeholder
  BY DEF OnError
<1>4. /\ DOMAIN reply'[t] = ReplyFields /\ reply'[t].kind \in {"none", "answer", "raised"}
      /\ reply'[t].level \in Level /\ reply'[t].text = OnError(req[t]).text
  BY <1>1, <1>2 DEF ReplyFields, Level
<1>5. MustHide(t)' => reply'[t].text = Placeholder
  BY <1>3, <1>4 DEF MustHide
<1>6. req'[t] \in Asks[t] \cup {NoRequest}
  BY DEF CallInv
<1>. QED BY <1>1, <1>4, <1>5, <1>6 DEF CallInv

LEMMA RaisesShape ==
  ASSUME NEW t \in Threads, SecShape, RaiseError(t), req' = req,
         DOMAIN work' = Threads, \A u \in Threads : DOMAIN work'[u] = WorkFields
  PROVE  SecShape' /\ \A u \in Threads : u # t => pc'[u] = pc[u] /\ reply'[u] = reply[u]
BY DEF SecShape, RaiseError, Answer, Goto

LEMMA VerdictCall ==
  ASSUME VerdictInv, NEW t \in Threads, Call(t)
  PROVE  VerdictInv'
<1>. USE DEF VerdictInv
<1>1. pc[t] = "idle" /\ work' = work /\ detector' = detector /\ hardened' = hardened /\ crossed' \subseteq Threads
  BY DEF Call, Idle
<1>2. PICK r \in Asks[t] :
        /\ req' = [req EXCEPT ![t] = r]
        /\ \/ /\ (~r.pii /\ ~r.inj) \/ r.caller = "finalize"
              /\ Answer(t, "answer", Plain(r.text))
           \/ Goto(t, "resolve") /\ reply' = reply
  BY DEF Call
<1>3. /\ SecShape' /\ req'[t] = r
      /\ \A u \in Threads : u # t => pc'[u] = pc[u] /\ req'[u] = req[u] /\ work'[u] = work[u] /\ reply'[u] = reply[u]
  BY <1>1, <1>2 DEF SecShape, Answer, Goto
<1>4. /\ DOMAIN work[t] = WorkFields /\ work[t].mode \in Modes \cup {"none"} /\ work[t].base = {}
      /\ work[t].judged = FALSE /\ DOMAIN reply[t] = ReplyFields /\ reply[t].kind = "none" /\ reply[t].level \in Level
  BY <1>1 DEF CallInv
<1>5. CASE ((~r.pii /\ ~r.inj) \/ r.caller = "finalize") /\ Answer(t, "answer", Plain(r.text))
  <2>1. /\ pc'[t] = "done"
        /\ reply'[t] = [kind |-> "answer", text |-> r.text, safe |-> TRUE, level |-> "LOW", threats |-> {}, map |-> <<>>]
    BY <1>5 DEF Answer, Goto, Plain, SecShape
  <2>2. ~MustHide(t)'
    BY <1>1, <1>3, <1>4, <1>5 DEF MustHide
  <2>3. CallInv(t)'
    BY <1>1, <1>3, <1>4, <2>1, <2>2 DEF CallInv, ReplyFields, Level
  <2>. QED BY <1>1, <1>3, <2>3, OneCall
<1>6. CASE Goto(t, "resolve") /\ reply' = reply
  <2>1. pc'[t] = "resolve"
    BY <1>6 DEF Goto, SecShape
  <2>2. ~MustHide(t)'
    BY <1>4, <1>6 DEF MustHide
  <2>3. CallInv(t)'
    BY <1>1, <1>3, <1>4, <1>6, <2>1, <2>2 DEF CallInv
  <2>. QED BY <1>1, <1>3, <2>3, OneCall
<1>. QED BY <1>2, <1>5, <1>6

(* Going on inside a call, before there is a result.                       *)
LEMMA GoesOn ==
  ASSUME VerdictInv, NEW t \in Threads, NEW l \in {"mask", "check", "create", "return", "detect", "score"},
         pc[t] \notin {"classify", "done"}, pc' = [pc EXCEPT ![t] = l],
         UNCHANGED <<req, reply, crossed, hardened>>, detector' \in Modes \cup {"none"},
         DOMAIN work' = Threads, DOMAIN work'[t] = WorkFields, work'[t].base = {}, work'[t].judged = FALSE,
         work'[t].mode \in Modes \cup {"none"}, l \in {"mask", "check", "create", "return"} => work'[t].mode \in Modes,
         l = "score" => Detected(t)', \A u \in Threads : u # t => work'[u] = work[u]
  PROVE  VerdictInv'
<1>. USE DEF VerdictInv
<1>1. SecShape' /\ pc'[t] = l /\ \A u \in Threads : u # t => pc'[u] = pc[u]
  BY DEF SecShape
<1>2. reply[t].kind = "none" /\ DOMAIN reply[t] = ReplyFields /\ reply[t].level \in Level /\ req[t] \in Asks[t] \cup {NoRequest}
  BY DEF CallInv
<1>3. ~MustHide(t)'
  BY <1>2 DEF MustHide
<1>4. CallInv(t)'
  BY <1>1, <1>2, <1>3 DEF CallInv
<1>. QED BY <1>1, <1>4, OneCall

LEMMA VerdictFinds ==
  ASSUME VerdictInv, NEW t \in Threads,
         Resolve(t) \/ MaskWithHybrid(t) \/ LeaveToLayer(t) \/ CheckDetector(t)
           \/ CreateDetector(t) \/ ReturnDetector(t) \/ Detect(t)
  PROVE  VerdictInv'
<1>. USE DEF VerdictInv
<1>1. pc[t] \in {"resolve", "mask", "check", "create", "return", "detect"}
  BY DEF Resolve, MaskWithHybrid, LeaveToLayer, CheckDetector, CreateDetector, ReturnDetector, Detect
<1>2. /\ CallInv(t) /\ SecShape /\ DOMAIN work[t] = WorkFields /\ work[t].base = {} /\ work[t].judged = FALSE
      /\ work[t].mode \in Modes \cup {"none"} /\ (pc[t] \in {"mask", "check", "create", "return"} => work[t].mode \in Modes)
  BY <1>1 DEF CallInv
<1>3. CASE Resolve(t)
  <2>1. UNCHANGED <<req, crossed, hardened, detector>>
    BY <1>3 DEF Resolve, Shared
  <2>2. CASE RaiseError(t) /\ UNCHANGED work
    <3>1. /\ req' = req /\ DOMAIN work' = Threads /\ \A u \in Threads : DOMAIN work'[u] = WorkFields
          /\ work'[t].base = {} /\ work'[t].mode \in Modes \cup {"none"}
      BY <1>2, <2>1, <2>2 DEF SecShape
    <3>2. CallInv(t)'
      BY <1>2, <2>2, <3>1, Raises
    <3>3. SecShape' /\ \A u \in Threads : u # t => pc'[u] = pc[u] /\ reply'[u] = reply[u]
      BY <1>2, <2>2, <3>1, RaisesShape
    <3>. QED BY <2>1, <2>2, <3>2, <3>3, OneCall
  <2>3. CASE ResolvedMode(req[t].mode) \in Modes /\ Goto(t, "mask") /\ UNCHANGED reply
             /\ work' = [work EXCEPT ![t].mode = ResolvedMode(req[t].mode)]
    <3>1. /\ DOMAIN work' = Threads /\ DOMAIN work'[t] = WorkFields /\ work'[t].base = {} /\ work'[t].judged = FALSE
          /\ work'[t].mode \in Modes /\ \A u \in Threads : u # t => work'[u] = work[u]
      BY <1>2, <2>3 DEF SecShape, WorkFields
    <3>. QED BY <1>1, <2>1, <2>3, <3>1, GoesOn DEF Goto
  <2>. QED BY <1>3, <2>2, <2>3 DEF Resolve
<1>4. CASE MaskWithHybrid(t) \/ LeaveToLayer(t)
  <2>1. pc[t] = "mask" /\ pc' = [pc EXCEPT ![t] = "check"] /\ UNCHANGED <<req, reply, crossed, hardened, detector>>
    BY <1>4 DEF MaskWithHybrid, LeaveToLayer, Goto, Shared
  <2>2. /\ DOMAIN work' = Threads /\ DOMAIN work'[t] = WorkFields /\ work'[t].base = {} /\ work'[t].judged = FALSE
        /\ work'[t].mode \in Modes /\ \A u \in Threads : u # t => work'[u] = work[u]
    <3>1. CASE MaskWithHybrid(t)
      <4>1. PICK h \in HybridOutcomes(req[t].text) :
              work' = [work EXCEPT ![t].text = h.text, ![t].hybrid = TRUE,
                         ![t].map = IF req[t].reversible THEN h.map ELSE <<>>]
        BY <3>1 DEF MaskWithHybrid
      <4>. QED BY <1>2, <2>1, <4>1 DEF SecShape, WorkFields
    <3>2. CASE LeaveToLayer(t)
      BY <1>2, <2>1, <3>2 DEF LeaveToLayer, SecShape, WorkFields
    <3>. QED BY <1>4, <3>1, <3>2
  <2>. QED BY <2>1, <2>2, GoesOn
<1>5. CASE CheckDetector(t)
  <2>1. pc[t] = "check" /\ UNCHANGED <<req, reply, work, crossed, hardened, detector>>
        /\ \E l \in {"create", "return"} : pc' = [pc EXCEPT ![t] = l]
    BY <1>5 DEF CheckDetector, Goto, Shared
  <2>. QED BY <1>2, <2>1, GoesOn DEF SecShape
<1>6. CASE CreateDetector(t)
  <2>1. pc[t] = "create" /\ UNCHANGED <<req, reply, work, crossed, hardened>> /\ detector' = work[t].mode
        /\ pc' = [pc EXCEPT ![t] = "return"]
    BY <1>6 DEF CreateDetector, Goto
  <2>. QED BY <1>2, <2>1, GoesOn DEF SecShape
<1>7. CASE ReturnDetector(t)
  <2>1. pc[t] = "return" /\ UNCHANGED <<req, reply, crossed, hardened, detector>> /\ work' = [work EXCEPT ![t].used = detector]
        /\ pc' = [pc EXCEPT ![t] = "detect"]
    BY <1>7 DEF ReturnDetector, Goto, Shared
  <2>2. /\ DOMAIN work' = Threads /\ DOMAIN work'[t] = WorkFields /\ work'[t].base = {} /\ work'[t].judged = FALSE
        /\ work'[t].mode \in Modes \cup {"none"} /\ \A u \in Threads : u # t => work'[u] = work[u]
    BY <1>2, <2>1 DEF SecShape, WorkFields
  <2>. QED BY <2>1, <2>2, GoesOn
<1>8. CASE Detect(t)
  <2>1. pc[t] = "detect" /\ UNCHANGED <<req, crossed, hardened, detector>>
    BY <1>8 DEF Detect, Shared
  <2>2. CASE RaiseError(t) /\ UNCHANGED work
    <3>1. /\ req' = req /\ DOMAIN work' = Threads /\ \A u \in Threads : DOMAIN work'[u] = WorkFields
          /\ work'[t].base = {} /\ work'[t].mode \in Modes \cup {"none"}
      BY <1>2, <2>1, <2>2 DEF SecShape
    <3>2. CallInv(t)'
      BY <1>2, <2>2, <3>1, Raises
    <3>3. SecShape' /\ \A u \in Threads : u # t => pc'[u] = pc[u] /\ reply'[u] = reply[u]
      BY <1>2, <2>2, <3>1, RaisesShape
    <3>. QED BY <2>1, <2>2, <3>2, <3>3, OneCall
  <2>3. ASSUME NEW s \in Scores, Goto(t, "score"), UNCHANGED reply,
               work' = [work EXCEPT ![t].found = {InjectionDetect(work[t].used, work[t].text, s)}]
        PROVE  VerdictInv'
    <3>1. /\ DOMAIN work' = Threads /\ DOMAIN work'[t] = WorkFields /\ work'[t].base = {} /\ work'[t].judged = FALSE
          /\ work'[t].mode \in Modes \cup {"none"} /\ \A u \in Threads : u # t => work'[u] = work[u]
          /\ work'[t].used = work[t].used /\ work'[t].text = work[t].text
          /\ work'[t].found = {InjectionDetect(work[t].used, work[t].text, s)}
      BY <1>2, <2>3 DEF SecShape, WorkFields
    <3>2. Detected(t)'
      BY <3>1 DEF Detected
    <3>. QED BY <2>1, <2>3, <3>1, <3>2, GoesOn DEF Goto
  <2>. QED BY <1>8, <2>2, <2>3 DEF Detect
<1>. QED BY <1>3, <1>4, <1>5, <1>6, <1>7, <1>8

LEMMA BaseOfOne ==
  ASSUME NEW t, NEW r, work[t].base = {r}
  PROVE  Base(t) = r
BY DEF Base

LEMMA VerdictScores ==
  ASSUME VerdictInv, NEW t \in Threads, ScoreLayer(t)
  PROVE  VerdictInv'
<1>. USE DEF VerdictInv
<1>1. /\ pc[t] = "score" /\ UNCHANGED <<req, reply, crossed, hardened, detector>> /\ pc' = [pc EXCEPT ![t] = "classify"]
      /\ work' = [work EXCEPT ![t].base = {LayerResult(req[t], work[t])}]
  BY DEF ScoreLayer, Goto, Shared
<1>2. CallInv(t) /\ Detected(t) /\ reply[t].kind = "none"
  BY <1>1 DEF CallInv
<1>3. /\ SecShape' /\ DOMAIN work'[t] = WorkFields /\ pc'[t] = "classify"
      /\ work'[t].base = {LayerResult(req[t], work[t])} /\ work'[t].mode = work[t].mode /\ work'[t].judged = work[t].judged
      /\ work'[t].text = work[t].text /\ work'[t].hybrid = work[t].hybrid /\ work'[t].found = work[t].found
      /\ work'[t].map = work[t].map /\ work'[t].used = work[t].used
      /\ \A u \in Threads : u # t => pc'[u] = pc[u] /\ work'[u] = work[u]
  BY <1>1 DEF SecShape, WorkFields
<1>4. LayerResult(req[t], work'[t]) = LayerResult(req[t], work[t]) /\ Detected(t)'
  BY <1>2, <1>3 DEF LayerResult, Detected
<1>5. ~MustHide(t)'
  BY <1>1, <1>2 DEF MustHide
<1>6. CallInv(t)'
  BY <1>1, <1>2, <1>3, <1>4, <1>5 DEF CallInv
<1>. QED BY <1>1, <1>3, <1>6, OneCall

LEMMA VerdictAnswers ==
  ASSUME VerdictInv, NEW t \in Threads, ReturnUnjudged(t) \/ Judge(t)
  PROVE  VerdictInv'
<1>. USE DEF VerdictInv
<1>1. pc[t] = "classify" /\ UNCHANGED <<req, crossed, hardened, detector>>
  BY DEF ReturnUnjudged, Judge, Shared
<1>2. /\ CallInv(t) /\ Detected(t) /\ work[t].judged = FALSE /\ work[t].base # {} /\ SecShape
      /\ work[t].base = {LayerResult(req[t], work[t])} /\ DOMAIN work[t] = WorkFields
      /\ work[t].mode \in Modes \cup {"none"} /\ req[t] \in Asks[t] \cup {NoRequest}
  BY <1>1 DEF CallInv
<1>3. Base(t) = LayerResult(req[t], work[t])
  BY <1>2, BaseOfOne
<1>4. DOMAIN Base(t) = {"safe", "level", "threats", "text", "map"} /\ Base(t).level \in Level
  <2>1. PICK r, c : r = req[t] /\ c = work[t]
    OBVIOUS
  <2>2. DOMAIN LayerResult(r, c) = {"safe", "level", "threats", "text", "map"} /\ LayerResult(r, c).level \in Level
    BY ResultIsTyped DEF Level
  <2>. QED BY <1>3, <2>1, <2>2
<1>5. CASE ReturnUnjudged(t)
  <2>1. /\ pc' = [pc EXCEPT ![t] = "done"] /\ work' = work
        /\ reply' = [reply EXCEPT ![t] = [kind |-> "answer", text |-> Base(t).text, safe |-> Base(t).safe,
                      level |-> Base(t).level, threats |-> Base(t).threats, map |-> Base(t).map]]
    BY <1>5, Zenon DEF ReturnUnjudged, Answer, Goto
  <2>2. /\ SecShape' /\ pc'[t] = "done" /\ DOMAIN reply'[t] = ReplyFields /\ reply'[t].kind = "answer"
        /\ reply'[t].level = Base(t).level /\ reply'[t].safe = Base(t).safe
        /\ \A u \in Threads : u # t => pc'[u] = pc[u] /\ reply'[u] = reply[u]
    BY <1>1, <1>2, <2>1 DEF SecShape, ReplyFields
  <2>3. ~MustHide(t)'
    BY <1>2, <2>1 DEF MustHide
  <2>4. Base(t)' = Base(t) /\ Detected(t)'
    BY <1>2, <2>1 DEF Base, Detected
  <2>5. CallInv(t)'
    BY <1>1, <1>2, <1>4, <2>1, <2>2, <2>3, <2>4 DEF CallInv
  <2>. QED BY <1>1, <2>1, <2>2, <2>5, OneCall
<1>6. CASE Judge(t)
  <2>1. work' = [work EXCEPT ![t].judged = TRUE]
    BY <1>6 DEF Judge
  <2>2. /\ DOMAIN work' = Threads /\ DOMAIN work'[t] = WorkFields /\ work'[t].judged = TRUE
        /\ work'[t].base = work[t].base /\ work'[t].mode = work[t].mode
        /\ work'[t].text = work[t].text /\ work'[t].hybrid = work[t].hybrid /\ work'[t].found = work[t].found
        /\ work'[t].map = work[t].map /\ work'[t].used = work[t].used
        /\ \A u \in Threads : u # t => work'[u] = work[u]
    BY <1>2, <2>1 DEF SecShape, WorkFields
  <2>3. LayerResult(req[t], work'[t]) = LayerResult(req[t], work[t]) /\ Detected(t)' /\ Base(t)' = Base(t)
    BY <1>2, <2>2 DEF LayerResult, Detected, Base
  <2>4. PICK ml \in MlScores :
          IF Blocks(req[t], Classify(Base(t).text, ml)) THEN RaiseError(t)
          ELSE Answer(t, "answer", Merge(Base(t), Classify(Base(t).text, ml)))
    BY <1>6 DEF Judge
  <2>5. CASE RaiseError(t)
    <3>1. CallInv(t)'
      BY <1>1, <1>2, <2>2, <2>3, <2>5, Raises
    <3>2. \A u \in Threads : DOMAIN work'[u] = WorkFields
      BY <2>2 DEF SecShape
    <3>3. SecShape' /\ \A u \in Threads : u # t => pc'[u] = pc[u] /\ reply'[u] = reply[u]
      BY <1>1, <1>2, <2>2, <2>5, <3>2, RaisesShape
    <3>. QED BY <1>1, <2>2, <3>1, <3>3, OneCall
  <2>6. CASE /\ ~Blocks(req[t], Classify(Base(t).text, ml))
             /\ Answer(t, "answer", Merge(Base(t), Classify(Base(t).text, ml)))
    <3>1. Merge(Base(t), Classify(Base(t).text, ml)).level \in Level
      BY <1>4 DEF Merge, Level
    <3>2. /\ SecShape' /\ pc'[t] = "done" /\ DOMAIN reply'[t] = ReplyFields /\ reply'[t].kind = "answer"
          /\ reply'[t].level = Merge(Base(t), Classify(Base(t).text, ml)).level
          /\ \A u \in Threads : u # t => pc'[u] = pc[u] /\ reply'[u] = reply[u]
      BY <1>1, <2>2, <2>6 DEF SecShape, ReplyFields, Answer, Goto
    <3>3. ~(req[t].blocking /\ SafetyThreats(Base(t).text) # {})
      BY <2>6, ThreatsAreUnsafe DEF Blocks, Classify
    <3>4. ~MustHide(t)'
      BY <1>1, <1>2, <2>2, <2>3, <3>3 DEF MustHide
    <3>5. CallInv(t)'
      BY <1>1, <1>2, <2>2, <2>3, <3>1, <3>2, <3>4 DEF CallInv
    <3>. QED BY <1>1, <2>2, <3>2, <3>5, OneCall
  <2>. QED BY <2>4, <2>5, <2>6
<1>. QED BY <1>5, <1>6

LEMMA VerdictStep == VerdictInv /\ [SecNext]_secvars => VerdictInv'
<1>. SUFFICES ASSUME VerdictInv, [SecNext]_secvars PROVE VerdictInv'
  OBVIOUS
<1>1. ASSUME UNCHANGED <<pc, req, work, reply, crossed>>, detector' = detector, hardened' \in BOOLEAN
      PROVE  VerdictInv'
  <2>1. \A t \in Threads : CallInv(t)'
    BY <1>1, OtherCalls DEF VerdictInv
  <2>. QED BY <1>1, <2>1 DEF VerdictInv, SecShape
<1>2. CASE HardenedLoads \/ UNCHANGED secvars
  BY <1>1, <1>2 DEF HardenedLoads, secvars, VerdictInv
<1>. QED BY <1>2, VerdictCall, VerdictFinds, VerdictScores, VerdictAnswers DEF SecNext

(* Where the verdict of the layer stands, it is not "safe" on a phrase of  *)
(* the lite detector's bank.                                               *)
LEMMA LayerStands == VerdictInv => LayerVerdictStands
<1>. SUFFICES ASSUME VerdictInv, NEW t \in Threads, Secured(t), ~work[t].judged,
                     Said(work[t].text) \cap LitePhrases # {}, work[t].used = "lite"
              PROVE  ~reply[t].safe
  BY DEF LayerVerdictStands
<1>1. CallInv(t) /\ pc[t] = "done" /\ work[t].base # {}
  BY DEF VerdictInv, CallInv, Secured, Answered
<1>2. PICK s \in Scores : work[t].found = {InjectionDetect(work[t].used, work[t].text, s)}
  BY <1>1 DEF CallInv, Detected
<1>3. /\ reply[t].safe = Base(t).safe /\ work[t].base = {LayerResult(req[t], work[t])}
  BY <1>1 DEF CallInv
<1>4. Base(t) = LayerResult(req[t], work[t])
  BY <1>3, BaseOfOne
<1>. DEFINE f == CHOOSE x \in work[t].found : TRUE
<1>5. f = LiteDetect(work[t].text, s)
  BY <1>2 DEF InjectionDetect
<1>6. f.verdict = "BLOCK" \/ (f.verdict = "REVIEW" /\ f.hit = TRUE)
  <2>1. PICK T : T = work[t].text
    OBVIOUS
  <2>2. LiteDetect(T, s).hit = TRUE /\ LiteDetect(T, s).verdict \in {"BLOCK", "REVIEW"}
    BY <2>1, LiteFindsPhrases
  <2>. QED BY <1>5, <2>1, <2>2
<1>7. LayerResult(req[t], work[t]).safe = FALSE
  BY <1>6, ResultIsTyped, ZenonT(30)
<1>. QED BY <1>3, <1>4, <1>7

-----------------------------------------------------------------------------
(* Texts, and what the steps put in them                                   *)

(* The values that are masked, their entries, and the cells of a text over *)
(* the phrases P.                                                          *)
Kinds  == {"email", "ssn", "credit_card"}
Single == {"bob", "ssn", "card", "badcard"}
Full   == <<"jim", "bob">>
Values == {<<p>> : p \in Single} \cup {Full}
Entries == {[type |-> t, value |-> v] : t \in Kinds, v \in Values}
Named(P) == Single \cup {"jim"} \cup Neutralized \subseteq P
TextCells(P) == {Cell(p) : p \in P}
Cells(P) == TextCells(P) \cup {Marked(p) : p \in P}
              \cup {MaskToken(t, v) : t \in Kinds, v \in Values \cup {<<>>}}

(* A cell that can be read is of one phrase; no mark or token can be.      *)
LEMMA CellFacts ==
  /\ \A p : Cell(p).k = "text" /\ Cell(p).v = <<p>> /\ Cell(p).v[1] = p
  /\ \A p : Marked(p).k = "mark" /\ Marked(p).v = <<p>>
  /\ \A p, q : Cell(p) = Cell(q) => p = q
  /\ \A t, v : MaskToken(t, v).k = t /\ MaskToken(t, v).v = v
BY DEF Cell, Marked, MaskToken

(* What can be read in a text is a cell of one of its phrases.             *)
LEMMA CellKinds ==
  ASSUME NEW P, NEW c \in Cells(P)
  PROVE  /\ c.k = "text" => \E p \in P : c = Cell(p)
         /\ c.k = "text" <=> c \in TextCells(P)
BY CellFacts DEF Cells, TextCells, Kinds

(* What users write is a text over some phrases.                           *)
LEMMA ReadableIsText ==
  ASSUME NEW T, Readable(T)
  PROVE  \E P : Named(P) /\ T \in Seq(TextCells(P)) /\ T \in Seq(Cells(P))
<1>. DEFINE P == {T[i].v[1] : i \in 1..Len(T)} \cup Single \cup {"jim"} \cup Neutralized
<1>1. Named(P)
  BY DEF Named
<1>2. Len(T) \in Nat /\ T = [i \in 1..Len(T) |-> Cell(T[i].v[1])]
  BY DEF Readable
<1>3. \A i \in 1..Len(T) : Cell(T[i].v[1]) \in TextCells(P)
  BY DEF TextCells
<1>. HIDE DEF P
<1>4. TextCells(P) \subseteq Cells(P)
  BY DEF Cells
<1>5. T \in [1..Len(T) -> TextCells(P)] /\ T \in [1..Len(T) -> Cells(P)]
  BY <1>2, <1>3, <1>4
<1>6. T \in Seq(TextCells(P)) /\ T \in Seq(Cells(P))
  BY <1>2, <1>5, RowOf
<1>. QED BY <1>1, <1>6

(* What is read at a place of a text.                                      *)
LEMMA ReadsAt ==
  ASSUME NEW P, NEW M \in Seq(Cells(P)), NEW i, NEW p, Reads(M, i, p)
  PROVE  i \in 1..Len(M) /\ M[i] = Cell(p) /\ M[i].k = "text" /\ M[i].v[1] = p /\ p \in P
<1>1. i \in 1..Len(M) /\ M[i] = Cell(p) /\ M[i] \in Cells(P)
  BY DEF Reads
<1>2. M[i].k = "text" /\ M[i].v[1] = p
  BY <1>1, CellFacts
<1>3. PICK q \in P : M[i] = Cell(q)
  BY <1>1, <1>2, CellKinds
<1>. QED BY <1>1, <1>2, <1>3, CellFacts

(* A single value holds where it is read, a full address where both are.   *)
LEMMA HoldsSingle ==
  ASSUME NEW M, NEW i \in Int, NEW p
  PROVE  HoldsAt(M, i, <<p>>) <=> Reads(M, i, p)
<1>1. DOMAIN <<p>> = {1} /\ <<p>>[1] = p /\ i + 1 - 1 = i
  OBVIOUS
<1>. QED BY <1>1 DEF HoldsAt

(* The full address holds where its two parts are read side by side.       *)
LEMMA HoldsFull ==
  ASSUME NEW M, NEW i \in Int
  PROVE  HoldsAt(M, i, Full) <=> Reads(M, i, "jim") /\ Reads(M, i + 1, "bob")
<1>1. DOMAIN Full = {1, 2} /\ Full[1] = "jim" /\ Full[2] = "bob" /\ i + 1 - 1 = i /\ i + 2 - 1 = i + 1
  BY DEF Full
<1>. QED BY <1>1 DEF HoldsAt

(* Only the full address has a cell behind its first.                      *)
LEMMA BehindWhich ==
  ASSUME NEW M, NEW i \in Int
  PROVE  /\ \A p : ~Behind(M, i, <<p>>)
         /\ Behind(M, i, Full) <=> HoldsAt(M, i - 1, Full)
<1>1. \A p : Len(<<p>>) - 1 = 0 /\ 1..0 = {}
  OBVIOUS
<1>2. Len(Full) - 1 = 1 /\ 1..1 = {1}
  BY DEF Full
<1>. QED BY <1>1, <1>2 DEF Behind

-----------------------------------------------------------------------------
(* Replacing a value                                                       *)

ReplaceParts(M, e) ==
  [i \in DOMAIN M |-> IF HoldsAt(M, i, e.value) THEN <<MaskToken(e.type, e.value)>>
                      ELSE IF Behind(M, i, e.value) THEN <<>> ELSE <<M[i]>>]

(* Each place gives the mask, nothing or what it held.                     *)
LEMMA ReplaceRows ==
  ASSUME NEW P, NEW M \in Seq(Cells(P)), NEW e \in Entries
  PROVE  /\ ReplaceParts(M, e) \in Seq(Seq(Cells(P))) /\ Len(ReplaceParts(M, e)) = Len(M)
         /\ \A i \in 1..Len(M) :
              /\ HoldsAt(M, i, e.value) => ReplaceParts(M, e)[i] = <<MaskToken(e.type, e.value)>>
              /\ ~HoldsAt(M, i, e.value) /\ Behind(M, i, e.value) => ReplaceParts(M, e)[i] = <<>>
              /\ ~HoldsAt(M, i, e.value) /\ ~Behind(M, i, e.value) => ReplaceParts(M, e)[i] = <<M[i]>>
         /\ ShortParts(ReplaceParts(M, e))
         /\ ReplaceEvery(M, e) = FlattenSeq(ReplaceParts(M, e)) /\ ReplaceEvery(M, e) \in Seq(Cells(P))
<1>. DEFINE tok == MaskToken(e.type, e.value)
            r == ReplaceParts(M, e)
            Part(i) == IF HoldsAt(M, i, e.value) THEN <<tok>>
                       ELSE IF Behind(M, i, e.value) THEN <<>> ELSE <<M[i]>>
<1>1. tok \in Cells(P)
  BY DEF Entries, Cells
<1>2. DOMAIN M = 1..Len(M) /\ Len(M) \in Nat /\ \A i \in 1..Len(M) : M[i] \in Cells(P)
  OBVIOUS
<1>. HIDE DEF tok
<1>3. r = [i \in 1..Len(M) |-> Part(i)]
  BY <1>2 DEF ReplaceParts, tok
<1>4. \A i \in 1..Len(M) : Part(i) \in Seq(Cells(P)) /\ Len(Part(i)) <= 1
  <2>1. TAKE i \in 1..Len(M)
  <2>2. <<tok>> \in Seq(Cells(P)) /\ <<>> \in Seq(Cells(P)) /\ <<M[i]>> \in Seq(Cells(P))
    BY <1>1, <1>2
  <2>3. Len(<<tok>>) = 1 /\ Len(<<>>) = 0 /\ Len(<<M[i]>>) = 1
    OBVIOUS
  <2>. QED BY <2>2, <2>3
<1>. HIDE DEF r, Part
<1>5. r \in [1..Len(M) -> Seq(Cells(P))] /\ \A i \in 1..Len(M) : r[i] = Part(i)
  BY <1>3, <1>4
<1>6. r \in Seq(Seq(Cells(P))) /\ Len(r) = Len(M)
  BY <1>2, <1>5, RowOf
<1>7. ShortParts(r)
  BY <1>4, <1>5, <1>6 DEF ShortParts
<1>8. ReplaceEvery(M, e) = FlattenSeq(r)
  BY DEF ReplaceEvery, ReplaceParts, r
<1>9. FlattenSeq(r) \in Seq(Cells(P))
  BY <1>6, FlatType
<1>. QED BY <1>5, <1>6, <1>7, <1>8, <1>9 DEF r, Part, tok

(* What can be read after it was read before, where the value did not hold.*)
LEMMA ReplaceReads ==
  ASSUME NEW P, NEW M \in Seq(Cells(P)), NEW e \in Entries, NEW p, NEW i \in 1..Len(M), NEW c,
         c = Cell(p), c \in ToSet(ReplaceParts(M, e)[i])
  PROVE  /\ Reads(M, i, p) /\ ~HoldsAt(M, i, e.value) /\ ReplaceParts(M, e)[i] = <<c>>
         /\ ~Behind(M, i, e.value)
<1>. DEFINE r == ReplaceParts(M, e)
            tok == MaskToken(e.type, e.value)
<1>1. /\ HoldsAt(M, i, e.value) => r[i] = <<tok>>
      /\ ~HoldsAt(M, i, e.value) /\ Behind(M, i, e.value) => r[i] = <<>>
      /\ ~HoldsAt(M, i, e.value) /\ ~Behind(M, i, e.value) => r[i] = <<M[i]>>
  BY ReplaceRows
<1>2. tok.k # "text" /\ c.k = "text"
  BY CellFacts DEF Entries, Kinds
<1>3. ToSet(<<tok>>) = {tok} /\ ToSet(<<>>) = {} /\ ToSet(<<M[i]>>) = {M[i]}
  BY DEF ToSet
<1>. HIDE DEF r, tok
<1>4. c \in ToSet(r[i])
  BY DEF r
<1>5. ~HoldsAt(M, i, e.value) /\ ~Behind(M, i, e.value)
  BY <1>1, <1>2, <1>3, <1>4
<1>6. r[i] = <<M[i]>> /\ c = M[i]
  BY <1>1, <1>3, <1>4, <1>5
<1>. QED BY <1>5, <1>6 DEF r, Reads

(* After it, the value holds nowhere, and no value does that did not.      *)
LEMMA ReplaceHides ==
  ASSUME NEW P, NEW M \in Seq(Cells(P)), NEW e \in Entries, NEW v \in Values, NEW k \in Int,
         HoldsAt(ReplaceEvery(M, e), k, v)
  PROVE  \E i \in 1..Len(M) : HoldsAt(M, i, v) /\ ~HoldsAt(M, i, e.value)
<1>. DEFINE r == ReplaceParts(M, e)
            N == FlattenSeq(r)
<1>1. /\ r \in Seq(Seq(Cells(P))) /\ Len(r) = Len(M) /\ ShortParts(r)
      /\ ReplaceEvery(M, e) = N /\ N \in Seq(Cells(P))
  BY ReplaceRows
<1>2. \A x : x \in ToSet(N) <=> \E i \in 1..Len(r) : x \in ToSet(r[i])
  BY <1>1, FlatHolds
<1>3. \A n \in 1..(Len(N) - 1) : BesideAt(r, N, n)
  BY <1>1, FlatBeside
<1>4. \A i \in 1..Len(M) : ~HoldsAt(M, i, e.value) /\ Behind(M, i, e.value) => r[i] = <<>>
  BY ReplaceRows
<1>5. \A i \in 1..Len(M) : HoldsAt(M, i, e.value) => r[i] # <<>>
  <2>1. \A i \in 1..Len(M) : HoldsAt(M, i, e.value) => r[i] = <<MaskToken(e.type, e.value)>>
    BY ReplaceRows
  <2>2. \A x : <<x>> # <<>>
    OBVIOUS
  <2>. HIDE DEF r
  <2>. QED BY <2>1, <2>2
<1>10. \A p : \A i \in 1..Len(M) : Cell(p) \in ToSet(r[i]) =>
         Reads(M, i, p) /\ ~HoldsAt(M, i, e.value) /\ ~Behind(M, i, e.value)
  BY ReplaceReads
<1>11. \A i \in 1..Len(M) : r[i] = <<>> => Behind(M, i, e.value) /\ ~HoldsAt(M, i, e.value)
  <2>1. \A i \in 1..Len(M) : ~HoldsAt(M, i, e.value) /\ ~Behind(M, i, e.value) => r[i] = <<M[i]>>
    BY ReplaceRows
  <2>. QED BY <1>5, <2>1
<1>. HIDE DEF r, N
<1>6. HoldsAt(N, k, v)
  BY <1>1
<1>7. CASE v # Full
  <2>1. PICK p \in Single : v = <<p>>
    BY <1>7 DEF Values
  <2>2. Reads(N, k, p)
    BY <1>6, <2>1, HoldsSingle
  <2>3. Cell(p) \in ToSet(N)
    BY <2>2 DEF Reads, ToSet
  <2>4. PICK i \in 1..Len(M) : Cell(p) \in ToSet(r[i])
    BY <1>1, <1>2, <2>3
  <2>5. Reads(M, i, p) /\ ~HoldsAt(M, i, e.value)
    BY <1>10, <2>4
  <2>. QED BY <2>1, <2>5, HoldsSingle
<1>8. CASE v = Full
  <2>1. Reads(N, k, "jim") /\ Reads(N, k + 1, "bob")
    BY <1>6, <1>8, HoldsFull
  <2>2. k \in 1..(Len(N) - 1) /\ N[k] = Cell("jim") /\ N[k + 1] = Cell("bob")
    <3>1. k \in 1..Len(N) /\ k + 1 \in 1..Len(N) /\ Len(N) \in Nat
      BY <1>1, <2>1 DEF Reads
    <3>. QED BY <2>1, <3>1 DEF Reads
  <2>3. PICK i \in 1..Len(M), j \in 1..Len(M) :
          i < j /\ r[i] = <<Cell("jim")>> /\ r[j] = <<Cell("bob")>> /\ Between(r, i, j)
    BY <1>1, <1>3, <2>2 DEF BesideAt
  <2>4. Cell("jim") \in ToSet(r[i]) /\ Cell("bob") \in ToSet(r[j])
    BY <2>3 DEF ToSet
  <2>5. Reads(M, i, "jim") /\ Reads(M, j, "bob") /\ ~HoldsAt(M, i, e.value)
    BY <1>10, <2>4
  <2>6. j = i + 1
    <3>1. SUFFICES ASSUME i + 1 < j PROVE FALSE
      BY <2>3
    <3>2. j - 1 \in (i + 1)..(j - 1) /\ j - 1 \in 1..Len(M)
      BY <3>1
    <3>3. r[j - 1] = <<>>
      BY <2>3, <3>2 DEF Between
    <3>4. Behind(M, j - 1, e.value)
      BY <1>11, <3>2, <3>3
    <3>5. e.value \in Values
      BY DEF Entries
    <3>6. e.value = Full
      <4>1. ASSUME e.value # Full PROVE FALSE
        <5>1. PICK p \in Single : e.value = <<p>>
          BY <3>5, <4>1 DEF Values
        <5>2. j - 1 \in Int
          BY <3>2
        <5>3. ~Behind(M, j - 1, <<p>>)
          BY <5>2, BehindWhich
        <5>. QED BY <3>4, <5>1, <5>3
      <4>. QED BY <4>1
    <3>7. HoldsAt(M, j - 2, e.value)
      <4>1. (j - 1) - 1 = j - 2
        BY <3>2
      <4>. QED BY <3>2, <3>4, <3>6, <4>1, BehindWhich
    <3>8. j - 2 = i \/ j - 2 \in (i + 1)..(j - 1)
      BY <3>1
    <3>9. j - 2 \in 1..Len(M)
      BY <3>1
    <3>10. r[j - 2] # <<>>
      BY <1>5, <3>7, <3>9
    <3>. QED BY <2>3, <2>5, <3>7, <3>8, <3>10 DEF Between
  <2>. QED BY <1>8, <2>5, <2>6, HoldsFull
<1>. QED BY <1>7, <1>8

-----------------------------------------------------------------------------
(* Putting the values back                                                 *)

(* A map as masking yields it, and what a text gives back with it.         *)
OfTokens(map) ==
  /\ DOMAIN map \subseteq {MaskToken(e.type, e.value) : e \in Entries}
  /\ \A t \in DOMAIN map : map[t] = t.v
Spelled(v) == [j \in DOMAIN v |-> Cell(v[j])]
Back(P, map) == [c \in Cells(P) |-> IF c \in DOMAIN map THEN Spelled(map[c]) ELSE <<c>>]

(* A value is put back as the cells it was masked from.                    *)
LEMMA Spellings ==
  /\ \A p : Spelled(<<p>>) = <<Cell(p)>>
  /\ Spelled(Full) = <<Cell("jim"), Cell("bob")>>
<1>1. \A p : Spelled(<<p>>) = <<Cell(p)>>
  BY DEF Spelled
<1>2. Spelled(Full) = <<Cell("jim"), Cell("bob")>>
  BY DEF Spelled, Full
<1>. QED BY <1>1, <1>2

(* Tokens give their values, all that is not a token itself.               *)
LEMMA BackAt ==
  ASSUME NEW P, Named(P), NEW map, OfTokens(map)
  PROVE  /\ Back(P, map) \in [Cells(P) -> Seq(Cells(P))]
         /\ \A c \in Cells(P) : c \notin DOMAIN map => Back(P, map)[c] = <<c>>
         /\ \A c \in Cells(P) : c \in DOMAIN map => Back(P, map)[c] = Spelled(c.v)
         /\ \A p \in P : Cell(p) \in Cells(P) /\ Cell(p) \notin DOMAIN map
         /\ \A p \in P : Marked(p) \in Cells(P) /\ Marked(p) \notin DOMAIN map
<1>1. \A t \in DOMAIN map : t.k \in Kinds /\ t.v \in Values /\ map[t] = t.v
  BY CellFacts DEF OfTokens, Entries
<1>2. \A p \in P : Cell(p) \in Cells(P) /\ Marked(p) \in Cells(P)
  BY DEF Cells, TextCells
<1>3. \A v \in Values : Spelled(v) \in Seq(Cells(P))
  <2>1. TAKE v \in Values
  <2>2. ASSUME NEW p \in Single, v = <<p>> PROVE Spelled(v) \in Seq(Cells(P))
    <3>1. Cell(p) \in Cells(P) /\ Spelled(v) = <<Cell(p)>>
      BY <1>2, <2>2, Spellings DEF Named
    <3>. QED BY <3>1
  <2>3. CASE v = Full
    <3>1. Cell("jim") \in Cells(P) /\ Cell("bob") \in Cells(P) /\ Spelled(v) = <<Cell("jim"), Cell("bob")>>
      BY <1>2, <2>3, Spellings DEF Named, Single
    <3>. QED BY <3>1
  <2>. QED BY <2>2, <2>3 DEF Values
<1>4. \A c \in Cells(P) : <<c>> \in Seq(Cells(P))
  OBVIOUS
<1>5. \A p : Cell(p) \notin DOMAIN map /\ Marked(p) \notin DOMAIN map
  BY <1>1, CellFacts DEF Kinds
<1>. QED BY <1>1, <1>2, <1>3, <1>4, <1>5 DEF Back

(* Putting the values back replaces each cell by itself or its value.      *)
LEMMA PutBackSpreads ==
  ASSUME NEW P, NEW map, NEW M \in Seq(Cells(P))
  PROVE  PutBack(M, map) = Spread(M, Back(P, map))
<1>1. \A i \in DOMAIN M : M[i] \in Cells(P)
  OBVIOUS
<1>2. [i \in DOMAIN M |-> IF M[i] \in DOMAIN map THEN [j \in DOMAIN map[M[i]] |-> Cell(map[M[i]][j])] ELSE <<M[i]>>]
        = [i \in DOMAIN M |-> Back(P, map)[M[i]]]
  BY <1>1 DEF Back, Spelled
<1>. QED BY <1>2 DEF PutBack, Spread

(* A value that is replaced is put back where it was.                      *)
LEMMA ReplaceRestores ==
  ASSUME NEW P, Named(P), NEW M \in Seq(Cells(P)), NEW e \in Entries, NEW map, OfTokens(map),
         MaskToken(e.type, e.value) \in DOMAIN map
  PROVE  PutBack(ReplaceEvery(M, e), map) = PutBack(M, map)
<1>. DEFINE C == Cells(P)
            f == Back(P, map)
            tok == MaskToken(e.type, e.value)
            r == ReplaceParts(M, e)
            a == SpreadParts(r, f)
            b == Placed(M, f)
            S == {i \in 1..Len(M) : e.value = Full /\ HoldsAt(M, i, Full)}
<1>1. f \in [C -> Seq(C)]
  BY BackAt
<1>2. r \in Seq(Seq(C)) /\ Len(r) = Len(M) /\ ReplaceEvery(M, e) = FlattenSeq(r)
        /\ ReplaceEvery(M, e) \in Seq(C)
  BY ReplaceRows
<1>3. \A i \in 1..Len(M) :
        /\ HoldsAt(M, i, e.value) => r[i] = <<tok>>
        /\ ~HoldsAt(M, i, e.value) /\ Behind(M, i, e.value) => r[i] = <<>>
        /\ ~HoldsAt(M, i, e.value) /\ ~Behind(M, i, e.value) => r[i] = <<M[i]>>
  BY ReplaceRows
<1>4. tok \in C /\ f[tok] = Spelled(e.value) /\ e.value \in Values
  <2>1. tok \in C /\ tok.v = e.value /\ e.value \in Values
    BY CellFacts DEF Cells, Entries
  <2>. QED BY <2>1, BackAt
<1>5. \A p \in P : Cell(p) \in C /\ f[Cell(p)] = <<Cell(p)>>
  BY BackAt
<1>. HIDE DEF r, f, tok, C
<1>6. a \in Seq(Seq(C)) /\ Len(a) = Len(r) /\ \A i \in 1..Len(r) : a[i] = Spread(r[i], f)
  <2>1. /\ SpreadParts(r, f) \in Seq(Seq(C)) /\ Len(SpreadParts(r, f)) = Len(r)
        /\ \A i \in 1..Len(r) : r[i] \in Seq(C) /\ SpreadParts(r, f)[i] = Spread(r[i], f)
    BY <1>1, <1>2, SpreadPartsType
  <2>. QED BY <2>1
<1>7. M \in Seq(C) /\ \A i \in 1..Len(M) : M[i] \in C
  BY DEF C
<1>8. b \in Seq(Seq(C)) /\ Len(b) = Len(M) /\ Spread(M, f) = FlattenSeq(b)
        /\ \A i \in 1..Len(M) : b[i] = f[M[i]]
  <2>1. /\ Placed(M, f) \in Seq(Seq(C)) /\ Len(Placed(M, f)) = Len(M)
        /\ \A i \in 1..Len(M) : M[i] \in C /\ Placed(M, f)[i] = f[M[i]] /\ f[M[i]] \in Seq(C)
        /\ Spread(M, f) = FlattenSeq(Placed(M, f)) /\ Spread(M, f) \in Seq(C)
    BY <1>1, <1>7, SpreadRows
  <2>. QED BY <2>1
<1>9. \A c \in C : Spread(<<c>>, f) = f[c]
  BY <1>1, SpreadOne
<1>10. Spread(<<>>, f) = <<>>
  BY SpreadEmpty
<1>. HIDE DEF a, b
<1>11. ASSUME NEW i \in S
       PROVE  i + 1 \in 1..Len(M) /\ i + 1 \notin S /\ a[i] = b[i] \o b[i + 1] /\ a[i + 1] = <<>>
  <2>1. i \in 1..Len(M) /\ e.value = Full /\ HoldsAt(M, i, Full)
    OBVIOUS
  <2>2. Reads(M, i, "jim") /\ Reads(M, i + 1, "bob")
    BY <2>1, HoldsFull
  <2>3. /\ i + 1 \in 1..Len(M) /\ M[i] = Cell("jim") /\ M[i + 1] = Cell("bob")
        /\ "jim" \in P /\ "bob" \in P
    BY <2>2, ReadsAt
  <2>4. ~HoldsAt(M, i + 1, Full)
    <3>1. i + 1 \in Int
      BY <2>1
    <3>2. ~Reads(M, i + 1, "jim")
      BY <2>3, CellFacts DEF Reads
    <3>. QED BY <3>1, <3>2, HoldsFull
  <2>5. Behind(M, i + 1, Full)
    <3>1. i + 1 \in Int /\ (i + 1) - 1 = i
      BY <2>1
    <3>. QED BY <2>1, <3>1, BehindWhich
  <2>6. r[i] = <<tok>> /\ r[i + 1] = <<>>
    BY <1>3, <2>1, <2>3, <2>4, <2>5
  <2>7. a[i] = <<Cell("jim"), Cell("bob")>> /\ a[i + 1] = <<>>
    BY <1>2, <1>4, <1>6, <1>9, <1>10, <2>1, <2>3, <2>6, Spellings
  <2>8. b[i] = <<Cell("jim")>> /\ b[i + 1] = <<Cell("bob")>>
    BY <1>5, <1>8, <2>1, <2>3
  <2>9. <<Cell("jim")>> \o <<Cell("bob")>> = <<Cell("jim"), Cell("bob")>>
    BY TwoOnes
  <2>. QED BY <2>3, <2>4, <2>7, <2>8, <2>9
<1>12. ASSUME NEW i \in 1..Len(M), i \notin S, i - 1 \notin S
       PROVE  a[i] = b[i]
  <2>1. CASE ~HoldsAt(M, i, e.value) /\ ~Behind(M, i, e.value)
    <3>1. r[i] = <<M[i]>>
      BY <1>3, <2>1
    <3>. QED BY <1>2, <1>6, <1>7, <1>8, <1>9, <3>1
  <2>2. CASE HoldsAt(M, i, e.value)
    <3>1. PICK p \in Single : e.value = <<p>>
      BY <1>4, <1>12, <2>2 DEF Values
    <3>2. Reads(M, i, p) /\ p \in P
      BY <2>2, <3>1, HoldsSingle DEF Named
    <3>3. M[i] = Cell(p) /\ b[i] = <<Cell(p)>>
      BY <1>5, <1>8, <3>2 DEF Reads
    <3>4. r[i] = <<tok>> /\ a[i] = <<Cell(p)>>
      BY <1>2, <1>3, <1>4, <1>6, <1>9, <2>2, <3>1, Spellings
    <3>. QED BY <3>3, <3>4
  <2>3. CASE Behind(M, i, e.value)
    <3>0. i \in Int
      OBVIOUS
    <3>1. \A p : ~Behind(M, i, <<p>>)
      BY <3>0, BehindWhich
    <3>2. e.value = Full
      BY <1>4, <2>3, <3>1 DEF Values
    <3>3. HoldsAt(M, i - 1, Full)
      BY <2>3, <3>0, <3>2, BehindWhich
    <3>4. Reads(M, i - 1, "jim")
      <4>1. i - 1 \in Int
        OBVIOUS
      <4>. QED BY <3>3, <4>1, HoldsFull
    <3>5. i - 1 \in 1..Len(M)
      BY <3>4, ReadsAt
    <3>. QED BY <1>12, <3>2, <3>3, <3>5
  <2>. QED BY <2>1, <2>2, <2>3
<1>13. S \subseteq 1..Len(b) /\ Len(a) = Len(b)
  BY <1>2, <1>6, <1>8
<1>. HIDE DEF S
<1>14. Regroups(a, b, S)
  BY <1>8, <1>11, <1>12 DEF Regroups
<1>15. FlattenSeq(a) = FlattenSeq(b)
  BY <1>6, <1>8, <1>13, <1>14, FlatRegrouped
<1>16. Spread(FlattenSeq(r), f) = FlattenSeq(a)
  BY <1>1, <1>2, SpreadOver DEF a
<1>17. PutBack(ReplaceEvery(M, e), map) = Spread(ReplaceEvery(M, e), f) /\ PutBack(M, map) = Spread(M, f)
  BY <1>2, PutBackSpreads DEF C, f
<1>. QED BY <1>2, <1>8, <1>15, <1>16, <1>17

-----------------------------------------------------------------------------
(* What is found                                                           *)

(* A match is an entry of its type and value.                              *)
LEMMA MatchFits ==
  ASSUME NEW P, NEW T \in Seq(TextCells(P)), NEW i \in MatchEnds(T)
  PROVE  i \in 1..Len(T) /\ MatchAt(T, i) \in Entries
<1>1. DOMAIN TypeOf = Single /\ \A p \in Single : TypeOf[p] \in Kinds
  BY DEF TypeOf, Single, Kinds
<1>2. i \in 1..Len(T) /\ T[i].v[1] \in Single
  BY <1>1 DEF MatchEnds
<1>3. \A v : v = <<"jim", "bob">> \/ v = <<T[i].v[1]>> => v \in Values
  BY <1>2 DEF Values, Full
<1>4. MatchAt(T, i).type = TypeOf[T[i].v[1]] /\ MatchAt(T, i).value \in Values
      /\ MatchAt(T, i) = [type |-> MatchAt(T, i).type, value |-> MatchAt(T, i).value]
  BY <1>3 DEF MatchAt
<1>. QED BY <1>1, <1>2, <1>4 DEF Entries

(* The matches of a text are entries; without a sign of one there is none. *)
LEMMA MatchesFit ==
  ASSUME NEW P, NEW T \in Seq(TextCells(P))
  PROVE  /\ PiiMatches(T) \in Seq(Entries)
         /\ MatchEnds(T) = {} => PiiMatches(T) = <<>>
<1>. DEFINE u == [i \in DOMAIN T |-> IF i \in MatchEnds(T) THEN <<MatchAt(T, i)>> ELSE <<>>]
<1>1. DOMAIN T = 1..Len(T) /\ Len(T) \in Nat
  OBVIOUS
<1>2. \A i \in 1..Len(T) : (IF i \in MatchEnds(T) THEN <<MatchAt(T, i)>> ELSE <<>>) \in Seq(Entries)
  <2>1. \A i \in MatchEnds(T) : MatchAt(T, i) \in Entries
    BY MatchFits
  <2>2. <<>> \in Seq(Entries) /\ \A x \in Entries : <<x>> \in Seq(Entries)
    OBVIOUS
  <2>. QED BY <2>1, <2>2
<1>3. u \in [1..Len(T) -> Seq(Entries)]
  BY <1>1, <1>2
<1>4. u \in Seq(Seq(Entries)) /\ Len(u) = Len(T)
  <2>. HIDE DEF u
  <2>. QED BY <1>1, <1>3, RowOf
<1>5. FlattenSeq(u) \in Seq(Entries)
  <2>. HIDE DEF u
  <2>. QED BY <1>4, FlatType
<1>6. ASSUME MatchEnds(T) = {} PROVE FlattenSeq(u) = <<>>
  <2>1. \A i \in 1..Len(T) : u[i] = <<>>
    BY <1>1, <1>6
  <2>. HIDE DEF u
  <2>. QED BY <1>4, <2>1, FlatNothing
<1>. QED BY <1>5, <1>6 DEF PiiMatches

(* Listing by type changes the order alone.                                *)
LEMMA ByTypeHolds ==
  ASSUME NEW M \in Seq(Entries)
  PROVE  ByType(M) \in Seq(Entries) /\ ToSet(ByType(M)) = ToSet(M) /\ ToSet(M) = Range(M)
<1>. DEFINE last == Reverse(M)
            Chosen(t) == [i \in DOMAIN last |-> IF last[i].type = t THEN <<last[i]>> ELSE <<>>]
            of(t) == FlattenSeq(Chosen(t))
            First(i) == \A j \in 1..(i - 1) : last[j].type # last[i].type
            rows == [i \in DOMAIN last |-> IF First(i) THEN of(last[i].type) ELSE <<>>]
<1>1. Len(M) \in Nat /\ \A i \in 1..Len(M) : M[i] \in Entries
  OBVIOUS
<1>2. last \in Seq(Entries) /\ Len(last) = Len(M) /\ \A i \in 1..Len(M) : last[i] = M[(Len(M) - i) + 1]
  <2>1. \A i \in 1..Len(M) : (Len(M) - i) + 1 \in 1..Len(M)
    BY <1>1
  <2>2. last \in [1..Len(M) -> Entries] /\ \A i \in 1..Len(M) : last[i] = M[(Len(M) - i) + 1]
    BY <1>1, <2>1 DEF Reverse
  <2>. HIDE DEF last
  <2>. QED BY <1>1, <2>2, RowOf
<1>3. ToSet(M) = {M[i] : i \in 1..Len(M)} /\ ToSet(M) = Range(M)
  BY DEF ToSet, Range
<1>4. ByType(M) = FlattenSeq(rows)
  BY DEF ByType
<1>. HIDE DEF last
<1>5. DOMAIN last = 1..Len(last) /\ Len(last) \in Nat
  BY <1>2
<1>6. \A t : of(t) \in Seq(Entries) /\ \A x : x \in ToSet(of(t)) <=> \E i \in 1..Len(last) : x = last[i]
        /\ x.type = t
  <2>1. TAKE t
  <2>2. \A i \in DOMAIN last : Chosen(t)[i] = IF last[i].type = t THEN <<last[i]>> ELSE <<>>
    OBVIOUS
  <2>3. Chosen(t) = [i \in DOMAIN last |-> Chosen(t)[i]]
    OBVIOUS
  <2>4. PICK c : c = Chosen(t)
    OBVIOUS
  <2>5. Picks(last, c)
    BY <2>2, <2>3, <2>4 DEF Picks
  <2>6. FlattenSeq(c) \in Seq(Entries) /\ PicksHold(last, c)
    BY <1>2, <2>5, FlatChosen
  <2>7. \A i \in 1..Len(last) : c[i] = <<last[i]>> <=> last[i].type = t
    <3>1. \A x : <<x>> # <<>>
      OBVIOUS
    <3>. QED BY <1>5, <2>2, <2>4, <3>1
  <2>8. \A x : x \in ToSet(FlattenSeq(c)) <=> \E i \in 1..Len(last) : c[i] = <<last[i]>> /\ x = last[i]
    BY <1>5, <2>6 DEF PicksHold
  <2>9. \A x : x \in ToSet(FlattenSeq(c)) <=> \E i \in 1..Len(last) : x = last[i] /\ x.type = t
    <3>. HIDE DEF Chosen
    <3>1. TAKE x
    <3>2. \A i \in 1..Len(last) : c[i] = <<last[i]>> /\ x = last[i] <=> x = last[i] /\ x.type = t
      BY <2>7
    <3>. QED BY <2>8, <3>2, Zenon
  <2>. QED BY <2>4, <2>6, <2>9
<1>. HIDE DEF of
<1>7. \A i \in 1..Len(last) : rows[i] = IF First(i) THEN of(last[i].type) ELSE <<>>
  BY <1>5
<1>8. rows \in Seq(Seq(Entries)) /\ Len(rows) = Len(last)
  <2>1. <<>> \in Seq(Entries)
    OBVIOUS
  <2>2. rows \in [1..Len(last) -> Seq(Entries)]
    BY <1>5, <1>6, <2>1
  <2>. HIDE DEF rows
  <2>. QED BY <1>5, <2>2, RowOf
<1>. HIDE DEF rows
<1>9. FlattenSeq(rows) \in Seq(Entries)
  BY <1>8, FlatType
<1>10. \A x : x \in ToSet(FlattenSeq(rows)) <=> \E i \in 1..Len(rows) : x \in ToSet(rows[i])
  BY <1>8, FlatHolds
<1>11. ASSUME NEW x \in ToSet(FlattenSeq(rows)) PROVE x \in ToSet(M)
  <2>1. PICK i \in 1..Len(last) : x \in ToSet(rows[i])
    BY <1>8, <1>10
  <2>2. rows[i] = of(last[i].type)
    <3>1. ToSet(<<>>) = {}
      BY DEF ToSet
    <3>. HIDE DEF First
    <3>. QED BY <1>7, <2>1, <3>1
  <2>3. PICK k \in 1..Len(last) : x = last[k]
    BY <1>6, <2>1, <2>2
  <2>4. (Len(M) - k) + 1 \in 1..Len(M)
    BY <1>1, <1>2
  <2>. QED BY <1>2, <1>3, <2>3, <2>4
<1>12. ASSUME NEW x \in ToSet(M) PROVE x \in ToSet(FlattenSeq(rows))
  <2>1. PICK m \in 1..Len(M) : x = M[m]
    BY <1>3
  <2>2. PICK k \in 1..Len(last) : x = last[k]
    <3>1. (Len(M) - m) + 1 \in 1..Len(M) /\ (Len(M) - ((Len(M) - m) + 1)) + 1 = m
      BY <1>1
    <3>. QED BY <1>2, <2>1, <3>1
  <2>. DEFINE B == {j \in 1..Len(last) : last[j].type = x.type}
  <2>3. B \subseteq Nat /\ B # {}
    BY <2>2
  <2>4. PICK j \in B : \A n \in B : j <= n
    <3>. HIDE DEF B
    <3>. QED BY <2>3, LeastNat
  <2>5. j \in 1..Len(last) /\ last[j].type = x.type /\ First(j)
    BY <1>5, <2>4
  <2>. HIDE DEF First
  <2>6. rows[j] = of(x.type)
    BY <1>7, <2>5
  <2>7. x \in ToSet(of(x.type))
    BY <1>6, <2>2
  <2>. QED BY <1>8, <1>10, <2>5, <2>6, <2>7
<1>. QED BY <1>3, <1>4, <1>9, <1>11, <1>12

-----------------------------------------------------------------------------
(* Masking by the rules                                                    *)

(* A text masked value by value, and where a value holds nowhere.          *)
Masks(T, found, n, r) ==
  r = [i \in 0..n |-> IF i = 0 THEN T ELSE Substitute(r[i - 1], found[i])]
Free(M, v) == \A k \in Int : ~HoldsAt(M, k, v)

(* Each value that was found is masked in what the ones before left.       *)
LEMMA MasksStep ==
  ASSUME NEW T, NEW found, NEW n \in Nat, NEW r, Masks(T, found, n, r)
  PROVE  r[0] = T /\ \A i \in 1..n : r[i] = Substitute(r[i - 1], found[i])
<1>1. 0 \in 0..n /\ \A i \in 1..n : i \in 0..n /\ i # 0
  OBVIOUS
<1>. QED BY <1>1, Zenon DEF Masks

(* Values can be masked one after the other, however many there are.       *)
LEMMA MasksExist ==
  ASSUME NEW T, NEW found
  PROVE  \A n \in Nat : \E r : Masks(T, found, n, r)
<1>. DEFINE S == {n \in Nat : \E r : Masks(T, found, n, r)}
<1>1. 0 \in S
  <2>1. Masks(T, found, 0, [i \in 0..0 |-> T])
    <3>1. \A i \in 0..0 : i = 0
      OBVIOUS
    <3>. QED BY <3>1, Zenon DEF Masks
  <2>. QED BY <2>1
<1>2. ASSUME NEW n \in Nat, n \in S PROVE n + 1 \in S
  <2>1. PICK r : Masks(T, found, n, r)
    BY <1>2
  <2>. DEFINE t == [i \in 0..(n + 1) |-> IF i = n + 1 THEN Substitute(r[n], found[n + 1]) ELSE r[i]]
  <2>2. r[0] = T /\ \A i \in 1..n : r[i] = Substitute(r[i - 1], found[i])
    BY <2>1, MasksStep
  <2>3. (\A i \in 0..n : t[i] = r[i]) /\ t[n + 1] = Substitute(r[n], found[n + 1])
    OBVIOUS
  <2>4. t = [i \in 0..(n + 1) |-> t[i]]
    OBVIOUS
  <2>. HIDE DEF t
  <2>5. \A i \in 0..(n + 1) : t[i] = IF i = 0 THEN T ELSE Substitute(t[i - 1], found[i])
    <3>1. TAKE i \in 0..(n + 1)
    <3>2. CASE i = 0
      BY <2>2, <2>3, <3>2
    <3>3. CASE i \in 1..n
      <4>1. i - 1 \in 0..n /\ i \in 0..n /\ i # 0
        BY <3>3
      <4>. QED BY <2>2, <2>3, <3>3, <4>1
    <3>4. CASE i = n + 1
      <4>1. i - 1 = n /\ n \in 0..n /\ i # 0
        BY <3>4
      <4>. QED BY <2>3, <3>4, <4>1
    <3>. QED BY <3>2, <3>3, <3>4
  <2>6. t = [i \in 0..(n + 1) |-> IF i = 0 THEN T ELSE Substitute(t[i - 1], found[i])]
    BY <2>4, <2>5
  <2>7. Masks(T, found, n + 1, t)
    BY <2>6 DEF Masks
  <2>. QED BY <2>7
<1>. HIDE DEF S
<1>3. \A n \in Nat : n \in S
  BY <1>1, <1>2, CountedUp
<1>. QED BY <1>3 DEF S

(* Masking one value: it is gone, none that was gone is back, and what was *)
(* put back before is put back after.                                      *)
LEMMA SubstituteStep ==
  ASSUME NEW P, Named(P), NEW M \in Seq(Cells(P)), NEW e \in Entries
  PROVE  /\ Substitute(M, e) \in Seq(Cells(P)) /\ Free(Substitute(M, e), e.value)
         /\ \A v \in Values : Free(M, v) => Free(Substitute(M, e), v)
         /\ \A map : OfTokens(map) /\ MaskToken(e.type, e.value) \in DOMAIN map =>
              PutBack(Substitute(M, e), map) = PutBack(M, map)
<1>1. Substitute(M, e) = ReplaceEvery(M, e)
  BY DEF Substitute
<1>2. ReplaceEvery(M, e) \in Seq(Cells(P))
  BY ReplaceRows
<1>3. \A v \in Values : \A k \in Int : HoldsAt(ReplaceEvery(M, e), k, v) =>
        \E i \in 1..Len(M) : HoldsAt(M, i, v) /\ ~HoldsAt(M, i, e.value)
  BY ReplaceHides
<1>4. e.value \in Values /\ Len(M) \in Nat
  BY DEF Entries
<1>5. \A i \in 1..Len(M) : i \in Int
  BY <1>4
<1>6. \A map : OfTokens(map) /\ MaskToken(e.type, e.value) \in DOMAIN map =>
        PutBack(ReplaceEvery(M, e), map) = PutBack(M, map)
  BY ReplaceRestores
<1>7. Free(ReplaceEvery(M, e), e.value)
  BY <1>3, <1>4 DEF Free
<1>8. \A v \in Values : Free(M, v) => Free(ReplaceEvery(M, e), v)
  BY <1>3, <1>5 DEF Free
<1>. QED BY <1>1, <1>2, <1>6, <1>7, <1>8

(* The map of a masked text.                                               *)
LEMMA MaskMapFits ==
  ASSUME NEW P, NEW T \in Seq(TextCells(P))
  PROVE  /\ OfTokens(MaskMap(MaskTokens(T)))
         /\ \A e \in Range(PiiMatches(T)) : MaskToken(e.type, e.value) \in DOMAIN MaskMap(MaskTokens(T))
<1>1. PiiMatches(T) \in Seq(Entries)
  BY MatchesFit
<1>2. Range(PiiMatches(T)) \subseteq Entries
  <2>1. PICK M \in Seq(Entries) : M = PiiMatches(T)
    BY <1>1
  <2>2. Range(M) \subseteq Entries
    BY DEF Range
  <2>. QED BY <2>1, <2>2
<1>3. DOMAIN MaskMap(MaskTokens(T)) = {MaskToken(e.type, e.value) : e \in Range(PiiMatches(T))}
      /\ \A t \in DOMAIN MaskMap(MaskTokens(T)) : MaskMap(MaskTokens(T))[t] = t.v
  BY DEF MaskMap, MaskTokens
<1>. QED BY <1>2, <1>3 DEF OfTokens

(* Of a readable text nothing is put back.                                 *)
LEMMA PutBackReadable ==
  ASSUME NEW P, Named(P), NEW T \in Seq(TextCells(P)), NEW map, OfTokens(map)
  PROVE  T \in Seq(Cells(P)) /\ PutBack(T, map) = T
<1>1. TextCells(P) \subseteq Cells(P)
  BY DEF Cells
<1>2. T \in Seq(Cells(P))
  BY <1>1
<1>3. Back(P, map) \in [Cells(P) -> Seq(Cells(P))]
  BY BackAt
<1>4. \A p \in P : Cell(p) \in Cells(P) /\ Cell(p) \notin DOMAIN map
  BY BackAt
<1>5. \A c \in Cells(P) : c \notin DOMAIN map => Back(P, map)[c] = <<c>>
  BY BackAt
<1>6. \A i \in 1..Len(T) : Back(P, map)[T[i]] = <<T[i]>>
  <2>1. TAKE i \in 1..Len(T)
  <2>2. T[i] \in TextCells(P)
    OBVIOUS
  <2>3. PICK p \in P : T[i] = Cell(p)
    BY <2>2 DEF TextCells
  <2>. QED BY <1>4, <1>5, <2>3
<1>7. Spread(T, Back(P, map)) = T
  BY <1>2, <1>3, <1>6, SpreadSame
<1>. QED BY <1>2, <1>7, PutBackSpreads

(* Masking hides every value that is found, and the map gives all back; a  *)
(* text with nothing to find is left as it is.                             *)
LEMMA MaskingExact ==
  ASSUME NEW P, Named(P), NEW T \in Seq(TextCells(P))
  PROVE  /\ MaskPii(T) \in Seq(Cells(P))
         /\ \A e \in Range(PiiMatches(T)) : Free(MaskPii(T), e.value)
         /\ PutBack(MaskPii(T), MaskMap(MaskTokens(T))) = T
         /\ MatchEnds(T) = {} => MaskPii(T) = T /\ MaskTokens(T) = {}
<1>. DEFINE found == ByType(PiiMatches(T))
            n == Len(found)
            map == MaskMap(MaskTokens(T))
            r == CHOOSE x : Masks(T, found, n, x)
<1>1. PiiMatches(T) \in Seq(Entries) /\ (MatchEnds(T) = {} => PiiMatches(T) = <<>>)
  BY MatchesFit
<1>2. found \in Seq(Entries) /\ ToSet(found) = Range(PiiMatches(T))
  BY <1>1, ByTypeHolds
<1>3. OfTokens(map) /\ \A e \in Range(PiiMatches(T)) : MaskToken(e.type, e.value) \in DOMAIN map
  BY MaskMapFits
<1>4. T \in Seq(Cells(P)) /\ PutBack(T, map) = T
  <2>. HIDE DEF map
  <2>. QED BY <1>3, PutBackReadable
<1>5. MaskPii(T) = r[n]
  BY DEF MaskPii, Masks
<1>6. n \in Nat /\ \A i \in 1..n : found[i] \in Entries /\ found[i] \in ToSet(found)
  <2>. HIDE DEF found
  <2>1. ToSet(found) = {found[i] : i \in 1..Len(found)}
    BY <1>2 DEF ToSet
  <2>. QED BY <1>2, <2>1
<1>7. Masks(T, found, n, r)
  <2>. HIDE DEF n, found
  <2>1. \E x : Masks(T, found, n, x)
    BY <1>6, MasksExist
  <2>. QED BY <2>1
<1>. HIDE DEF r, n, map, found
<1>8. r[0] = T /\ \A i \in 1..n : r[i] = Substitute(r[i - 1], found[i])
  BY <1>6, <1>7, MasksStep
<1>. DEFINE Good(i) == /\ r[i] \in Seq(Cells(P)) /\ PutBack(r[i], map) = T
                       /\ \A j \in 1..i : Free(r[i], found[j].value)
            S == {i \in Nat : i <= n => Good(i)}
<1>9. 0 \in S
  BY <1>4, <1>8
<1>10. ASSUME NEW i \in Nat, i \in S PROVE i + 1 \in S
  <2>. SUFFICES ASSUME i + 1 <= n PROVE Good(i + 1)
    OBVIOUS
  <2>1. Good(i) /\ i + 1 \in 1..n /\ (i + 1) - 1 = i
    BY <1>6, <1>10
  <2>2. PICK M \in Seq(Cells(P)), e \in Entries :
          M = r[i] /\ e = found[i + 1] /\ MaskToken(e.type, e.value) \in DOMAIN map
    BY <1>2, <1>3, <1>6, <2>1
  <2>3. r[i + 1] = Substitute(M, e)
    BY <1>8, <2>1, <2>2
  <2>4. /\ Substitute(M, e) \in Seq(Cells(P)) /\ Free(Substitute(M, e), e.value)
        /\ \A v \in Values : Free(M, v) => Free(Substitute(M, e), v)
        /\ PutBack(Substitute(M, e), map) = PutBack(M, map)
    BY <1>3, <2>2, SubstituteStep
  <2>5. \A j \in 1..(i + 1) : Free(r[i + 1], found[j].value)
    <3>1. TAKE j \in 1..(i + 1)
    <3>2. CASE j = i + 1
      BY <2>2, <2>3, <2>4, <3>2
    <3>3. CASE j \in 1..i
      <4>1. j \in 1..n
        <5>. HIDE DEF Good
        <5>. QED BY <1>6, <3>3
      <4>2. found[j].value \in Values
        BY <1>6, <4>1 DEF Entries
      <4>3. Free(M, found[j].value)
        BY <2>1, <2>2, <3>3
      <4>. QED BY <2>3, <2>4, <4>2, <4>3
    <3>. QED BY <3>2, <3>3
  <2>. QED BY <2>1, <2>2, <2>3, <2>4, <2>5
<1>. HIDE DEF S
<1>11. \A i \in Nat : i \in S
  BY <1>9, <1>10, CountedUp
<1>12. Good(n)
  BY <1>6, <1>11 DEF S
<1>13. \A e \in Range(PiiMatches(T)) : Free(r[n], e.value)
  <2>1. TAKE e \in Range(PiiMatches(T))
  <2>2. PICK j \in 1..n : e = found[j]
    BY <1>2 DEF ToSet, n
  <2>. QED BY <1>12, <2>2
<1>14. ASSUME MatchEnds(T) = {} PROVE r[n] = T /\ MaskTokens(T) = {}
  <2>1. Range(PiiMatches(T)) = {}
    BY <1>1, <1>14 DEF Range
  <2>2. n = 0
    <3>1. ~(1 \in 1..n)
      BY <1>2, <1>6, <2>1
    <3>. QED BY <1>6, <3>1
  <2>. QED BY <1>8, <2>1, <2>2 DEF MaskTokens
<1>. QED BY <1>5, <1>12, <1>13, <1>14 DEF map

-----------------------------------------------------------------------------
(* Neutralising                                                            *)

Hushed(c) == IF \E p \in Neutralized : c = Cell(p) THEN Marked(c.v[1]) ELSE c
Hush(P) == [c \in Cells(P) |-> <<Hushed(c)>>]

(* A dangerous phrase is marked, what else there is stays.                 *)
LEMMA HushAt ==
  ASSUME NEW P, NEW c \in Cells(P)
  PROVE  /\ Hushed(c) \in Cells(P)
         /\ \A p : Hushed(c) = Cell(p) => c = Cell(p) /\ p \notin Neutralized
         /\ (\A p \in Neutralized : c # Cell(p)) => Hushed(c) = c
         /\ Hushed(c) # c => \E p \in P : Hushed(c) = Marked(p)
         /\ (\E p \in Neutralized : c = Cell(p)) => Hushed(c).k = "mark"
<1>1. CASE \A p \in Neutralized : c # Cell(p)
  <2>1. Hushed(c) = c
    BY <1>1 DEF Hushed
  <2>2. \A p : c = Cell(p) => p \notin Neutralized
    BY <1>1
  <2>. QED BY <1>1, <2>1, <2>2
<1>2. ASSUME NEW p \in Neutralized, c = Cell(p) PROVE Hushed(c) = Marked(p) /\ p \in P /\ Marked(p) \in Cells(P)
  <2>1. Hushed(c) = Marked(c.v[1])
    BY <1>2 DEF Hushed
  <2>2. c.v[1] = p /\ c.k = "text"
    BY <1>2, CellFacts
  <2>3. PICK q \in P : c = Cell(q)
    BY <2>2, CellKinds
  <2>4. p = q
    BY <1>2, <2>3, CellFacts
  <2>. QED BY <2>1, <2>2, <2>4 DEF Cells
<1>3. \A p, q : Marked(p) # Cell(q) /\ Marked(p).k = "mark"
  BY CellFacts
<1>. QED BY <1>1, <1>2, <1>3

(* Neutralising a text cell by cell.                                       *)
LEMMA NeutralizeSpreads ==
  ASSUME NEW P, NEW X \in Seq(Cells(P))
  PROVE  /\ Neutralize(X) \in Seq(Cells(P)) /\ Len(Neutralize(X)) = Len(X)
         /\ \A i \in 1..Len(X) : X[i] \in Cells(P) /\ Neutralize(X)[i] = Hushed(X[i])
         /\ Hush(P) \in [Cells(P) -> Seq(Cells(P))]
         /\ Neutralize(X) = Spread(X, Hush(P))
<1>1. DOMAIN X = 1..Len(X) /\ Len(X) \in Nat /\ \A i \in 1..Len(X) : X[i] \in Cells(P)
  OBVIOUS
<1>2. \A i \in 1..Len(X) : \A p : Reads(X, i, p) <=> X[i] = Cell(p)
  BY <1>1 DEF Reads
<1>3. Neutralize(X) = [i \in 1..Len(X) |-> Hushed(X[i])]
  BY <1>1, <1>2 DEF Neutralize, Hushed
<1>4. \A c \in Cells(P) : Hushed(c) \in Cells(P)
  BY HushAt
<1>5. Neutralize(X) \in [1..Len(X) -> Cells(P)] /\ \A i \in 1..Len(X) : Neutralize(X)[i] = Hushed(X[i])
  BY <1>1, <1>3, <1>4
<1>6. Neutralize(X) \in Seq(Cells(P)) /\ Len(Neutralize(X)) = Len(X)
  BY <1>1, <1>5, RowOf
<1>7. Hush(P) \in [Cells(P) -> Seq(Cells(P))]
  <2>1. \A c \in Cells(P) : <<Hushed(c)>> \in Seq(Cells(P))
    BY <1>4
  <2>. QED BY <2>1 DEF Hush
<1>8. [i \in DOMAIN X |-> Hush(P)[X[i]]] = [i \in DOMAIN Neutralize(X) |-> <<Neutralize(X)[i]>>]
  <2>1. DOMAIN Neutralize(X) = DOMAIN X
    BY <1>1, <1>3
  <2>2. \A i \in DOMAIN X : Hush(P)[X[i]] = <<Neutralize(X)[i]>>
    BY <1>1, <1>5 DEF Hush
  <2>. QED BY <2>1, <2>2
<1>9. Neutralize(X) = Spread(X, Hush(P))
  BY <1>6, <1>8, FlatSingles DEF Spread
<1>. QED BY <1>1, <1>5, <1>6, <1>7, <1>9

(* Nothing dangerous is left, nothing else is lost, and nothing that was   *)
(* masked can be read again.                                               *)
LEMMA NeutralizeHides ==
  ASSUME NEW P, NEW X \in Seq(Cells(P))
  PROVE  /\ Said(Neutralize(X)) \cap Neutralized = {} /\ Said(Neutralize(X)) \subseteq Said(X)
         /\ \A v : Free(X, v) => Free(Neutralize(X), v)
         /\ Said(X) \cap Neutralized = {} => Neutralize(X) = X
<1>1. /\ Neutralize(X) \in Seq(Cells(P)) /\ Len(Neutralize(X)) = Len(X)
      /\ \A i \in 1..Len(X) : X[i] \in Cells(P) /\ Neutralize(X)[i] = Hushed(X[i])
  BY NeutralizeSpreads
<1>2. DOMAIN X = 1..Len(X) /\ DOMAIN Neutralize(X) = 1..Len(X)
  BY <1>1
<1>3. \A c \in Cells(P) : \A p : Hushed(c) = Cell(p) => c = Cell(p) /\ p \notin Neutralized
  BY HushAt
<1>4. ASSUME NEW i, NEW p, Reads(Neutralize(X), i, p) PROVE Reads(X, i, p) /\ p \notin Neutralized
  BY <1>1, <1>2, <1>3, <1>4 DEF Reads
<1>5. \A v : Free(X, v) => Free(Neutralize(X), v)
  BY <1>4 DEF Free, HoldsAt
<1>6. ASSUME NEW q \in Said(Neutralize(X)) PROVE q \in Said(X) /\ q \notin Neutralized
  <2>1. PICK i \in 1..Len(X) : Neutralize(X)[i].k = "text" /\ q = Neutralize(X)[i].v[1]
    BY <1>2 DEF Said
  <2>2. Neutralize(X)[i] \in Cells(P)
    BY <1>1
  <2>3. PICK p \in P : Neutralize(X)[i] = Cell(p)
    BY <2>1, <2>2, CellKinds
  <2>4. q = p
    BY <2>1, <2>3, CellFacts
  <2>5. X[i] = Cell(p) /\ p \notin Neutralized
    BY <1>1, <1>3, <2>3
  <2>6. X[i].k = "text" /\ X[i].v[1] = p
    BY <2>5, CellFacts
  <2>. QED BY <1>2, <2>4, <2>5, <2>6 DEF Said
<1>7. ASSUME Said(X) \cap Neutralized = {} PROVE Neutralize(X) = X
  <2>1. ASSUME NEW i \in 1..Len(X) PROVE Neutralize(X)[i] = X[i]
    <3>1. \A p \in Neutralized : X[i] # Cell(p)
      <4>1. SUFFICES ASSUME NEW p \in Neutralized, X[i] = Cell(p) PROVE FALSE
        OBVIOUS
      <4>2. X[i].k = "text" /\ X[i].v[1] = p
        BY <4>1, CellFacts
      <4>3. p \in Said(X)
        BY <1>2, <4>2 DEF Said
      <4>. QED BY <1>7, <4>3
    <3>2. Hushed(X[i]) = X[i]
      BY <3>1 DEF Hushed
    <3>. QED BY <1>1, <3>2
  <2>2. PICK Y \in Seq(Cells(P)) : Y = Neutralize(X)
    BY <1>1
  <2>. QED BY <1>1, <2>1, <2>2, SeqEqual
<1>. QED BY <1>5, <1>6, <1>7

(* Neutralising before the values are put back, or after, is the same.     *)
LEMMA PutBackNeutralized ==
  ASSUME NEW P, Named(P), NEW X \in Seq(Cells(P)), NEW map, OfTokens(map)
  PROVE  PutBack(Neutralize(X), map) = Neutralize(PutBack(X, map))
<1>. DEFINE C == Cells(P)
            h == Hush(P)
            b == Back(P, map)
<1>1. b \in [C -> Seq(C)] /\ h \in [C -> Seq(C)] /\ Neutralize(X) \in Seq(C) /\ Neutralize(X) = Spread(X, h)
  BY BackAt, NeutralizeSpreads
<1>2. \A c \in C : h[c] = <<Hushed(c)>> /\ Hushed(c) \in C
  BY HushAt DEF Hush
<1>3. /\ \A c \in C : c \notin DOMAIN map => b[c] = <<c>>
      /\ \A c \in C : c \in DOMAIN map => b[c] = Spelled(c.v)
      /\ \A p \in P : Cell(p) \in C /\ Cell(p) \notin DOMAIN map
      /\ \A p \in P : Marked(p) \in C /\ Marked(p) \notin DOMAIN map
  BY BackAt
<1>4. \A c \in C : (\A p \in Neutralized : c # Cell(p)) => Hushed(c) = c
  BY HushAt
<1>5. \A c \in C : Hushed(c) # c => \E p \in P : Hushed(c) = Marked(p)
  BY HushAt
<1>6. PutBack(X, map) = Spread(X, b) /\ PutBack(Neutralize(X), map) = Spread(Neutralize(X), b)
  BY <1>1, PutBackSpreads
<1>7. \A Y \in Seq(C) : Neutralize(Y) = Spread(Y, h)
  BY NeutralizeSpreads
<1>. HIDE DEF h, b, C
<1>8. \A c \in C : Spread(<<c>>, b) = b[c] /\ Spread(<<c>>, h) = h[c]
  BY <1>1, SpreadOne
<1>9. ASSUME NEW c \in C, c \notin DOMAIN map PROVE Spread(h[c], b) = Spread(b[c], h)
  <2>1. Hushed(c) \notin DOMAIN map
    BY <1>3, <1>5, <1>9
  <2>2. b[Hushed(c)] = <<Hushed(c)>> /\ b[c] = <<c>>
    BY <1>2, <1>3, <1>9, <2>1
  <2>. QED BY <1>2, <1>8, <2>2
<1>10. ASSUME NEW c \in C, c \in DOMAIN map PROVE Spread(h[c], b) = Spread(b[c], h)
  <2>1. c.k \in Kinds /\ c.v \in Values
    BY <1>10, CellFacts DEF OfTokens, Entries
  <2>2. \A p : c # Cell(p)
    BY <2>1, CellFacts DEF Kinds
  <2>3. Hushed(c) = c
    BY <1>4, <2>2
  <2>4. Spread(h[c], b) = Spelled(c.v)
    BY <1>2, <1>3, <1>8, <1>10, <2>3
  <2>5. \A p \in Single \cup {"jim"} : Cell(p) \in C /\ h[Cell(p)] = <<Cell(p)>>
    <3>1. TAKE p \in Single \cup {"jim"}
    <3>2. p \in P /\ p \notin Neutralized
      BY DEF Named, Single, Neutralized
    <3>3. Cell(p) \in C /\ \A q \in Neutralized : Cell(p) # Cell(q)
      BY <1>3, <3>2, CellFacts
    <3>. QED BY <1>2, <1>4, <3>3
  <2>6. Spelled(c.v) \in Seq(C) /\ \A i \in 1..Len(Spelled(c.v)) : h[Spelled(c.v)[i]] = <<Spelled(c.v)[i]>>
    <3>1. ASSUME NEW p \in Single, c.v = <<p>>
          PROVE  Spelled(c.v) \in Seq(C)
                   /\ \A i \in 1..Len(Spelled(c.v)) : h[Spelled(c.v)[i]] = <<Spelled(c.v)[i]>>
      <4>1. Spelled(c.v) = <<Cell(p)>>
        BY <3>1, Spellings
      <4>2. PICK x \in C : x = Cell(p) /\ h[x] = <<x>>
        BY <2>5
      <4>3. <<x>> \in Seq(C) /\ Len(<<x>>) = 1 /\ \A i \in 1..1 : <<x>>[i] = x
        OBVIOUS
      <4>. QED BY <4>1, <4>2, <4>3
    <3>2. CASE c.v = Full
      <4>1. Spelled(c.v) = <<Cell("jim"), Cell("bob")>>
        BY <3>2, Spellings
      <4>2. PICK x \in C, y \in C : x = Cell("jim") /\ h[x] = <<x>> /\ y = Cell("bob") /\ h[y] = <<y>>
        BY <2>5 DEF Single
      <4>3. <<x, y>> \in Seq(C) /\ Len(<<x, y>>) = 2 /\ \A i \in 1..2 : <<x, y>>[i] = x \/ <<x, y>>[i] = y
        OBVIOUS
      <4>. QED BY <4>1, <4>2, <4>3
    <3>. QED BY <2>1, <3>1, <3>2 DEF Values
  <2>7. Spread(Spelled(c.v), h) = Spelled(c.v)
    BY <1>1, <2>6, SpreadSame
  <2>. QED BY <1>3, <1>10, <2>4, <2>7
<1>11. SpreadTwice(C, h, b) = SpreadTwice(C, b, h)
  <2>1. \A c \in C : Spread(h[c], b) = Spread(b[c], h)
    BY <1>9, <1>10
  <2>. QED BY <2>1 DEF SpreadTwice
<1>12. X \in Seq(C)
  BY DEF C
<1>13. Spread(Spread(X, h), b) = Spread(X, SpreadTwice(C, h, b))
         /\ Spread(Spread(X, b), h) = Spread(X, SpreadTwice(C, b, h))
  <2>1. Spread(Spread(X, h), b) = Spread(X, SpreadTwice(C, h, b))
    BY <1>1, <1>12, SpreadTwiceOver
  <2>2. Spread(Spread(X, b), h) = Spread(X, SpreadTwice(C, b, h))
    BY <1>1, <1>12, SpreadTwiceOver
  <2>. QED BY <2>1, <2>2
<1>14. Spread(X, b) \in Seq(C)
  BY <1>1, <1>12, SpreadType
<1>. QED BY <1>1, <1>6, <1>7, <1>11, <1>13, <1>14

(* What the hybrid pipeline hands over is a text of the same cells, and    *)
(* the text it was given when there is nothing to find.                    *)
LEMMA HybridFits ==
  ASSUME NEW P, Named(P), NEW T \in Seq(TextCells(P)), NEW h \in HybridOutcomes(T)
  PROVE  h.text \in Seq(Cells(P)) /\ (MatchEnds(T) = {} => h.text = T)
<1>. DEFINE firsts == {i \in MatchEnds(T) : \A j \in MatchEnds(T) :
                   j < i => MatchAt(T, j) # MatchAt(T, i)}
            Shown(i) == IF i \in firsts THEN <<MaskToken(MatchAt(T, i).type, <<>>)>>
                  ELSE IF i + 1 \in firsts /\ Len(MatchAt(T, i + 1).value) = 2
                  THEN <<>> ELSE <<T[i]>>
            s == [i \in DOMAIN T |-> Shown(i)]
<1>1. h.text = T \/ h.text = FlattenSeq(s)
  BY DEF HybridOutcomes
<1>2. DOMAIN T = 1..Len(T) /\ Len(T) \in Nat /\ \A i \in 1..Len(T) : T[i] \in TextCells(P)
  OBVIOUS
<1>3. TextCells(P) \subseteq Cells(P)
  BY DEF Cells
<1>4. T \in Seq(Cells(P))
  BY <1>3
<1>5. \A i \in firsts : MaskToken(MatchAt(T, i).type, <<>>) \in Cells(P)
  <2>1. \A i \in MatchEnds(T) : MatchAt(T, i) \in Entries
    BY MatchFits
  <2>. QED BY <2>1 DEF Entries, Cells
<1>6. firsts \subseteq MatchEnds(T)
  OBVIOUS
<1>. HIDE DEF firsts
<1>7. \A i \in 1..Len(T) : Shown(i) \in Seq(Cells(P))
  <2>1. TAKE i \in 1..Len(T)
  <2>2. <<>> \in Seq(Cells(P)) /\ <<T[i]>> \in Seq(Cells(P))
    BY <1>2, <1>3
  <2>3. i \in firsts => <<MaskToken(MatchAt(T, i).type, <<>>)>> \in Seq(Cells(P))
    BY <1>5
  <2>. QED BY <2>2, <2>3
<1>8. s \in Seq(Seq(Cells(P)))
  <2>. HIDE DEF Shown
  <2>1. s \in [1..Len(T) -> Seq(Cells(P))]
    BY <1>2, <1>7
  <2>. HIDE DEF s
  <2>. QED BY <1>2, <2>1, RowOf
<1>9. FlattenSeq(s) \in Seq(Cells(P))
  <2>. HIDE DEF s
  <2>. QED BY <1>8, FlatType
<1>10. ASSUME MatchEnds(T) = {} PROVE FlattenSeq(s) = T
  <2>1. firsts = {}
    BY <1>6, <1>10
  <2>2. s = [i \in DOMAIN T |-> <<T[i]>>]
    BY <2>1
  <2>. HIDE DEF s
  <2>. QED BY <2>2, FlatSingles
<1>. QED BY <1>1, <1>4, <1>9, <1>10

(* Harmless text has nothing to find, to neutralise or to hit.             *)
LEMMA HarmlessText ==
  ASSUME NEW T, Said(T) \subseteq Harmless
  PROVE  /\ MatchEnds(T) = {} /\ Said(T) \cap Neutralized = {} /\ ~RegexHit(T)
         /\ Said(T) \cap LitePhrases = {} /\ UNION {Regexes(p) : p \in Said(T)} = {}
         /\ MaliciousScore(T) = 0 /\ ContextRisk(T) = 0
<1>1. MatchEnds(T) = {}
  <2>1. SUFFICES ASSUME NEW i \in MatchEnds(T) PROVE FALSE
    OBVIOUS
  <2>2. i \in DOMAIN T /\ T[i].k = "text" /\ T[i].v[1] \in Single
    BY DEF MatchEnds, TypeOf, Single
  <2>3. T[i].v[1] \in Said(T)
    BY <2>2 DEF Said
  <2>. QED BY <2>2, <2>3 DEF Harmless, Single
<1>2. Said(T) \cap Neutralized = {} /\ Said(T) \cap LitePhrases = {}
  BY DEF Harmless, Neutralized, LitePhrases
<1>3. \A p \in Said(T) : Regexes(p) = {}
  BY DEF Harmless, Regexes
<1>4. ~RegexHit(T) /\ UNION {Regexes(p) : p \in Said(T)} = {}
  BY <1>3 DEF RegexHit
<1>5. MaliciousScore(T) = 0 /\ ContextRisk(T) = 0
  BY DEF Harmless, MaliciousScore, ContextRisk
<1>. QED BY <1>1, <1>2, <1>4, <1>5

(* On such a text a low probability is neither a hit nor a block.          *)
LEMMA LowIsNoHit ==
  ASSUME NEW T, Said(T) \subseteq Harmless, NEW used, NEW s \in (0..One) \X (0..One)
  PROVE  /\ InjectionDetect(used, T, s).hit = FALSE
         /\ InjectionDetect(used, T, s).p \in Int
         /\ InjectionDetect(used, T, s).p < Times(Bands(used).block_min, Percent(94)) =>
              InjectionDetect(used, T, s).verdict \in {"SAFE", "REVIEW"}
<1>1. RegexHit(T) = FALSE /\ Said(T) \cap LitePhrases = {}
  <2>1. ~RegexHit(T) /\ Said(T) \cap LitePhrases = {}
    BY HarmlessText
  <2>2. RegexHit(T) \in BOOLEAN
    BY DEF RegexHit
  <2>. QED BY <2>1, <2>2
<1>2. \A a, b \in Int : Times(a, b) \in Int
  BY DEF Times, One
<1>3. \A a, b, c \in Int : NoisyOr(a, b, c) \in Int
  <2>1. One \in Int
    BY DEF One
  <2>2. \A x, y \in Int : x - y \in Int
    OBVIOUS
  <2>3. TAKE a, b, c \in Int
  <2>4. One - a \in Int /\ One - b \in Int /\ One - c \in Int
    BY <2>1, <2>2
  <2>5. Times(Times(One - a, One - b), One - c) \in Int
    BY <1>2, <2>4
  <2>. QED BY <2>1, <2>2, <2>5 DEF NoisyOr
<1>4. s[1] \in Int /\ s[2] \in Int
  <2>1. \A A : \A x \in A \X A : x[1] \in A /\ x[2] \in A
    OBVIOUS
  <2>2. s[1] \in 0..One /\ s[2] \in 0..One
    BY <2>1
  <2>. QED BY <2>2
<1>5. \A p \in Int : \A m : p < Times(Bands(m).block_min, Percent(94))
        => Bucket(p, Bands(m)) \in {"SAFE", "REVIEW"}
  <2>1. TAKE p \in Int
  <2>2. TAKE m
  <2>3. Bands(m).block_min \in {9956, 9972}
    BY DEF Bands
  <2>4. Times(9956, Percent(94)) = 9358 /\ Times(9972, Percent(94)) = 9373
    BY DEF Times, Percent, One
  <2>. QED BY <2>3, <2>4 DEF Bucket
<1>6. CASE used = "lite"
  <2>. DEFINE p == NoisyOr(0, AtMost(Percent(45), s[1]), s[2])
  <2>1. InjectionDetect(used, T, s) = [verdict |-> Bucket(p, Bands("lite")), p |-> p, hit |-> FALSE]
    BY <1>1, <1>6 DEF InjectionDetect, LiteDetect
  <2>2. AtMost(Percent(45), s[1]) \in Int /\ 0 \in Int
    BY <1>4 DEF AtMost, Percent
  <2>3. p \in Int
    BY <1>3, <1>4, <2>2
  <2>. HIDE DEF p
  <2>. QED BY <1>5, <1>6, <2>1, <2>3
<1>7. CASE used = "regex_only"
  <2>1. InjectionDetect(used, T, s) = [verdict |-> "SAFE", p |-> Percent(5), hit |-> FALSE]
    BY <1>1, <1>7 DEF InjectionDetect, PatternDetect
  <2>2. Percent(5) \in Int
    BY DEF Percent
  <2>. HIDE DEF Percent
  <2>. QED BY <2>1, <2>2
<1>8. CASE used \notin {"lite", "regex_only"}
  <2>. DEFINE p == NoisyOr(s[1], s[2], 0)
  <2>1. InjectionDetect(used, T, s) = [verdict |-> Bucket(p, Bands("ensemble")), p |-> p, hit |-> FALSE]
    BY <1>1, <1>8 DEF InjectionDetect, EnsembleDetect
  <2>2. p \in Int
    BY <1>3, <1>4
  <2>3. Bands("ensemble") = Bands(used)
    BY <1>8 DEF Bands
  <2>. HIDE DEF p
  <2>. QED BY <1>5, <2>1, <2>2, <2>3
<1>. QED BY <1>6, <1>7, <1>8

(* Below the blocking band it gives no threat, and no alarm.               *)
LEMMA LowIsSafe ==
  ASSUME NEW T, Said(T) \subseteq Harmless, MaskPii(T) = T, MaskTokens(T) = {}, Neutralize(T) = T,
         NEW used, NEW mode, NEW m, NEW rev, NEW s \in (0..One) \X (0..One),
         InjectionDetect(used, T, s).p < Times(Bands(used).block_min, Percent(94))
  PROVE  /\ Layer(T, m, mode, InjectionDetect(used, T, s), rev).text = T
         /\ Layer(T, m, mode, InjectionDetect(used, T, s), rev).safe = TRUE
         /\ Layer(T, m, mode, InjectionDetect(used, T, s), rev).threats = {}
<1>. DEFINE f == InjectionDetect(used, T, s)
            b == Layer(T, m, mode, f, rev)
<1>1. f.hit = FALSE /\ f.p \in Int /\ f.verdict \in {"SAFE", "REVIEW"}
  BY LowIsNoHit
<1>2. MaliciousScore(T) = 0 /\ ContextRisk(T) = 0
  BY HarmlessText
<1>3. f.p < 9373
  <2>1. Bands(used).block_min \in {9956, 9972}
    BY DEF Bands
  <2>2. Times(9956, Percent(94)) = 9358 /\ Times(9972, Percent(94)) = 9373
    BY DEF Times, Percent, One
  <2>. HIDE DEF f
  <2>3. f.p < Times(Bands(used).block_min, Percent(94))
    BY DEF f
  <2>. QED BY <1>1, <2>1, <2>2, <2>3
<1>. HIDE DEF f
<1>4. InjectionThreats(mode, f, T) = {}
  <2>1. ~Escalates(mode, f)
    <3>1. Bands(mode).block_min \in {9956, 9972}
      BY DEF Bands
    <3>2. Times(9956, Percent(95)) = 9458 /\ Times(9972, Percent(95)) = 9473
      BY DEF Times, Percent, One
    <3>. QED BY <1>1, <1>3, <3>1, <3>2 DEF Escalates
  <2>. QED BY <1>1, <2>1 DEF InjectionThreats
<1>5. InjectionScore(f) \in Int /\ InjectionScore(f) < 9373
  BY <1>1, <1>3 DEF InjectionScore
<1>6. \A x \in Int : x < 9373 => ContentSafe(ThreatLevel(SecurityScore(x, 0, 0, 0)), {}) = TRUE
  <2>1. SUFFICES ASSUME NEW x \in Int, x < 9373
                 PROVE  ContentSafe(ThreatLevel(SecurityScore(x, 0, 0, 0)), {}) = TRUE
    OBVIOUS
  <2>2. x < 9373
    BY <2>1
  <2>3. PiiFloor(0) = 0 /\ AtMost(One, 0 * Percent(20)) = 0
    BY DEF PiiFloor, AtMost, One, Percent
  <2>4. SecurityScore(x, 0, 0, 0) < 6000
    BY <2>2, <2>3 DEF SecurityScore, Higher, AtMost, One
  <2>5. ThreatLevel(SecurityScore(x, 0, 0, 0)) \in {"LOW", "MEDIUM"}
    <3>. DEFINE y == SecurityScore(x, 0, 0, 0)
    <3>1. y \in Int
      BY <2>3 DEF SecurityScore, Higher, AtMost, One
    <3>. HIDE DEF y
    <3>2. ThreatLevel(y) \in {"LOW", "MEDIUM"}
      BY <2>4, <3>1 DEF ThreatLevel, Percent, y
    <3>. QED BY <3>2 DEF y
  <2>. QED BY <2>5 DEF ContentSafe
<1>7. Cardinality({}) = 0
  BY FS_EmptySet
<1>8. /\ b.text = T /\ b.threats = {}
      /\ b.safe = ContentSafe(ThreatLevel(SecurityScore(InjectionScore(f), 0, 0, 0)), {})
  BY <1>2, <1>4, <1>7 DEF Layer
<1>. QED BY <1>5, <1>6, <1>8 DEF f

-----------------------------------------------------------------------------
(* What is handed over and what is returned                                *)

(* The text that is judged is the one that was asked about, or what the    *)
(* hybrid pipeline made of it; and the answer is the layer's, or it hides. *)
Handed(t) ==
  \/ work[t].hybrid = FALSE /\ work[t].text = req[t].text
  \/ work[t].hybrid = TRUE /\ \E h \in HybridOutcomes(req[t].text) : work[t].text = h.text
Returned(t) ==
  \/ work[t].judged = TRUE /\ reply[t].text = Placeholder
  \/ /\ reply[t].text = Base(t).text /\ reply[t].map = Base(t).map
     /\ work[t].judged = FALSE => reply[t].threats = Base(t).threats
TextInv(t) ==
  /\ pc[t] \in {"idle", "resolve", "mask"} => work[t].hybrid = FALSE
  /\ pc[t] \in {"check", "create", "return", "detect", "score", "classify"} \/ work[t].base # {} => Handed(t)
  /\ Secured(t) => Returned(t)

WholeInv == VerdictInv /\ \A t \in Threads : TextInv(t)

(* It holds before any call.                                               *)
LEMMA WholeInit == SecInit => WholeInv
<1>. SUFFICES ASSUME SecInit PROVE WholeInv
  OBVIOUS
<1>1. ASSUME NEW t \in Threads PROVE TextInv(t)
  BY DEF TextInv, SecInit, NoCall, Secured, Answered
<1>. QED BY <1>1, VerdictInit DEF WholeInv

(* What holds of a thread depends on that thread alone.                    *)
LEMMA OtherTexts ==
  ASSUME NEW u \in Threads, TextInv(u),
         pc'[u] = pc[u], req'[u] = req[u], work'[u] = work[u], reply'[u] = reply[u]
  PROVE  TextInv(u)'
BY DEF TextInv, Handed, Returned, Secured, Answered, Base

(* A step of one thread, by what it does to the text of that thread.       *)
LEMMA OneText ==
  ASSUME WholeInv, NEW t \in Threads, TextInv(t)', VerdictInv',
         \A u \in Threads : u # t => pc'[u] = pc[u] /\ req'[u] = req[u] /\ work'[u] = work[u]
           /\ reply'[u] = reply[u]
  PROVE  WholeInv'
<1>1. \A u \in Threads : TextInv(u)'
  BY OtherTexts DEF WholeInv
<1>. QED BY <1>1 DEF WholeInv

(* Before there is a result nothing is returned that is to fit it.         *)
LEMMA BeforeResult ==
  ASSUME NEW t \in Threads, work'[t].base = {},
         pc'[t] \in {"idle", "resolve", "mask"} => work'[t].hybrid = FALSE,
         pc'[t] \in {"check", "create", "return", "detect", "score", "classify"} => Handed(t)'
  PROVE  TextInv(t)'
BY DEF TextInv, Secured

(* A call that starts has no text yet, and may be answered at once.        *)
LEMMA TextCall ==
  ASSUME WholeInv, NEW t \in Threads, Call(t), VerdictInv'
  PROVE  WholeInv'
<1>1. /\ pc[t] = "idle" /\ work' = work
      /\ \A u \in Threads : u # t => pc'[u] = pc[u] /\ req'[u] = req[u] /\ reply'[u] = reply[u]
      /\ pc'[t] \in {"done", "resolve"}
  <2>1. PICK r \in Asks[t] :
          /\ req' = [req EXCEPT ![t] = r]
          /\ \/ Answer(t, "answer", Plain(r.text))
             \/ Goto(t, "resolve") /\ reply' = reply
    BY DEF Call
  <2>. QED BY <2>1 DEF Call, Idle, Answer, Goto, WholeInv, VerdictInv, SecShape
<1>2. work[t].base = {} /\ work[t].hybrid = FALSE
  BY <1>1 DEF WholeInv, VerdictInv, CallInv, TextInv
<1>3. TextInv(t)'
  BY <1>1, <1>2, BeforeResult
<1>. QED BY <1>1, <1>3, OneText

(* A step to a place inside the call that leaves its text as it is.        *)
LEMMA TextKept ==
  ASSUME WholeInv, NEW t \in Threads, VerdictInv',
         pc[t] \in {"check", "create", "return", "detect", "score"},
         pc'[t] \notin {"idle", "resolve", "mask"}, req' = req,
         work'[t].text = work[t].text, work'[t].hybrid = work[t].hybrid,
         work'[t].base = {} \/ pc'[t] # "done",
         \A u \in Threads : u # t => pc'[u] = pc[u] /\ work'[u] = work[u] /\ reply'[u] = reply[u]
  PROVE  WholeInv'
<1>1. Handed(t)
  BY DEF WholeInv, TextInv
<1>2. Handed(t)'
  BY <1>1 DEF Handed
<1>3. ~Secured(t)'
  BY DEF Secured, Answered, VerdictInv, CallInv
<1>4. TextInv(t)'
  BY <1>2, <1>3 DEF TextInv
<1>. QED BY <1>4, OneText

(* The text that is judged is settled by the masking step and stays.       *)
LEMMA TextFinds ==
  ASSUME WholeInv, NEW t \in Threads, VerdictInv',
         Resolve(t) \/ MaskWithHybrid(t) \/ LeaveToLayer(t) \/ CheckDetector(t)
           \/ CreateDetector(t) \/ ReturnDetector(t) \/ Detect(t) \/ ScoreLayer(t)
  PROVE  WholeInv'
<1>1. SecShape /\ CallInv(t) /\ TextInv(t) /\ DOMAIN work[t] = WorkFields
  BY DEF WholeInv, VerdictInv, CallInv
<1>2. CASE Resolve(t)
  <2>1. pc[t] = "resolve" /\ req' = req
    BY <1>2 DEF Resolve
  <2>2. work[t].base = {} /\ work[t].hybrid = FALSE
    BY <1>1, <2>1 DEF CallInv, TextInv
  <2>3. /\ pc'[t] \in {"done", "mask"} /\ work'[t].base = {} /\ work'[t].hybrid = FALSE
        /\ \A u \in Threads : u # t => pc'[u] = pc[u] /\ work'[u] = work[u] /\ reply'[u] = reply[u]
    <3>1. CASE RaiseError(t) /\ UNCHANGED work
      BY <1>1, <2>2, <3>1 DEF RaiseError, Answer, Goto, SecShape
    <3>2. CASE /\ Goto(t, "mask") /\ UNCHANGED reply
               /\ work' = [work EXCEPT ![t].mode = ResolvedMode(req[t].mode)]
      BY <1>1, <2>2, <3>2 DEF Goto, SecShape, WorkFields
    <3>. QED BY <1>2, <3>1, <3>2 DEF Resolve
  <2>4. TextInv(t)'
    BY <2>3, BeforeResult
  <2>. QED BY <2>1, <2>3, <2>4, OneText
<1>3. CASE MaskWithHybrid(t) \/ LeaveToLayer(t)
  <2>1. pc[t] = "mask" /\ req' = req /\ reply' = reply /\ pc' = [pc EXCEPT ![t] = "check"]
    BY <1>3 DEF MaskWithHybrid, LeaveToLayer, Goto, Shared
  <2>2. work[t].base = {} /\ work[t].hybrid = FALSE
    BY <1>1, <2>1 DEF CallInv, TextInv
  <2>3. /\ work'[t].base = {} /\ Handed(t)'
        /\ \A u \in Threads : u # t => work'[u] = work[u]
    <3>1. CASE MaskWithHybrid(t)
      <4>1. PICK h \in HybridOutcomes(req[t].text) :
              work' = [work EXCEPT ![t].text = h.text, ![t].hybrid = TRUE,
                         ![t].map = IF req[t].reversible THEN h.map ELSE <<>>]
        BY <3>1 DEF MaskWithHybrid
      <4>2. /\ work'[t].base = {} /\ work'[t].hybrid = TRUE /\ work'[t].text = h.text
            /\ \A u \in Threads : u # t => work'[u] = work[u]
        BY <1>1, <2>2, <4>1 DEF SecShape, WorkFields
      <4>. QED BY <2>1, <4>2 DEF Handed
    <3>2. CASE LeaveToLayer(t)
      <4>1. work' = [work EXCEPT ![t].text = req[t].text]
        BY <3>2 DEF LeaveToLayer
      <4>2. /\ work'[t].base = {} /\ work'[t].hybrid = FALSE /\ work'[t].text = req[t].text
            /\ \A u \in Threads : u # t => work'[u] = work[u]
        BY <1>1, <2>2, <4>1 DEF SecShape, WorkFields
      <4>. QED BY <2>1, <4>2 DEF Handed
    <3>. QED BY <1>3, <3>1, <3>2
  <2>4. pc'[t] = "check" /\ \A u \in Threads : u # t => pc'[u] = pc[u]
    BY <1>1, <2>1 DEF SecShape
  <2>5. TextInv(t)'
    BY <2>3, <2>4, BeforeResult
  <2>. QED BY <2>1, <2>3, <2>4, <2>5, OneText
<1>4. CASE CheckDetector(t) \/ CreateDetector(t) \/ ReturnDetector(t)
  <2>1. /\ pc[t] \in {"check", "create", "return"} /\ req' = req /\ reply' = reply
        /\ \E l \in {"create", "return", "detect"} : pc' = [pc EXCEPT ![t] = l]
        /\ work' = work \/ work' = [work EXCEPT ![t].used = detector]
    BY <1>4 DEF CheckDetector, CreateDetector, ReturnDetector, Goto, Shared
  <2>2. /\ pc'[t] \in {"create", "return", "detect"}
        /\ work'[t].text = work[t].text /\ work'[t].hybrid = work[t].hybrid
        /\ \A u \in Threads : u # t => pc'[u] = pc[u] /\ work'[u] = work[u] /\ reply'[u] = reply[u]
    BY <1>1, <2>1 DEF SecShape, WorkFields
  <2>. QED BY <2>1, <2>2, TextKept
<1>5. CASE Detect(t)
  <2>1. pc[t] = "detect" /\ req' = req /\ work[t].base = {}
    BY <1>1, <1>5 DEF Detect, CallInv
  <2>2. /\ pc'[t] \in {"done", "score"} /\ work'[t].base = {}
        /\ work'[t].text = work[t].text /\ work'[t].hybrid = work[t].hybrid
        /\ \A u \in Threads : u # t => pc'[u] = pc[u] /\ work'[u] = work[u] /\ reply'[u] = reply[u]
    <3>1. CASE RaiseError(t) /\ UNCHANGED work
      BY <1>1, <2>1, <3>1 DEF RaiseError, Answer, Goto, SecShape
    <3>2. ASSUME NEW x, Goto(t, "score"), UNCHANGED reply, work' = [work EXCEPT ![t].found = x]
          PROVE  /\ pc'[t] \in {"done", "score"} /\ work'[t].base = {}
                 /\ work'[t].text = work[t].text /\ work'[t].hybrid = work[t].hybrid
                 /\ \A u \in Threads : u # t => pc'[u] = pc[u] /\ work'[u] = work[u] /\ reply'[u] = reply[u]
      BY <1>1, <2>1, <3>2 DEF Goto, SecShape, WorkFields
    <3>. QED BY <1>5, <3>1, <3>2 DEF Detect
  <2>. QED BY <2>1, <2>2, TextKept
<1>6. CASE ScoreLayer(t)
  <2>1. /\ pc[t] = "score" /\ req' = req /\ reply' = reply /\ pc' = [pc EXCEPT ![t] = "classify"]
        /\ work' = [work EXCEPT ![t].base = {LayerResult(req[t], work[t])}]
    BY <1>6 DEF ScoreLayer, Goto, Shared
  <2>2. /\ pc'[t] = "classify" /\ work'[t].text = work[t].text /\ work'[t].hybrid = work[t].hybrid
        /\ \A u \in Threads : u # t => pc'[u] = pc[u] /\ work'[u] = work[u] /\ reply'[u] = reply[u]
    BY <1>1, <2>1 DEF SecShape, WorkFields
  <2>. QED BY <2>1, <2>2, TextKept
<1>. QED BY <1>2, <1>3, <1>4, <1>5, <1>6

(* The answer is the text of the layer, or the placeholder hides it.       *)
LEMMA TextAnswers ==
  ASSUME WholeInv, NEW t \in Threads, ReturnUnjudged(t) \/ Judge(t), VerdictInv'
  PROVE  WholeInv'
<1>1. pc[t] = "classify" /\ req' = req
  BY DEF ReturnUnjudged, Judge, Shared
<1>2. SecShape /\ CallInv(t) /\ TextInv(t) /\ DOMAIN work[t] = WorkFields
  BY DEF WholeInv, VerdictInv, CallInv
<1>3. Handed(t) /\ work[t].judged = FALSE
  BY <1>1, <1>2 DEF TextInv, CallInv
<1>4. CASE ReturnUnjudged(t)
  <2>1. /\ pc' = [pc EXCEPT ![t] = "done"] /\ work' = work
        /\ reply' = [reply EXCEPT ![t] = [kind |-> "answer", text |-> Base(t).text, safe |-> Base(t).safe,
                      level |-> Base(t).level, threats |-> Base(t).threats, map |-> Base(t).map]]
    BY <1>4, Zenon DEF ReturnUnjudged, Answer, Goto
  <2>2. /\ pc'[t] = "done" /\ reply'[t].text = Base(t).text /\ reply'[t].map = Base(t).map
        /\ reply'[t].threats = Base(t).threats
        /\ \A u \in Threads : u # t => pc'[u] = pc[u] /\ reply'[u] = reply[u]
    BY <1>2, <2>1 DEF SecShape
  <2>3. Base(t)' = Base(t) /\ Handed(t)'
    BY <1>1, <1>3, <2>1 DEF Base, Handed
  <2>4. TextInv(t)'
    BY <2>2, <2>3 DEF TextInv, Returned
  <2>. QED BY <1>1, <2>1, <2>2, <2>4, OneText
<1>5. CASE Judge(t)
  <2>1. work' = [work EXCEPT ![t].judged = TRUE]
    BY <1>5 DEF Judge
  <2>2. /\ work'[t].judged = TRUE /\ work'[t].base = work[t].base
        /\ work'[t].text = work[t].text /\ work'[t].hybrid = work[t].hybrid
        /\ \A u \in Threads : u # t => work'[u] = work[u]
    BY <1>2, <2>1 DEF SecShape, WorkFields
  <2>3. Base(t)' = Base(t) /\ Handed(t)'
    BY <1>1, <1>3, <2>2 DEF Base, Handed
  <2>4. PICK ml \in MlScores :
          IF Blocks(req[t], Classify(Base(t).text, ml)) THEN RaiseError(t)
          ELSE Answer(t, "answer", Merge(Base(t), Classify(Base(t).text, ml)))
    BY <1>5 DEF Judge
  <2>5. CASE RaiseError(t)
    <3>1. /\ pc'[t] = "done" /\ reply'[t].kind = OnError(req[t]).kind /\ reply'[t].text = OnError(req[t]).text
          /\ \A u \in Threads : u # t => pc'[u] = pc[u] /\ reply'[u] = reply[u]
      BY <1>2, <2>5 DEF RaiseError, Answer, Goto, Plain, SecShape
    <3>2. Secured(t)' => reply'[t].text = Placeholder
      BY <1>1, <3>1 DEF Secured, Answered, OnError
    <3>3. TextInv(t)'
      BY <2>2, <2>3, <3>1, <3>2 DEF TextInv, Returned
    <3>. QED BY <1>1, <2>2, <3>1, <3>3, OneText
  <2>6. CASE Answer(t, "answer", Merge(Base(t), Classify(Base(t).text, ml)))
    <3>. DEFINE b == Base(t)
                m == Merge(b, Classify(b.text, ml))
    <3>1. /\ pc'[t] = "done" /\ reply'[t].text = m.text /\ reply'[t].map = m.map
          /\ \A u \in Threads : u # t => pc'[u] = pc[u] /\ reply'[u] = reply[u]
      BY <1>2, <2>6 DEF Answer, Goto, SecShape
    <3>2. DOMAIN b = {"safe", "level", "threats", "text", "map"}
      <4>1. b = LayerResult(req[t], work[t])
        BY <1>1, <1>2, BaseOfOne DEF CallInv
      <4>2. PICK r, c : r = req[t] /\ c = work[t]
        OBVIOUS
      <4>3. DOMAIN LayerResult(r, c) = {"safe", "level", "threats", "text", "map"}
        BY ResultIsTyped
      <4>. HIDE DEF b
      <4>. QED BY <4>1, <4>2, <4>3
    <3>3. m.text = b.text /\ m.map = b.map
      <4>. HIDE DEF b
      <4>. QED BY <3>2 DEF Merge
    <3>4. TextInv(t)'
      BY <2>2, <2>3, <3>1, <3>3 DEF TextInv, Returned
    <3>. QED BY <1>1, <2>2, <3>1, <3>4, OneText
  <2>. QED BY <2>4, <2>5, <2>6
<1>. QED BY <1>4, <1>5

(* Every step keeps it.                                                    *)
LEMMA WholeStep == WholeInv /\ [SecNext]_secvars => WholeInv'
<1>. SUFFICES ASSUME WholeInv, [SecNext]_secvars PROVE WholeInv'
  OBVIOUS
<1>1. VerdictInv'
  BY VerdictStep DEF WholeInv
<1>2. ASSUME UNCHANGED <<pc, req, work, reply>> PROVE WholeInv'
  <2>1. \A t \in Threads : TextInv(t)'
    BY <1>2, OtherTexts DEF WholeInv
  <2>. QED BY <1>1, <2>1 DEF WholeInv
<1>3. CASE HardenedLoads \/ UNCHANGED secvars
  BY <1>2, <1>3 DEF HardenedLoads, secvars
<1>. QED BY <1>1, <1>3, TextCall, TextFinds, TextAnswers DEF SecNext

-----------------------------------------------------------------------------
(* What the answers are like                                               *)

(* What the layer makes of a text.                                         *)
LEMMA LayerText ==
  ASSUME NEW r, NEW c
  PROVE  /\ c.hybrid = FALSE /\ r.pii => LayerResult(r, c).text = Neutralize(MaskPii(c.text))
         /\ c.hybrid = FALSE /\ r.pii /\ r.reversible => LayerResult(r, c).map = MaskMap(MaskTokens(c.text))
         /\ c.hybrid = TRUE \/ (c.hybrid = FALSE /\ ~r.pii) => LayerResult(r, c).text = Neutralize(c.text)
<1>. DEFINE f == CHOOSE x \in c.found : TRUE
            b == Layer(c.text, r.pii /\ ~c.hybrid, c.mode, f, r.reversible)
<1>1. LayerResult(r, c) = IF c.hybrid THEN [b EXCEPT !.map = c.map] ELSE b
  BY DEF LayerResult
<1>2. /\ DOMAIN b = {"safe", "level", "threats", "text", "map"}
      /\ b.text = Neutralize(IF r.pii /\ ~c.hybrid THEN MaskPii(c.text) ELSE c.text)
      /\ b.map = IF r.reversible THEN MaskMap(IF r.pii /\ ~c.hybrid THEN MaskTokens(c.text) ELSE {}) ELSE <<>>
  <2>. HIDE DEF f
  <2>. QED BY Zenon DEF Layer
<1>. HIDE DEF b
<1>3. LayerResult(r, c).text = b.text
  BY <1>1, <1>2
<1>4. c.hybrid = FALSE => LayerResult(r, c).map = b.map
  BY <1>1
<1>. QED BY <1>2, <1>3, <1>4

(* Of an answered call: the text it was about, and what was made of it.    *)
LEMMA OfSecured ==
  ASSUME WholeInv, NEW t \in Threads, Secured(t)
  PROVE  /\ CallInv(t) /\ Returned(t) /\ Handed(t) /\ Detected(t) /\ Readable(req[t].text)
         /\ work[t].base = {LayerResult(req[t], work[t])} /\ Base(t) = LayerResult(req[t], work[t])
<1>1. CallInv(t) /\ TextInv(t) /\ work[t].base # {}
  BY DEF WholeInv, VerdictInv, Secured
<1>2. work[t].base = {LayerResult(req[t], work[t])} /\ Detected(t)
  BY <1>1 DEF CallInv
<1>3. Base(t) = LayerResult(req[t], work[t])
  BY <1>2, BaseOfOne
<1>4. Readable(req[t].text)
  <2>1. req[t] \in Asks[t] \/ req[t] = NoRequest
    BY <1>1 DEF CallInv
  <2>2. CASE req[t] \in Asks[t]
    BY <2>2, AsksAssumption
  <2>3. CASE req[t] = NoRequest
    <3>1. Readable(<<>>)
      BY DEF Readable
    <3>2. NoRequest.text = <<>>
      BY DEF NoRequest
    <3>. QED BY <2>3, <3>1, <3>2
  <2>. QED BY <2>1, <2>2, <2>3
<1>. QED BY <1>1, <1>2, <1>3, <1>4 DEF TextInv

(* The text that was judged is one of masks and phrases.                   *)
LEMMA JudgedText ==
  ASSUME WholeInv, NEW t \in Threads, Secured(t)
  PROVE  \E P : /\ Named(P) /\ req[t].text \in Seq(TextCells(P)) /\ work[t].text \in Seq(Cells(P))
                /\ \E X \in Seq(Cells(P)) : Base(t).text = Neutralize(X)
<1>1. /\ Handed(t) /\ Readable(req[t].text) /\ Base(t) = LayerResult(req[t], work[t])
  BY OfSecured
<1>2. PICK P : Named(P) /\ req[t].text \in Seq(TextCells(P)) /\ req[t].text \in Seq(Cells(P))
  <2>1. PICK T : T = req[t].text
    OBVIOUS
  <2>2. \E P : Named(P) /\ T \in Seq(TextCells(P)) /\ T \in Seq(Cells(P))
    BY <1>1, <2>1, ReadableIsText
  <2>. QED BY <2>1, <2>2
<1>3. PICK T \in Seq(TextCells(P)) : T = req[t].text
  BY <1>2
<1>4. work[t].text \in Seq(Cells(P))
  <2>1. \A h \in HybridOutcomes(T) : h.text \in Seq(Cells(P))
    BY <1>2, HybridFits
  <2>. QED BY <1>1, <1>2, <1>3, <2>1 DEF Handed
<1>5. MaskPii(T) \in Seq(Cells(P))
  BY <1>2, MaskingExact
<1>6. \E X \in Seq(Cells(P)) : Base(t).text = Neutralize(X)
  <2>1. PICK r, c : r = req[t] /\ c = work[t]
    OBVIOUS
  <2>2. /\ c.hybrid = FALSE /\ r.pii => LayerResult(r, c).text = Neutralize(MaskPii(c.text))
        /\ c.hybrid = TRUE \/ (c.hybrid = FALSE /\ ~r.pii) => LayerResult(r, c).text = Neutralize(c.text)
    BY LayerText
  <2>3. c.hybrid = FALSE => c.text = T
    BY <1>1, <1>3, <2>1 DEF Handed
  <2>4. c.hybrid \in {TRUE, FALSE} /\ c.text \in Seq(Cells(P)) /\ Base(t).text = LayerResult(r, c).text
    BY <1>1, <1>4, <2>1 DEF Handed
  <2>5. CASE c.hybrid = FALSE /\ r.pii
    BY <1>5, <2>2, <2>3, <2>4, <2>5
  <2>6. CASE c.hybrid = TRUE \/ (c.hybrid = FALSE /\ ~r.pii)
    BY <2>2, <2>4, <2>6
  <2>. QED BY <2>4, <2>5, <2>6
<1>. QED BY <1>2, <1>4, <1>6

(* Whatever path a text took, what is answered was neutralised.            *)
LEMMA AnswersAreNeutral == WholeInv => NeutralizedOnEveryPath
<1>. SUFFICES ASSUME WholeInv, NEW t \in Threads, Secured(t)
              PROVE  Said(reply[t].text) \cap Neutralized = {}
  BY DEF NeutralizedOnEveryPath
<1>1. PICK P : \E X \in Seq(Cells(P)) : Base(t).text = Neutralize(X)
  BY JudgedText
<1>2. PICK X \in Seq(Cells(P)) : Base(t).text = Neutralize(X)
  BY <1>1
<1>3. Said(Neutralize(X)) \cap Neutralized = {}
  BY NeutralizeHides
<1>4. Said(Placeholder) = {}
  BY DEF Said, Placeholder, Marked
<1>5. Returned(t)
  BY OfSecured
<1>. QED BY <1>2, <1>3, <1>4, <1>5 DEF Returned

(* Of a call whose values the layer masked: its text is the masked one.    *)
LEMMA OfLayered ==
  ASSUME WholeInv, NEW t \in Threads, Layered(t)
  PROVE  \E P : /\ Named(P) /\ req[t].text \in Seq(TextCells(P))
                /\ reply[t].text = Neutralize(MaskPii(req[t].text))
                /\ req[t].reversible => reply[t].map = MaskMap(MaskTokens(req[t].text))
<1>1. Secured(t) /\ req[t].pii /\ ~work[t].hybrid /\ reply[t].text # Placeholder
  BY DEF Layered
<1>2. Returned(t) /\ Handed(t) /\ Base(t) = LayerResult(req[t], work[t])
  BY <1>1, OfSecured
<1>3. PICK P : Named(P) /\ req[t].text \in Seq(TextCells(P))
  BY <1>1, JudgedText
<1>4. work[t].hybrid = FALSE /\ work[t].text = req[t].text
  BY <1>1, <1>2 DEF Handed
<1>5. reply[t].text = Base(t).text /\ reply[t].map = Base(t).map
  BY <1>1, <1>2 DEF Returned
<1>6. PICK r, c : r = req[t] /\ c = work[t]
  OBVIOUS
<1>7. /\ c.hybrid = FALSE /\ r.pii => LayerResult(r, c).text = Neutralize(MaskPii(c.text))
      /\ c.hybrid = FALSE /\ r.pii /\ r.reversible => LayerResult(r, c).map = MaskMap(MaskTokens(c.text))
  BY LayerText
<1>. QED BY <1>1, <1>2, <1>3, <1>4, <1>5, <1>6, <1>7

(* What the layer masked itself is masked everywhere, and reversibly.      *)
LEMMA LayerHidesAll == WholeInv => LayerMaskingIsExact
<1>. SUFFICES ASSUME WholeInv PROVE LayerMaskingIsExact
  OBVIOUS
<1>1. ASSUME NEW t \in Threads, Layered(t)
      PROVE  /\ \A e \in Range(PiiMatches(req[t].text)) :
                  \A i \in DOMAIN reply[t].text : ~HoldsAt(reply[t].text, i, e.value)
             /\ req[t].reversible => PutBack(reply[t].text, reply[t].map) = Neutralize(req[t].text)
  <2>1. PICK P : /\ Named(P) /\ req[t].text \in Seq(TextCells(P))
                 /\ reply[t].text = Neutralize(MaskPii(req[t].text))
                 /\ req[t].reversible => reply[t].map = MaskMap(MaskTokens(req[t].text))
    BY <1>1, OfLayered
  <2>2. PICK T \in Seq(TextCells(P)) : T = req[t].text
    BY <2>1
  <2>. DEFINE X == MaskPii(T)
              map == MaskMap(MaskTokens(T))
  <2>3. /\ X \in Seq(Cells(P)) /\ PutBack(X, map) = T
        /\ \A e \in Range(PiiMatches(T)) : Free(X, e.value)
    BY <2>1, MaskingExact
  <2>4. OfTokens(map)
    BY MaskMapFits
  <2>5. reply[t].text = Neutralize(X) /\ (req[t].reversible => reply[t].map = map)
    BY <2>1, <2>2
  <2>. HIDE DEF X, map
  <2>6. Neutralize(X) \in Seq(Cells(P)) /\ \A v : Free(X, v) => Free(Neutralize(X), v)
    BY <2>3, NeutralizeSpreads, NeutralizeHides
  <2>7. \A i \in DOMAIN Neutralize(X) : i \in Int
    <3>1. PICK Y \in Seq(Cells(P)) : Y = Neutralize(X)
      BY <2>6
    <3>2. \A i \in DOMAIN Y : i \in Int
      OBVIOUS
    <3>. QED BY <3>1, <3>2
  <2>8. PutBack(Neutralize(X), map) = Neutralize(T)
    BY <2>1, <2>3, <2>4, PutBackNeutralized
  <2>. QED BY <2>2, <2>3, <2>5, <2>6, <2>7, <2>8 DEF Free
<1>2. EveryOccurrenceMasked
  BY <1>1 DEF EveryOccurrenceMasked
<1>3. MapRestores
  BY <1>1 DEF MapRestores
<1>. QED BY <1>2, <1>3 DEF LayerMaskingIsExact

(* Harmless text below the blocking band comes back as it was, and safe.   *)
LEMMA NoAlarmAtAll == WholeInv => NoFalseAlarm
<1>. SUFFICES ASSUME WholeInv, NEW t \in Threads, Secured(t), Said(req[t].text) \subseteq Harmless, ~work[t].judged,
                     \A f \in work[t].found : f.p < Times(Bands(work[t].used).block_min, Percent(94))
              PROVE  reply[t].text = req[t].text /\ reply[t].safe /\ reply[t].threats = {}
  BY DEF NoFalseAlarm
<1>1. /\ CallInv(t) /\ Returned(t) /\ Handed(t) /\ Detected(t)
      /\ work[t].base = {LayerResult(req[t], work[t])} /\ Base(t) = LayerResult(req[t], work[t])
  BY OfSecured
<1>2. PICK P : Named(P) /\ req[t].text \in Seq(TextCells(P))
  BY JudgedText
<1>3. PICK T \in Seq(TextCells(P)) : T = req[t].text
  BY <1>2
<1>4. MatchEnds(T) = {} /\ Said(T) \cap Neutralized = {}
  BY <1>3, HarmlessText
<1>5. work[t].text = T
  <2>1. \A h \in HybridOutcomes(T) : h.text = T
    BY <1>2, <1>4, HybridFits
  <2>. QED BY <1>1, <1>3, <2>1 DEF Handed
<1>6. MaskPii(T) = T /\ MaskTokens(T) = {}
  BY <1>2, <1>4, MaskingExact
<1>7. Neutralize(T) = T
  <2>1. T \in Seq(Cells(P))
    <3>1. TextCells(P) \subseteq Cells(P)
      BY DEF Cells
    <3>. QED BY <3>1
  <2>. QED BY <1>4, <2>1, NeutralizeHides
<1>8. PICK s \in Scores : work[t].found = {InjectionDetect(work[t].used, T, s)}
  BY <1>1, <1>5 DEF Detected
<1>9. s \in (0..One) \X (0..One)
  BY ScoresAssumption
<1>10. Base(t).text = T /\ Base(t).safe = TRUE /\ Base(t).threats = {}
  <2>1. PICK r, c, used : r = req[t] /\ c = work[t] /\ used = work[t].used
    OBVIOUS
  <2>. DEFINE f == CHOOSE x \in c.found : TRUE
              b == Layer(c.text, r.pii /\ ~c.hybrid, c.mode, f, r.reversible)
  <2>2. f = InjectionDetect(used, T, s)
    BY <1>8, <2>1
  <2>3. InjectionDetect(used, T, s).p < Times(Bands(used).block_min, Percent(94))
    BY <1>8, <2>1
  <2>4. LayerResult(r, c) = IF c.hybrid THEN [b EXCEPT !.map = c.map] ELSE b
    BY DEF LayerResult
  <2>5. PICK m, mode, rev : m = (r.pii /\ ~c.hybrid) /\ mode = c.mode /\ rev = r.reversible
    OBVIOUS
  <2>6. b = Layer(T, m, mode, InjectionDetect(used, T, s), rev)
    BY <1>5, <2>1, <2>2, <2>5
  <2>7. /\ Layer(T, m, mode, InjectionDetect(used, T, s), rev).text = T
        /\ Layer(T, m, mode, InjectionDetect(used, T, s), rev).safe = TRUE
        /\ Layer(T, m, mode, InjectionDetect(used, T, s), rev).threats = {}
    <3>1. Said(T) \subseteq Harmless
      BY <1>3
    <3>. QED BY <1>6, <1>7, <1>9, <2>3, <3>1, LowIsSafe
  <2>8. DOMAIN Layer(T, m, mode, InjectionDetect(used, T, s), rev) = {"safe", "level", "threats", "text", "map"}
    BY LayerIsTyped
  <2>. HIDE DEF b
  <2>. QED BY <1>1, <2>1, <2>4, <2>6, <2>7, <2>8
<1>11. /\ pc[t] = "done" /\ work[t].judged = FALSE /\ work[t].base # {}
  BY <1>1 DEF CallInv, Secured, Answered, Returned
<1>. QED BY <1>1, <1>3, <1>10, <1>11 DEF CallInv, Returned

(* Whatever the threads ask, in any order: what a caller gets back fits     *)
(* what was judged.  No phrase that the layer replaces is left in it; while *)
(* the classifier has not judged, harmless text raises no alarm and the     *)
(* layer's verdict stands; and a caller that fails closed gets no text of a *)
(* blocked or failed call.                                                  *)
THEOREM AnswersFit == SecSpec => []AnswersFitVerdicts
<1>1. WholeInv => AnswersFitVerdicts
  <2>1. VerdictInv => SecTypeOK
    BY DEF VerdictInv, CallInv, SecTypeOK, Level
  <2>2. VerdictInv => FailClosedHides
    BY DEF VerdictInv, CallInv, FailClosedHides, MustHide
  <2>. QED BY <2>1, <2>2, LayerStands, AnswersAreNeutral, NoAlarmAtAll DEF AnswersFitVerdicts, WholeInv
<1>. QED BY <1>1, WholeInit, WholeStep, PTL DEF SecSpec

(* For texts of any length, with values anywhere in them and inside one    *)
(* another: the rule-based path leaves no occurrence of a value it found,  *)
(* and with its map the text comes back, but for what was neutralised.     *)
THEOREM MaskingIsExact == SecSpec => []LayerMaskingIsExact
BY LayerHidesAll, WholeInit, WholeStep, PTL DEF SecSpec

-----------------------------------------------------------------------------
(* Replacing the words of a text                                           *)

(* A replacement gives every word the words that take its place.           *)
Replacing == [Word -> Seq(Word)]
Row(s, f) == [i \in DOMAIN s |-> f[s[i]]]
RowOver(p, f) == [i \in DOMAIN p |-> Each(p[i], f)]

(* What each word gives way to, in its place.                              *)
LEMMA RowType ==
  ASSUME NEW f \in Replacing, NEW s \in Seq(Word)
  PROVE  /\ Row(s, f) \in Seq(Seq(Word)) /\ Len(Row(s, f)) = Len(s)
         /\ \A i \in 1..Len(s) : s[i] \in Word /\ Row(s, f)[i] = f[s[i]] /\ f[s[i]] \in Seq(Word)
         /\ Each(s, f) = FlattenSeq(Row(s, f)) /\ Each(s, f) \in Seq(Word)
<1>1. f \in [Word -> Seq(Word)]
  BY DEF Replacing
<1>2. Row(s, f) = Placed(s, f) /\ Each(s, f) = Spread(s, f)
  BY DEF Row, Placed, Each, Spread
<1>3. /\ Placed(s, f) \in Seq(Seq(Word)) /\ Len(Placed(s, f)) = Len(s)
      /\ \A i \in 1..Len(s) : s[i] \in Word /\ Placed(s, f)[i] = f[s[i]] /\ f[s[i]] \in Seq(Word)
      /\ Spread(s, f) = FlattenSeq(Placed(s, f)) /\ Spread(s, f) \in Seq(Word)
  BY <1>1, SpreadRows, Zenon
<1>. QED BY <1>2, <1>3

(* What replaces a sentence is one.                                        *)
LEMMA EachType ==
  ASSUME NEW f \in Replacing, NEW s \in Seq(Word)
  PROVE  Each(s, f) \in Seq(Word)
BY RowType

(* Nothing replaces nothing.                                               *)
LEMMA EachEmpty == \A f : Each(<<>>, f) = <<>>
BY SpreadEmpty DEF Each, Spread

(* What is replaced holds what some word of it gives way to.               *)
LEMMA EachHolds ==
  ASSUME NEW f \in Replacing, NEW s \in Seq(Word)
  PROVE  \A x : x \in ToSet(Each(s, f)) <=> \E w \in ToSet(s) : x \in ToSet(f[w])
<1>1. f \in [Word -> Seq(Word)] /\ Each(s, f) = Spread(s, f)
  BY DEF Replacing, Each, Spread
<1>2. \A x : x \in ToSet(Spread(s, f)) <=> \E w \in ToSet(s) : x \in ToSet(f[w])
  BY <1>1, SpreadHolds
<1>. QED BY <1>1, <1>2

(* One more word is replaced by what it gives way to.                      *)
LEMMA EachAppend ==
  ASSUME NEW f \in Replacing, NEW s \in Seq(Word), NEW w \in Word
  PROVE  Each(Append(s, w), f) = Each(s, f) \o f[w]
<1>1. f \in [Word -> Seq(Word)]
  BY DEF Replacing
<1>2. \A t : Each(t, f) = Spread(t, f)
  BY DEF Each, Spread
<1>3. Spread(Append(s, w), f) = Spread(s, f) \o f[w]
  BY <1>1, SpreadAppend
<1>. QED BY <1>2, <1>3

(* To replace in two parts is to replace in each.                          *)
LEMMA EachConcat ==
  ASSUME NEW f \in Replacing, NEW s \in Seq(Word), NEW t \in Seq(Word)
  PROVE  Each(s \o t, f) = Each(s, f) \o Each(t, f)
<1>1. f \in [Word -> Seq(Word)]
  BY DEF Replacing
<1>2. Each(s \o t, f) = Spread(s \o t, f) /\ Each(s, f) = Spread(s, f) /\ Each(t, f) = Spread(t, f)
  BY DEF Each, Spread
<1>3. Spread(s \o t, f) = Spread(s, f) \o Spread(t, f)
  BY <1>1, SpreadConcat
<1>. QED BY <1>2, <1>3, Zenon

(* What is replaced in every sentence.                                     *)
LEMMA RowOverType ==
  ASSUME NEW f \in Replacing, NEW p \in Seq(Seq(Word))
  PROVE  /\ RowOver(p, f) \in Seq(Seq(Word)) /\ Len(RowOver(p, f)) = Len(p)
         /\ \A i \in 1..Len(p) : p[i] \in Seq(Word) /\ RowOver(p, f)[i] = Each(p[i], f)
<1>1. f \in [Word -> Seq(Word)]
  BY DEF Replacing
<1>2. \A t : Each(t, f) = Spread(t, f)
  BY DEF Each, Spread
<1>3. RowOver(p, f) = SpreadParts(p, f)
  BY DEF RowOver, SpreadParts, Each, Spread
<1>4. /\ SpreadParts(p, f) \in Seq(Seq(Word)) /\ Len(SpreadParts(p, f)) = Len(p)
      /\ \A i \in 1..Len(p) : p[i] \in Seq(Word) /\ SpreadParts(p, f)[i] = Spread(p[i], f)
  BY <1>1, SpreadPartsType, Zenon
<1>. QED BY <1>2, <1>3, <1>4

(* To replace in the words of a text is to replace in each sentence.       *)
LEMMA EachOver ==
  ASSUME NEW f \in Replacing, NEW p \in Seq(Seq(Word))
  PROVE  Each(FlattenSeq(p), f) = FlattenSeq(RowOver(p, f))
<1>1. f \in [Word -> Seq(Word)]
  BY DEF Replacing
<1>2. Each(FlattenSeq(p), f) = Spread(FlattenSeq(p), f) /\ RowOver(p, f) = SpreadParts(p, f)
  BY DEF RowOver, SpreadParts, Each, Spread
<1>3. Spread(FlattenSeq(p), f) = FlattenSeq(SpreadParts(p, f))
  BY <1>1, SpreadOver
<1>. QED BY <1>2, <1>3

(* The first replacement, and the second of what it puts.                  *)
Twice(g, f) == [w \in Word |-> Each(g[w], f)]

(* One replacement after another is one replacement.                       *)
LEMMA EachTwice ==
  ASSUME NEW f \in Replacing, NEW g \in Replacing, NEW s \in Seq(Word)
  PROVE  Twice(g, f) \in Replacing /\ Each(Each(s, g), f) = Each(s, Twice(g, f))
<1>1. f \in [Word -> Seq(Word)] /\ g \in [Word -> Seq(Word)]
  BY DEF Replacing
<1>2. \A t, h : Each(t, h) = Spread(t, h)
  BY DEF Each, Spread
<1>3. Twice(g, f) = SpreadTwice(Word, g, f)
  BY DEF Twice, SpreadTwice, Each, Spread
<1>4. /\ SpreadTwice(Word, g, f) \in [Word -> Seq(Word)]
      /\ Spread(Spread(s, g), f) = Spread(s, SpreadTwice(Word, g, f))
  <2>1. PICK k \in [Word -> Seq(Word)], h \in [Word -> Seq(Word)] : k = f /\ h = g
    BY <1>1
  <2>2. SpreadTwice(Word, h, k) \in [Word -> Seq(Word)]
    BY SpreadTwiceType
  <2>3. Spread(Spread(s, h), k) = Spread(s, SpreadTwice(Word, h, k))
    BY SpreadTwiceOver
  <2>. QED BY <2>1, <2>2, <2>3
<1>. QED BY <1>2, <1>3, <1>4 DEF Replacing

(* Texts whose sentences are replaced alike are.                           *)
LEMMA OverSame ==
  ASSUME NEW f \in Replacing, NEW g \in Replacing, NEW p \in Seq(Seq(Word)), NEW q \in Seq(Seq(Word)),
         Len(p) = Len(q), \A i \in 1..Len(p) : Each(p[i], f) = Each(q[i], g)
  PROVE  Each(FlattenSeq(p), f) = Each(FlattenSeq(q), g)
<1>1. /\ RowOver(p, f) \in Seq(Seq(Word)) /\ Len(RowOver(p, f)) = Len(p)
      /\ \A i \in 1..Len(p) : RowOver(p, f)[i] = Each(p[i], f)
  BY RowOverType
<1>2. /\ RowOver(q, g) \in Seq(Seq(Word)) /\ Len(RowOver(q, g)) = Len(q)
      /\ \A i \in 1..Len(q) : RowOver(q, g)[i] = Each(q[i], g)
  BY RowOverType
<1>3. \A i \in 1..Len(RowOver(p, f)) : RowOver(p, f)[i] = RowOver(q, g)[i]
  BY <1>1, <1>2
<1>4. Len(RowOver(p, f)) = Len(RowOver(q, g))
  BY <1>1, <1>2
<1>5. PICK a \in Seq(Seq(Word)), b \in Seq(Seq(Word)) :
        a = RowOver(p, f) /\ b = RowOver(q, g) /\ Len(a) = Len(b) /\ \A i \in 1..Len(a) : a[i] = b[i]
  BY <1>1, <1>2, <1>3, <1>4
<1>6. a = b
  BY <1>5, SeqEqual
<1>7. Each(FlattenSeq(p), f) = FlattenSeq(a)
  BY <1>5, EachOver
<1>8. Each(FlattenSeq(q), g) = FlattenSeq(b)
  BY <1>5, EachOver
<1>. QED BY <1>6, <1>7, <1>8

(* Of sentences that give less, none more, the text gives less.            *)
LEMMA OverShorter ==
  ASSUME NEW f \in Replacing, NEW g \in Replacing, NEW p \in Seq(Seq(Word)), NEW q \in Seq(Seq(Word)),
         Len(p) = Len(q), \A i \in 1..Len(p) : Len(Each(p[i], f)) <= Len(Each(q[i], g))
  PROVE  /\ Len(Each(FlattenSeq(p), f)) \in Nat /\ Len(Each(FlattenSeq(q), g)) \in Nat
         /\ Len(Each(FlattenSeq(p), f)) <= Len(Each(FlattenSeq(q), g))
         /\ Len(Each(FlattenSeq(p), f)) = Len(Each(FlattenSeq(q), g)) =>
              \A i \in 1..Len(p) : Len(Each(p[i], f)) = Len(Each(q[i], g))
<1>1. /\ RowOver(p, f) \in Seq(Seq(Word)) /\ Len(RowOver(p, f)) = Len(p)
      /\ \A i \in 1..Len(p) : RowOver(p, f)[i] = Each(p[i], f)
  BY RowOverType
<1>2. /\ RowOver(q, g) \in Seq(Seq(Word)) /\ Len(RowOver(q, g)) = Len(q)
      /\ \A i \in 1..Len(q) : RowOver(q, g)[i] = Each(q[i], g)
  BY RowOverType
<1>3. \A i \in 1..Len(RowOver(p, f)) : Len(RowOver(p, f)[i]) <= Len(RowOver(q, g)[i])
  BY <1>1, <1>2
<1>4. Len(RowOver(p, f)) = Len(RowOver(q, g))
  BY <1>1, <1>2
<1>5. PICK a \in Seq(Seq(Word)), b \in Seq(Seq(Word)) :
        a = RowOver(p, f) /\ b = RowOver(q, g) /\ Len(a) = Len(b) /\ \A i \in 1..Len(a) : Len(a[i]) <= Len(b[i])
  BY <1>1, <1>2, <1>3, <1>4
<1>6. /\ Len(FlattenSeq(a)) \in Nat /\ Len(FlattenSeq(b)) \in Nat
      /\ Len(FlattenSeq(a)) <= Len(FlattenSeq(b))
      /\ Len(FlattenSeq(a)) = Len(FlattenSeq(b)) => \A i \in 1..Len(a) : Len(a[i]) = Len(b[i])
  <2>1. PartsShorter(a, b)
    BY <1>5 DEF PartsShorter
  <2>2. /\ Len(FlattenSeq(a)) \in Nat /\ Len(FlattenSeq(b)) \in Nat
        /\ Len(FlattenSeq(a)) <= Len(FlattenSeq(b))
        /\ Len(FlattenSeq(a)) = Len(FlattenSeq(b)) => PartsAsLong(a, b)
    BY <2>1, FlatShorter
  <2>. QED BY <2>2 DEF PartsAsLong
<1>7. Each(FlattenSeq(p), f) = FlattenSeq(a) /\ Each(FlattenSeq(q), g) = FlattenSeq(b)
  BY <1>5, EachOver
<1>8. \A i \in 1..Len(p) : a[i] = Each(p[i], f) /\ b[i] = Each(q[i], g)
  BY <1>1, <1>2, <1>5
<1>9. Len(a) = Len(p)
  BY <1>1, <1>5
<1>. QED BY <1>6, <1>7, <1>8, <1>9

(* Words in whose places two replacements agree.                           *)
LEMMA EachSame ==
  ASSUME NEW f \in Replacing, NEW g \in Replacing, NEW s \in Seq(Word), NEW t \in Seq(Word),
         Len(s) = Len(t), \A i \in 1..Len(s) : f[s[i]] = g[t[i]]
  PROVE  Each(s, f) = Each(t, g)
<1>1. /\ Row(s, f) \in Seq(Seq(Word)) /\ Len(Row(s, f)) = Len(s)
      /\ \A i \in 1..Len(s) : Row(s, f)[i] = f[s[i]]
      /\ Each(s, f) = FlattenSeq(Row(s, f))
  BY RowType
<1>2. /\ Row(t, g) \in Seq(Seq(Word)) /\ Len(Row(t, g)) = Len(t)
      /\ \A i \in 1..Len(t) : Row(t, g)[i] = g[t[i]]
      /\ Each(t, g) = FlattenSeq(Row(t, g))
  BY RowType
<1>3. \A i \in 1..Len(Row(s, f)) : Row(s, f)[i] = Row(t, g)[i]
  BY <1>1, <1>2
<1>4. Len(Row(s, f)) = Len(Row(t, g))
  BY <1>1, <1>2
<1>5. Row(s, f) = Row(t, g)
  BY <1>1, <1>2, <1>3, <1>4, SeqEqual
<1>. QED BY <1>1, <1>2, <1>5

(* A replacement that gives no more for any word gives no more in all.     *)
LEMMA EachShorter ==
  ASSUME NEW f \in Replacing, NEW g \in Replacing, NEW s \in Seq(Word),
         \A w \in Word : Len(f[w]) <= Len(g[w])
  PROVE  /\ Len(Each(s, f)) \in Nat /\ Len(Each(s, g)) \in Nat /\ Len(Each(s, f)) <= Len(Each(s, g))
         /\ Len(Each(s, f)) = Len(Each(s, g)) => \A i \in 1..Len(s) : Len(f[s[i]]) = Len(g[s[i]])
<1>1. /\ Row(s, f) \in Seq(Seq(Word)) /\ Len(Row(s, f)) = Len(s)
      /\ \A i \in 1..Len(s) : s[i] \in Word /\ Row(s, f)[i] = f[s[i]]
      /\ Each(s, f) = FlattenSeq(Row(s, f))
  BY RowType
<1>2. /\ Row(s, g) \in Seq(Seq(Word)) /\ Len(Row(s, g)) = Len(s)
      /\ \A i \in 1..Len(s) : Row(s, g)[i] = g[s[i]]
      /\ Each(s, g) = FlattenSeq(Row(s, g))
  BY RowType
<1>3. \A i \in 1..Len(Row(s, f)) : Len(Row(s, f)[i]) <= Len(Row(s, g)[i])
  BY <1>1, <1>2
<1>4. PICK a \in Seq(Seq(Word)), b \in Seq(Seq(Word)) :
        a = Row(s, f) /\ b = Row(s, g) /\ Len(a) = Len(b) /\ \A i \in 1..Len(a) : Len(a[i]) <= Len(b[i])
  BY <1>1, <1>2, <1>3
<1>5. /\ Len(FlattenSeq(a)) \in Nat /\ Len(FlattenSeq(b)) \in Nat
      /\ Len(FlattenSeq(a)) <= Len(FlattenSeq(b))
      /\ Len(FlattenSeq(a)) = Len(FlattenSeq(b)) => \A i \in 1..Len(a) : Len(a[i]) = Len(b[i])
  <2>1. PartsShorter(a, b)
    BY <1>4 DEF PartsShorter
  <2>2. /\ Len(FlattenSeq(a)) \in Nat /\ Len(FlattenSeq(b)) \in Nat
        /\ Len(FlattenSeq(a)) <= Len(FlattenSeq(b))
        /\ Len(FlattenSeq(a)) = Len(FlattenSeq(b)) => PartsAsLong(a, b)
    BY <2>1, FlatShorter
  <2>. QED BY <2>2 DEF PartsAsLong
<1>6. (\A i \in 1..Len(s) : a[i] = f[s[i]] /\ b[i] = g[s[i]]) /\ Len(a) = Len(s)
  BY <1>1, <1>2, <1>4
<1>. QED BY <1>1, <1>2, <1>4, <1>5, <1>6

-----------------------------------------------------------------------------
(* What the stages replace and leave out                                   *)

(* What is counted of a text, and how a point takes a decimal apart.       *)
Measure == {Matched, Figured, Tokened}
Parted  == [w \in Word |-> IF w \in Pointed THEN <<"number", Rest(w)>> ELSE <<w>>]

(* What is counted is counted of words; marks count nothing, and the words *)
(* that stages remove count as tokens only.                                *)
LEMMA Measures ==
  /\ \A f \in Measure : f \in Replacing /\ f["header"] = <<>> /\ f["mark"] = <<>>
  /\ Parted \in Replacing /\ \A ws : Without(ws) \in Replacing
  /\ \A w \in Fillers \cup Modifiers : Matched[w] = <<>> /\ Figured[w] = <<>>
<1>1. Matched \in Replacing /\ Figured \in Replacing /\ Parted \in Replacing
  <2>1. \A w \in Word : Matched[w] \in Seq(Word) /\ Figured[w] \in Seq(Word) /\ Parted[w] \in Seq(Word)
    <3>. SUFFICES ASSUME NEW w \in Word PROVE Matched[w] \in Seq(Word) /\ Figured[w] \in Seq(Word)
           /\ Parted[w] \in Seq(Word)
      OBVIOUS
    <3>1. "number" \in Word /\ Rest(w) \in Word
      BY DEF Word, Rest
    <3>2. <<>> \in Seq(Word) /\ <<w>> \in Seq(Word) /\ <<"number", Rest(w)>> \in Seq(Word)
            /\ <<"number", "number", w>> \in Seq(Word) /\ <<"number">> \in Seq(Word)
      BY <3>1
    <3>3. Matched[w] \in Seq(Word)
      <4>1. w \in {"number", "measure"} \/ w = "decimal" \/ (w \notin {"number", "measure"} /\ w # "decimal")
        OBVIOUS
      <4>. QED BY <3>2, <4>1 DEF Matched
    <3>4. Figured[w] \in Seq(Word) /\ Parted[w] \in Seq(Word)
      BY <3>2 DEF Figured, Parted
    <3>. QED BY <3>3, <3>4
  <2>2. Matched = [w \in Word |-> Matched[w]] /\ Figured = [w \in Word |-> Figured[w]]
          /\ Parted = [w \in Word |-> Parted[w]]
    BY DEF Matched, Figured, Parted
  <2>. QED BY <2>1, <2>2 DEF Replacing
<1>2. Tokened \in Replacing
  <2>1. \A w \in Word : Tokened[w] \in Seq(Word)
    <3>. SUFFICES ASSUME NEW w \in Word PROVE Tokened[w] \in Seq(Word)
      OBVIOUS
    <3>1. <<>> \in Seq(Word) /\ <<w>> \in Seq(Word) /\ <<w, w>> \in Seq(Word)
      OBVIOUS
    <3>2. w \in {"header", "mark"} \/ w \in Pointed \/ (w \notin {"header", "mark"} /\ w \notin Pointed)
      OBVIOUS
    <3>. QED BY <3>1, <3>2 DEF Tokened
  <2>2. Tokened = [w \in Word |-> Tokened[w]]
    BY DEF Tokened
  <2>. QED BY <2>1, <2>2 DEF Replacing
<1>3. ASSUME NEW ws PROVE Without(ws) \in Replacing
  <2>1. \A w \in Word : <<>> \in Seq(Word) /\ <<w>> \in Seq(Word)
    OBVIOUS
  <2>. QED BY <2>1 DEF Without, Replacing
<1>4. {"header", "mark"} \subseteq Word /\ Fillers \cup Modifiers \subseteq Word
  BY DEF Word, Fillers, Modifiers
<1>5. \A f \in Measure : f["header"] = <<>> /\ f["mark"] = <<>>
  <2>1. Matched["header"] = <<>> /\ Matched["mark"] = <<>>
    BY <1>4 DEF Matched
  <2>2. Figured["header"] = <<>> /\ Figured["mark"] = <<>>
    BY <1>4 DEF Figured
  <2>3. Tokened["header"] = <<>> /\ Tokened["mark"] = <<>>
    BY <1>4 DEF Tokened, Pointed
  <2>. QED BY <2>1, <2>2, <2>3 DEF Measure
<1>6. \A w \in Fillers \cup Modifiers : Matched[w] = <<>> /\ Figured[w] = <<>>
  BY <1>4 DEF Matched, Figured, Fillers, Modifiers
<1>. QED BY <1>1, <1>2, <1>3, <1>5, <1>6 DEF Measure

(* What replaces a sentence of one word.                                  *)
LEMMA EachOne ==
  ASSUME NEW f \in Replacing, NEW w \in Word
  PROVE  Each(<<w>>, f) = f[w]
<1>1. <<>> \in Seq(Word) /\ Append(<<>>, w) = <<w>>
  OBVIOUS
<1>2. Each(Append(<<>>, w), f) = Each(<<>>, f) \o f[w]
  BY <1>1, EachAppend
<1>3. f[w] \in Seq(Word)
  BY DEF Replacing
<1>4. <<>> \o f[w] = f[w]
  BY <1>3, ConcatEmptySeq, Zenon
<1>. QED BY <1>1, <1>2, <1>4, EachEmpty

(* Words left out: what counts nothing in them counts the same without.    *)
LEMMA LeftOut ==
  ASSUME NEW f \in Replacing, NEW ws, NEW s \in Seq(Word)
  PROVE  /\ Each(s, Without(ws)) \in Seq(Word)
         /\ ToSet(Each(s, Without(ws))) \subseteq ToSet(s)
         /\ Len(Each(Each(s, Without(ws)), f)) \in Nat /\ Len(Each(s, f)) \in Nat
         /\ Len(Each(Each(s, Without(ws)), f)) <= Len(Each(s, f))
         /\ (\A w \in ws : f[w] = <<>>) => Each(Each(s, Without(ws)), f) = Each(s, f)
<1>. DEFINE g == Without(ws)
            h == Twice(g, f)
<1>1. g \in Replacing
  BY Measures
<1>2. h \in Replacing /\ Each(Each(s, g), f) = Each(s, h)
  BY <1>1, EachTwice
<1>3. ASSUME NEW w \in Word PROVE h[w] = IF w \in ws THEN <<>> ELSE f[w]
  <2>1. h[w] = Each(g[w], f) /\ g[w] = IF w \in ws THEN <<>> ELSE <<w>>
    BY DEF Twice, Without
  <2>2. Each(<<w>>, f) = f[w] /\ Each(<<>>, f) = <<>>
    BY EachOne, EachEmpty
  <2>. HIDE DEF h, g
  <2>. QED BY <2>1, <2>2
<1>4. \A w \in Word : g[w] = IF w \in ws THEN <<>> ELSE <<w>>
  BY DEF Without
<1>. HIDE DEF h, g
<1>5. \A w \in Word : f[w] \in Seq(Word)
  BY DEF Replacing
<1>6. Len(<<>>) = 0 /\ \A y \in Seq(Word) : Len(y) \in Nat /\ 0 <= Len(y)
  OBVIOUS
<1>7. \A w \in Word : Len(h[w]) <= Len(f[w])
  BY <1>3, <1>5, <1>6
<1>8. Len(Each(s, h)) \in Nat /\ Len(Each(s, f)) \in Nat /\ Len(Each(s, h)) <= Len(Each(s, f))
  BY <1>2, <1>7, EachShorter
<1>9. ASSUME \A w \in ws : f[w] = <<>> PROVE Each(s, h) = Each(s, f)
  <2>1. \A w \in Word : h[w] = f[w]
    BY <1>3, <1>9
  <2>2. \A i \in 1..Len(s) : h[s[i]] = f[s[i]]
    BY <2>1
  <2>. QED BY <1>2, <2>2, EachSame
<1>10. ToSet(Each(s, g)) \subseteq ToSet(s)
  <2>. SUFFICES ASSUME NEW x \in ToSet(Each(s, g)) PROVE x \in ToSet(s)
    OBVIOUS
  <2>1. PICK w \in ToSet(s) : x \in ToSet(g[w])
    BY <1>1, EachHolds
  <2>2. w \in Word
    BY DEF ToSet
  <2>3. ToSet(<<>>) = {} /\ ToSet(<<w>>) = {w}
    BY DEF ToSet
  <2>. QED BY <1>4, <2>1, <2>2, <2>3
<1>11. Each(s, g) \in Seq(Word)
  BY <1>1, EachType
<1>. QED BY <1>2, <1>8, <1>9, <1>10, <1>11 DEF g

(* The sentences that hold something join to the same words.               *)
LEMMA NonemptyKeeps ==
  ASSUME NEW p \in Seq(Seq(Word))
  PROVE  /\ Nonempty(p) \in Seq(Seq(Word)) /\ ToSet(Nonempty(p)) \subseteq ToSet(p) \ {<<>>}
         /\ Words(Nonempty(p)) = Words(p)
<1>. DEFINE u == [i \in DOMAIN p |-> IF p[i] = <<>> THEN <<>> ELSE <<p[i]>>]
<1>1. u = [i \in DOMAIN p |-> u[i]] /\ \A i \in DOMAIN p : u[i] = IF p[i] = <<>> THEN <<>> ELSE <<p[i]>>
  OBVIOUS
<1>2. Nonempty(p) = FlattenSeq(u)
  BY DEF Nonempty
<1>. HIDE DEF u
<1>3. Picks(p, u)
  BY <1>1 DEF Picks
<1>4. FlattenSeq(u) \in Seq(Seq(Word)) /\ PicksHold(p, u) /\ \E v \in Seq(Seq(Word)) : PicksJoin(p, u, v)
  BY <1>3, FlatPicked
<1>5. PICK v \in Seq(Seq(Word)) : PicksJoin(p, u, v)
  BY <1>4
<1>6. DOMAIN p = 1..Len(p) /\ \A x : <<x>> # <<>>
  OBVIOUS
<1>7. \A i \in 1..Len(v) : v[i] = p[i]
  BY <1>1, <1>5, <1>6 DEF PicksJoin
<1>8. v = p
  BY <1>5, <1>7, SeqEqual DEF PicksJoin
<1>9. \A x \in ToSet(FlattenSeq(u)) : x \in ToSet(p) /\ x # <<>>
  <2>1. \A i \in DOMAIN p : p[i] \in ToSet(p) /\ (u[i] = <<p[i]>> => p[i] # <<>>)
    BY <1>1, <1>6 DEF ToSet
  <2>2. \A x : x \in ToSet(FlattenSeq(u)) => \E i \in DOMAIN p : u[i] = <<p[i]>> /\ x = p[i]
    BY <1>4 DEF PicksHold
  <2>. QED BY ONLY <2>1, <2>2
<1>. QED BY <1>2, <1>4, <1>5, <1>8, <1>9 DEF Words, PicksJoin

-----------------------------------------------------------------------------
(* SemanticCompressor.compress, and how sentences are read                 *)

Lines(p) ==
  [i \in DOMAIN p |->
     [j \in DOMAIN RowOver(p, Without(Fillers))[i] |->
        IF RowOver(p, Without(Fillers))[i][j] = "header" /\ ~(i = 1 /\ j = 1) THEN "mark"
        ELSE RowOver(p, Without(Fillers))[i][j]]]

(* Lines are of the words that the fillers leave.                          *)
LEMMA LinesType ==
  ASSUME NEW p \in Seq(Seq(Word)), NEW k, k = RowOver(p, Without(Fillers))
  PROVE  /\ Lines(p) \in Seq(Seq(Word)) /\ Len(Lines(p)) = Len(p) /\ Compress(p) = Nonempty(Lines(p))
         /\ k \in Seq(Seq(Word)) /\ Len(k) = Len(p)
         /\ \A i \in 1..Len(p) :
              /\ k[i] = Each(p[i], Without(Fillers)) /\ k[i] \in Seq(Word) /\ p[i] \in Seq(Word)
              /\ Lines(p)[i] \in Seq(Word) /\ Len(Lines(p)[i]) = Len(k[i])
              /\ \A j \in 1..Len(k[i]) :
                   Lines(p)[i][j] = k[i][j] \/ (k[i][j] = "header" /\ Lines(p)[i][j] = "mark")
<1>1. /\ k \in Seq(Seq(Word)) /\ Len(k) = Len(p)
      /\ \A i \in 1..Len(p) : p[i] \in Seq(Word) /\ k[i] = Each(p[i], Without(Fillers))
  BY Measures, RowOverType
<1>2. \A i \in 1..Len(p) : k[i] \in Seq(Word)
  BY <1>1
<1>3. DOMAIN p = 1..Len(p) /\ Len(p) \in Nat
  OBVIOUS
<1>4. Lines(p) = [i \in 1..Len(p) |->
        [j \in DOMAIN k[i] |-> IF k[i][j] = "header" /\ ~(i = 1 /\ j = 1) THEN "mark" ELSE k[i][j]]]
  BY <1>3 DEF Lines
<1>5. ASSUME NEW i \in 1..Len(p)
      PROVE  /\ Lines(p)[i] \in Seq(Word) /\ Len(Lines(p)[i]) = Len(k[i])
             /\ \A j \in 1..Len(k[i]) :
                  Lines(p)[i][j] = k[i][j] \/ (k[i][j] = "header" /\ Lines(p)[i][j] = "mark")
  <2>. DEFINE l == Lines(p)[i]
  <2>1. l = [j \in DOMAIN k[i] |-> IF k[i][j] = "header" /\ ~(i = 1 /\ j = 1) THEN "mark" ELSE k[i][j]]
    BY <1>4
  <2>2. PICK s \in Seq(Word) : s = k[i]
    BY <1>2
  <2>3. DOMAIN s = 1..Len(s) /\ Len(s) \in Nat /\ (\A j \in 1..Len(s) : s[j] \in Word) /\ "mark" \in Word
    BY DEF Word
  <2>. HIDE DEF l
  <2>4. l = [j \in 1..Len(s) |-> IF s[j] = "header" /\ ~(i = 1 /\ j = 1) THEN "mark" ELSE s[j]]
    BY <2>1, <2>2, <2>3
  <2>5. \A j \in 1..Len(s) : (l[j] = s[j] \/ (s[j] = "header" /\ l[j] = "mark")) /\ l[j] \in Word
    BY <2>3, <2>4
  <2>6. l \in [1..Len(s) -> Word]
    BY <2>4, <2>5
  <2>7. l \in Seq(Word) /\ Len(l) = Len(s)
    BY <2>3, <2>6, RowOf
  <2>. QED BY <2>2, <2>5, <2>7 DEF l
<1>6. Lines(p) \in [1..Len(p) -> Seq(Word)]
  BY <1>4, <1>5
<1>7. Lines(p) \in Seq(Seq(Word)) /\ Len(Lines(p)) = Len(p)
  BY <1>3, <1>6, RowOf
<1>8. Compress(p) = Nonempty(Lines(p))
  BY DEF Compress, Lines, RowOver
<1>. QED BY <1>1, <1>2, <1>5, <1>7, <1>8

(* The compressor: no sentence is empty, every number and figure stays in  *)
(* its place, no token is added and no word but a mark.                    *)
LEMMA CompressKeeps ==
  ASSUME NEW p \in Seq(Seq(Word))
  PROVE  /\ Compress(p) \in Seq(Seq(Word)) /\ ToSet(Compress(p)) \subseteq Seq(Word) \ {<<>>}
         /\ \A f \in {Matched, Figured} : Each(Words(Compress(p)), f) = Each(Words(p), f)
         /\ Tokens(Compress(p)) \in Nat /\ Tokens(p) \in Nat /\ Tokens(Compress(p)) <= Tokens(p)
         /\ WordsIn(Compress(p)) \subseteq WordsIn(p) \cup {"mark"}
<1>. DEFINE k == RowOver(p, Without(Fillers))
            l == Lines(p)
            c == Compress(p)
<1>1. /\ l \in Seq(Seq(Word)) /\ Len(l) = Len(p) /\ c = Nonempty(l)
      /\ k \in Seq(Seq(Word)) /\ Len(k) = Len(p)
      /\ \A i \in 1..Len(p) :
           /\ k[i] = Each(p[i], Without(Fillers)) /\ k[i] \in Seq(Word) /\ p[i] \in Seq(Word)
           /\ l[i] \in Seq(Word) /\ Len(l[i]) = Len(k[i])
           /\ \A j \in 1..Len(k[i]) : l[i][j] = k[i][j] \/ (k[i][j] = "header" /\ l[i][j] = "mark")
  BY LinesType
<1>2. c \in Seq(Seq(Word)) /\ ToSet(c) \subseteq ToSet(l) \ {<<>>} /\ Words(c) = Words(l)
  BY <1>1, NonemptyKeeps
<1>. HIDE DEF k, l, c
<1>3. ASSUME NEW f \in Measure, NEW i \in 1..Len(p) PROVE Each(l[i], f) = Each(Each(p[i], Without(Fillers)), f)
  <2>1. f \in Replacing /\ f["header"] = <<>> /\ f["mark"] = <<>>
    BY Measures
  <2>2. PICK s \in Seq(Word), t \in Seq(Word) :
          s = l[i] /\ t = k[i] /\ Len(s) = Len(t) /\ \A j \in 1..Len(t) : s[j] = t[j]
            \/ (t[j] = "header" /\ s[j] = "mark")
    BY <1>1, SMTT(30)
  <2>3. \A j \in 1..Len(s) : f[s[j]] = f[t[j]]
    BY <2>1, <2>2
  <2>4. Each(s, f) = Each(t, f)
    BY <2>1, <2>2, <2>3, EachSame
  <2>. QED BY <1>1, <2>2, <2>4
<1>4. ASSUME NEW f \in {Matched, Figured} PROVE Each(Words(l), f) = Each(Words(p), f)
  <2>1. f \in Measure /\ f \in Replacing /\ \A w \in Fillers : f[w] = <<>>
    BY Measures DEF Measure
  <2>2. \A i \in 1..Len(p) : Each(Each(p[i], Without(Fillers)), f) = Each(p[i], f)
    BY <1>1, <2>1, LeftOut
  <2>3. \A i \in 1..Len(l) : Each(l[i], f) = Each(p[i], f)
    BY <1>1, <1>3, <2>1, <2>2
  <2>4. l \in Seq(Seq(Word)) /\ Len(l) = Len(p)
    BY <1>1
  <2>5. Each(FlattenSeq(l), f) = Each(FlattenSeq(p), f)
    BY <2>1, <2>3, <2>4, OverSame
  <2>. QED BY <2>5 DEF Words
<1>5. Tokens(c) \in Nat /\ Tokens(p) \in Nat /\ Tokens(c) <= Tokens(p)
  <2>1. Tokened \in Measure /\ Tokened \in Replacing
    BY Measures DEF Measure
  <2>2. \A i \in 1..Len(p) : Len(Each(Each(p[i], Without(Fillers)), Tokened)) <= Len(Each(p[i], Tokened))
    BY <1>1, <2>1, LeftOut
  <2>3. \A i \in 1..Len(l) : Len(Each(l[i], Tokened)) <= Len(Each(p[i], Tokened))
    BY <1>1, <1>3, <2>1, <2>2
  <2>4. /\ Len(Each(FlattenSeq(l), Tokened)) \in Nat /\ Len(Each(FlattenSeq(p), Tokened)) \in Nat
        /\ Len(Each(FlattenSeq(l), Tokened)) <= Len(Each(FlattenSeq(p), Tokened))
    BY <1>1, <2>1, <2>3, OverShorter
  <2>. QED BY <1>2, <2>4 DEF Tokens, Words
<1>6. WordsIn(c) \subseteq WordsIn(p) \cup {"mark"}
  <2>. SUFFICES ASSUME NEW w \in WordsIn(c) PROVE w = "mark" \/ w \in WordsIn(p)
    OBVIOUS
  <2>1. w \in ToSet(FlattenSeq(l))
    BY <1>2 DEF WordsIn, Words
  <2>2. PICK i \in 1..Len(l) : w \in ToSet(l[i])
    BY <1>1, <2>1, FlatHolds
  <2>3. i \in 1..Len(p)
    BY <1>1, <2>2
  <2>4. PICK s \in Seq(Word), t \in Seq(Word) :
          s = l[i] /\ t = k[i] /\ Len(s) = Len(t) /\ \A j \in 1..Len(t) : s[j] = t[j]
            \/ (t[j] = "header" /\ s[j] = "mark")
    BY <1>1, <2>3, SMTT(30)
  <2>5. PICK j \in 1..Len(s) : w = s[j]
    BY <2>2, <2>4 DEF ToSet
  <2>6. w = "mark" \/ w \in ToSet(t)
    BY <2>4, <2>5 DEF ToSet
  <2>7. ToSet(t) \subseteq ToSet(p[i])
    BY <1>1, <2>3, <2>4, Measures, LeftOut
  <2>8. w = "mark" \/ w \in ToSet(FlattenSeq(p))
    BY <2>3, <2>6, <2>7, FlatHolds
  <2>. QED BY <2>8 DEF WordsIn, Words
<1>7. ToSet(l) \subseteq Seq(Word)
  BY <1>1 DEF ToSet
<1>. QED BY <1>2, <1>4, <1>5, <1>6, <1>7 DEF c

(* A sentence read word by word: what is behind a point, and what is open. *)
Splits(s, n, r) ==
  r = [i \in 0..n |->
         IF i = 0 THEN [done |-> <<>>, open |-> <<>>]
         ELSE IF s[i] \in Pointed
              THEN [done |-> Append(r[i - 1].done, Append(r[i - 1].open, "number")), open |-> <<Rest(s[i])>>]
              ELSE [done |-> r[i - 1].done, open |-> Append(r[i - 1].open, s[i])]]

(* Each word adds to what was read before it.                              *)
LEMMA ReadsStep ==
  ASSUME NEW s, NEW n \in Nat, NEW r, Splits(s, n, r)
  PROVE  /\ r[0] = [done |-> <<>>, open |-> <<>>]
         /\ \A i \in 1..n :
              r[i] = IF s[i] \in Pointed
                     THEN [done |-> Append(r[i - 1].done, Append(r[i - 1].open, "number")), open |-> <<Rest(s[i])>>]
                     ELSE [done |-> r[i - 1].done, open |-> Append(r[i - 1].open, s[i])]
<1>1. 0 \in 0..n /\ \A i \in 1..n : i \in 0..n /\ i # 0
  OBVIOUS
<1>. QED BY <1>1, Zenon DEF Splits

(* There is a reading of every length.                                     *)
LEMMA ReadsExist ==
  ASSUME NEW s
  PROVE  \A n \in Nat : \E r : Splits(s, n, r)
<1>. DEFINE S == {n \in Nat : \E r : Splits(s, n, r)}
<1>1. 0 \in S
  <2>1. Splits(s, 0, [i \in 0..0 |-> [done |-> <<>>, open |-> <<>>]])
    <3>1. \A i \in 0..0 : i = 0
      OBVIOUS
    <3>. QED BY <3>1, Zenon DEF Splits
  <2>. QED BY <2>1
<1>2. ASSUME NEW n \in Nat, n \in S PROVE n + 1 \in S
  <2>1. PICK r : Splits(s, n, r)
    BY <1>2
  <2>. DEFINE More(q, x) == IF x \in Pointed THEN [done |-> Append(q.done, Append(q.open, "number")), open |-> <<Rest(x)>>]
                            ELSE [done |-> q.done, open |-> Append(q.open, x)]
              t == [i \in 0..(n + 1) |-> IF i = n + 1 THEN More(r[n], s[n + 1]) ELSE r[i]]
  <2>2. r[0] = [done |-> <<>>, open |-> <<>>] /\ \A i \in 1..n : r[i] = More(r[i - 1], s[i])
    BY <2>1, ReadsStep, Zenon
  <2>3. (\A i \in 0..n : t[i] = r[i]) /\ t[n + 1] = More(r[n], s[n + 1])
    <3>. HIDE DEF More
    <3>. QED OBVIOUS
  <2>4. t = [i \in 0..(n + 1) |-> t[i]]
    OBVIOUS
  <2>. HIDE DEF More, t
  <2>5. \A i \in 0..(n + 1) : t[i] = IF i = 0 THEN [done |-> <<>>, open |-> <<>>] ELSE More(t[i - 1], s[i])
    <3>1. TAKE i \in 0..(n + 1)
    <3>2. CASE i = 0
      BY <2>2, <2>3, <3>2
    <3>3. CASE i \in 1..n
      <4>1. i - 1 \in 0..n /\ i \in 0..n /\ i # 0
        BY <3>3
      <4>. QED BY <2>2, <2>3, <3>3, <4>1
    <3>4. CASE i = n + 1
      <4>1. i - 1 = n /\ n \in 0..n /\ i # 0
        BY <3>4
      <4>. QED BY <2>3, <3>4, <4>1
    <3>. QED BY <3>2, <3>3, <3>4
  <2>6. t = [i \in 0..(n + 1) |-> IF i = 0 THEN [done |-> <<>>, open |-> <<>>] ELSE More(t[i - 1], s[i])]
    BY <2>4, <2>5
  <2>7. Splits(s, n + 1, t)
    BY <2>6, Zenon DEF Splits, More
  <2>. QED BY <2>7
<1>. HIDE DEF S
<1>3. \A n \in Nat : n \in S
  BY <1>1, <1>2, CountedUp
<1>. QED BY <1>3 DEF S

-----------------------------------------------------------------------------
(* TokenPruner                                                             *)

(* Splitting at a decimal's point: its two halves come apart.              *)
LEMMA PointParts ==
  ASSUME NEW d \in Seq(Seq(Word)), NEW o \in Seq(Word), NEW a \in Word, NEW b \in Word
  PROVE  /\ Append(d, Append(o, a)) \in Seq(Seq(Word)) /\ <<b>> \in Seq(Word)
         /\ FlattenSeq(Append(d, Append(o, a))) \o <<b>> = (FlattenSeq(d) \o o) \o <<a, b>>
<1>1. Append(o, a) \in Seq(Word) /\ FlattenSeq(d) \in Seq(Word)
  BY FlatType
<1>2. FlattenSeq(Append(d, Append(o, a))) = FlattenSeq(d) \o Append(o, a)
  BY <1>1, FlatAppend
<1>. DEFINE x == FlattenSeq(d)
<1>3. x \in Seq(Word)
  BY <1>1
<1>. HIDE DEF x
<1>4. (x \o Append(o, a)) \o <<b>> = (x \o o) \o <<a, b>>
  <2>1. x \o Append(o, a) = Append(x \o o, a) /\ x \o o \in Seq(Word)
    BY <1>3, ConcatAppended
  <2>. DEFINE y == x \o o
  <2>2. y \in Seq(Word)
    BY <2>1
  <2>. HIDE DEF y
  <2>3. <<a>> \in Seq(Word) /\ Append(y, a) \in Seq(Word) /\ <<a, b>> = Append(<<a>>, b)
    BY <2>2
  <2>4. y \o Append(<<a>>, b) = Append(y \o <<a>>, b)
    BY <2>2, <2>3, ConcatAppended
  <2>5. Append(y, a) = y \o <<a>> /\ Append(Append(y, a), b) = Append(y, a) \o <<b>>
    BY <2>2, <2>3, AppendIsConcat
  <2>6. Append(y, a) \o <<b>> = y \o <<a, b>>
    BY <2>3, <2>4, <2>5
  <2>. QED BY <2>1, <2>6 DEF y
<1>5. Append(d, Append(o, a)) \in Seq(Seq(Word)) /\ <<b>> \in Seq(Word)
  BY <1>1
<1>. QED BY <1>2, <1>4, <1>5 DEF x

(* The sentences a sentence is read as hold its words, decimals apart.     *)
LEMMA SentencesPart ==
  ASSUME NEW s \in Seq(Word)
  PROVE  Sentences(s) \in Seq(Seq(Word)) /\ FlattenSeq(Sentences(s)) = Each(s, Parted)
<1>. DEFINE n == Len(s)
            read == CHOOSE r : Splits(s, n, r)
<1>1. n \in Nat /\ \A i \in 1..n : s[i] \in Word
  OBVIOUS
<1>2. Sentences(s) = Append(read[n].done, read[n].open)
  BY DEF Sentences, Splits
<1>3. Splits(s, n, read)
  <2>. HIDE DEF n
  <2>1. \E r : Splits(s, n, r)
    BY <1>1, ReadsExist
  <2>. QED BY <2>1
<1>. HIDE DEF n, read
<1>4. /\ read[0] = [done |-> <<>>, open |-> <<>>]
      /\ \A i \in 1..n :
           read[i] = IF s[i] \in Pointed
                     THEN [done |-> Append(read[i - 1].done, Append(read[i - 1].open, "number")), open |-> <<Rest(s[i])>>]
                     ELSE [done |-> read[i - 1].done, open |-> Append(read[i - 1].open, s[i])]
  BY <1>1, <1>3, ReadsStep, Zenon
<1>. DEFINE Good(i) == /\ read[i].done \in Seq(Seq(Word)) /\ read[i].open \in Seq(Word)
                       /\ FlattenSeq(read[i].done) \o read[i].open = Each(SubSeq(s, 1, i), Parted)
            S == {i \in Nat : i <= n => Good(i)}
<1>5. Parted \in Replacing /\ "number" \in Word /\ \A w : Rest(w) \in Word
  BY Measures DEF Word, Rest
<1>6. 0 \in S
  <2>1. SubSeq(s, 1, 0) = <<>> /\ <<>> \o <<>> = <<>>
    BY SubSeqEmpty
  <2>2. read[0].done = <<>> /\ read[0].open = <<>>
    BY <1>4
  <2>3. FlattenSeq(<<>>) = <<>> /\ Each(<<>>, Parted) = <<>> /\ <<>> \in Seq(Seq(Word)) /\ <<>> \in Seq(Word)
    BY FlatEmpty, EachEmpty
  <2>4. Good(0)
    BY <2>1, <2>2, <2>3
  <2>. HIDE DEF Good
  <2>. QED BY <2>4
<1>7. ASSUME NEW i \in Nat, i \in S PROVE i + 1 \in S
  <2>. HIDE DEF Good
  <2>. SUFFICES ASSUME i + 1 <= n PROVE Good(i + 1)
    OBVIOUS
  <2>1. i < Len(s) /\ i <= n /\ i + 1 \in 1..n /\ (i + 1) - 1 = i
    BY <1>1 DEF n
  <2>2. SubSeq(s, 1, i) \in Seq(Word) /\ s[i + 1] \in Word
          /\ SubSeq(s, 1, i + 1) = Append(SubSeq(s, 1, i), s[i + 1])
    BY <2>1, FirstOnes
  <2>3. PICK d \in Seq(Seq(Word)), o \in Seq(Word) :
          d = read[i].done /\ o = read[i].open /\ FlattenSeq(d) \o o = Each(SubSeq(s, 1, i), Parted)
    BY <1>7, <2>1 DEF Good
  <2>4. Each(SubSeq(s, 1, i + 1), Parted) = (FlattenSeq(d) \o o) \o Parted[s[i + 1]]
    BY <1>5, <2>2, <2>3, EachAppend
  <2>. DEFINE y == Rest(s[i + 1])
  <2>. HIDE DEF y
  <2>5. Parted[s[i + 1]] = (IF s[i + 1] \in Pointed THEN <<"number", y>> ELSE <<s[i + 1]>>) /\ y \in Word
    BY <1>5, <2>2 DEF Parted, y
  <2>6. read[i + 1] = IF s[i + 1] \in Pointed THEN [done |-> Append(d, Append(o, "number")), open |-> <<y>>]
                      ELSE [done |-> d, open |-> Append(o, s[i + 1])]
    BY <1>4, <2>1, <2>3 DEF y
  <2>7. CASE s[i + 1] \in Pointed
    <3>1. read[i + 1].done = Append(d, Append(o, "number")) /\ read[i + 1].open = <<y>>
      BY <2>6, <2>7
    <3>2. /\ Append(d, Append(o, "number")) \in Seq(Seq(Word)) /\ <<y>> \in Seq(Word)
          /\ FlattenSeq(Append(d, Append(o, "number"))) \o <<y>> = (FlattenSeq(d) \o o) \o <<"number", y>>
      BY <1>5, <2>5, PointParts
    <3>3. Each(SubSeq(s, 1, i + 1), Parted) = (FlattenSeq(d) \o o) \o <<"number", y>>
      BY <2>4, <2>5, <2>7
    <3>. QED BY <3>1, <3>2, <3>3 DEF Good
  <2>8. CASE s[i + 1] \notin Pointed
    <3>1. read[i + 1].done = d /\ read[i + 1].open = Append(o, s[i + 1])
      BY <2>6, <2>8
    <3>2. FlattenSeq(d) \in Seq(Word)
      BY FlatType
    <3>3. FlattenSeq(d) \o Append(o, s[i + 1]) = Append(FlattenSeq(d) \o o, s[i + 1])
            /\ FlattenSeq(d) \o o \in Seq(Word)
      BY <2>2, <3>2, ConcatAppended
    <3>4. \A x \in Seq(Word) : \A w \in Word : Append(x, w) = x \o <<w>>
      BY AppendIsConcat
    <3>5. Append(o, s[i + 1]) \in Seq(Word)
      BY <2>2
    <3>. QED BY <2>2, <2>4, <2>5, <2>8, <3>1, <3>3, <3>4, <3>5 DEF Good
  <2>. QED BY <2>7, <2>8
<1>. HIDE DEF S, Good
<1>8. \A i \in Nat : i \in S
  BY <1>6, <1>7, CountedUp
<1>9. Good(n)
  <2>1. n \in S /\ n <= n
    BY <1>1, <1>8
  <2>. QED BY <2>1 DEF S
<1>10. SubSeq(s, 1, n) = s
  BY SubSeqFull DEF n
<1>11. /\ read[n].done \in Seq(Seq(Word)) /\ read[n].open \in Seq(Word)
       /\ FlattenSeq(read[n].done) \o read[n].open = Each(s, Parted)
  BY <1>9, <1>10 DEF Good
<1>12. /\ Append(read[n].done, read[n].open) \in Seq(Seq(Word))
       /\ FlattenSeq(Append(read[n].done, read[n].open)) = FlattenSeq(read[n].done) \o read[n].open
  <2>1. PICK d \in Seq(Seq(Word)), o \in Seq(Word) : d = read[n].done /\ o = read[n].open
    BY <1>11
  <2>2. Append(d, o) \in Seq(Seq(Word)) /\ FlattenSeq(Append(d, o)) = FlattenSeq(d) \o o
    BY FlatAppend
  <2>. QED BY <2>1, <2>2
<1>. QED BY <1>2, <1>11, <1>12

(* Of equal sentences all but the first are dropped: nothing is added, and *)
(* what counts nothing in the dropped counts the same.                     *)
LEMMA DistinctKeeps ==
  ASSUME NEW p \in Seq(Seq(Word))
  PROVE  /\ Distinct(p) \in Seq(Seq(Word)) /\ ToSet(Distinct(p)) \subseteq ToSet(p)
         /\ \A f \in Replacing :
              /\ Len(Each(Words(Distinct(p)), f)) \in Nat /\ Len(Each(Words(p), f)) \in Nat
              /\ Len(Each(Words(Distinct(p)), f)) <= Len(Each(Words(p), f))
         /\ \A f \in Replacing, g \in Replacing :
              /\ Len(Each(Words(Distinct(p)), f)) = Len(Each(Words(p), f))
              /\ \A s \in Seq(Word) : Each(s, f) = <<>> => Each(s, g) = <<>>
              => Each(Words(Distinct(p)), g) = Each(Words(p), g)
<1>. DEFINE u == [i \in DOMAIN p |-> IF \E j \in 1..(i - 1) : p[j] = p[i] THEN <<>> ELSE <<p[i]>>]
<1>1. Picks(p, u)
  BY DEF Picks
<1>2. Distinct(p) = FlattenSeq(u)
  BY DEF Distinct
<1>. HIDE DEF u
<1>3. FlattenSeq(u) \in Seq(Seq(Word)) /\ PicksHold(p, u) /\ \E v \in Seq(Seq(Word)) : PicksJoin(p, u, v)
  BY <1>1, FlatPicked
<1>4. PICK v \in Seq(Seq(Word)) : PicksJoin(p, u, v)
  BY <1>3
<1>5. /\ Len(v) = Len(p) /\ FlattenSeq(FlattenSeq(u)) = FlattenSeq(v)
      /\ \A i \in 1..Len(v) : v[i] = <<>> \/ v[i] = p[i]
  BY <1>4 DEF PicksJoin
<1>6. ToSet(FlattenSeq(u)) \subseteq ToSet(p)
  BY <1>3 DEF PicksHold, ToSet
<1>7. \A i \in 1..Len(v) : p[i] \in Seq(Word)
  BY <1>5
<1>8. ASSUME NEW f \in Replacing
      PROVE  /\ Len(Each(FlattenSeq(v), f)) \in Nat /\ Len(Each(FlattenSeq(p), f)) \in Nat
             /\ Len(Each(FlattenSeq(v), f)) <= Len(Each(FlattenSeq(p), f))
             /\ Len(Each(FlattenSeq(v), f)) = Len(Each(FlattenSeq(p), f)) =>
                  \A i \in 1..Len(v) : Len(Each(v[i], f)) = Len(Each(p[i], f))
  <2>1. \A s \in Seq(Word) : Each(s, f) \in Seq(Word)
    BY EachType
  <2>2. Each(<<>>, f) = <<>> /\ Len(<<>>) = 0 /\ \A s \in Seq(Word) : Len(s) \in Nat /\ 0 <= Len(s)
          /\ Len(s) <= Len(s)
    BY EachEmpty
  <2>3. \A i \in 1..Len(v) : Len(Each(v[i], f)) <= Len(Each(p[i], f))
    BY <1>5, <1>7, <2>1, <2>2
  <2>4. Len(v) = Len(p)
    BY <1>5
  <2>. QED BY <2>3, <2>4, OverShorter
<1>9. ASSUME NEW f \in Replacing, NEW g \in Replacing,
             Len(Each(FlattenSeq(v), f)) = Len(Each(FlattenSeq(p), f)),
             \A s \in Seq(Word) : Each(s, f) = <<>> => Each(s, g) = <<>>
      PROVE  Each(FlattenSeq(v), g) = Each(FlattenSeq(p), g)
  <2>1. \A i \in 1..Len(v) : Len(Each(v[i], f)) = Len(Each(p[i], f))
    BY <1>8, <1>9
  <2>2. ASSUME NEW i \in 1..Len(v) PROVE Each(v[i], g) = Each(p[i], g)
    <3>1. CASE v[i] = <<>>
      <4>1. Each(p[i], f) \in Seq(Word) /\ Len(Each(p[i], f)) = 0
        <5>1. Each(<<>>, f) = <<>> /\ Len(<<>>) = 0
          BY EachEmpty
        <5>. QED BY <1>7, <2>1, <3>1, <5>1, EachType
      <4>2. Each(p[i], f) = <<>>
        BY <4>1
      <4>. QED BY <1>7, <1>9, <3>1, <4>2, EachEmpty
    <3>. QED BY <1>5, <3>1
  <2>3. Len(v) = Len(p)
    BY <1>5
  <2>. QED BY <2>2, <2>3, OverSame
<1>10. Words(Distinct(p)) = FlattenSeq(v) /\ Words(p) = FlattenSeq(p)
  BY <1>2, <1>5 DEF Words
<1>. QED BY <1>2, <1>3, <1>6, <1>8, <1>9, <1>10

(* What a number taken apart at its point counts: as many tokens, and of a *)
(* decimal fewer matches.                                                  *)
LEMMA PartedCounts ==
  /\ \A f \in Replacing : Twice(Parted, f) \in Replacing
       /\ \A w \in Word \ Pointed : Twice(Parted, f)[w] = f[w]
  /\ \A w \in Word : Len(Twice(Parted, Tokened)[w]) <= Len(Tokened[w])
  /\ \A w \in Word : Len(Twice(Parted, Matched)[w]) <= Len(Matched[w])
  /\ Len(Twice(Parted, Matched)["decimal"]) # Len(Matched["decimal"])
<1>1. {"decimal", "measure", "number", "unit"} \subseteq Word /\ Pointed = {"decimal", "measure"}
      /\ Rest("decimal") = "number" /\ Rest("measure") = "unit"
  BY DEF Word, Pointed, Rest
<1>2. ASSUME NEW f \in Replacing
      PROVE  /\ Twice(Parted, f) \in Replacing /\ \A w \in Word \ Pointed : Twice(Parted, f)[w] = f[w]
             /\ \A w \in Pointed : Twice(Parted, f)[w] = f["number"] \o f[Rest(w)]
  <2>1. Parted \in Replacing /\ <<>> \in Seq(Word)
    BY Measures
  <2>2. Twice(Parted, f) \in Replacing
    BY <2>1, EachTwice
  <2>3. ASSUME NEW w \in Word \ Pointed PROVE Twice(Parted, f)[w] = f[w]
    <3>1. Twice(Parted, f)[w] = Each(<<w>>, f)
      BY DEF Twice, Parted
    <3>. QED BY <3>1, EachOne
  <2>4. ASSUME NEW w \in Pointed PROVE Twice(Parted, f)[w] = f["number"] \o f[Rest(w)]
    <3>1. w \in Word /\ Rest(w) \in Word
      BY <1>1
    <3>2. Twice(Parted, f)[w] = Each(<<"number", Rest(w)>>, f)
      BY <3>1 DEF Twice, Parted
    <3>3. <<"number">> \in Seq(Word) /\ Append(<<"number">>, Rest(w)) = <<"number", Rest(w)>>
      <4>1. ASSUME NEW x \in Word, NEW y \in Word PROVE <<x>> \in Seq(Word) /\ Append(<<x>>, y) = <<x, y>>
        <5>1. <<x>> \in Seq(Word) /\ Append(<<x>>, y) \in Seq(Word) /\ <<x, y>> \in Seq(Word)
          OBVIOUS
        <5>2. Len(Append(<<x>>, y)) = 2 /\ Len(<<x, y>>) = 2
          OBVIOUS
        <5>3. \A i \in 1..2 : Append(<<x>>, y)[i] = <<x, y>>[i]
          OBVIOUS
        <5>. QED BY <5>1, <5>2, <5>3, SeqEqual
      <4>. QED BY <1>1, <3>1, <4>1
    <3>4. Each(Append(<<"number">>, Rest(w)), f) = Each(<<"number">>, f) \o f[Rest(w)]
      BY <3>1, <3>3, EachAppend
    <3>5. Each(<<"number">>, f) = f["number"]
      BY <1>1, EachOne
    <3>. QED BY <3>2, <3>3, <3>4, <3>5
  <2>. QED BY <2>2, <2>3, <2>4
<1>3. Matched \in Replacing /\ Tokened \in Replacing
  BY Measures DEF Measure
<1>4. \A f \in Replacing : \A w \in Word : f[w] \in Seq(Word)
  BY DEF Replacing
<1>5. \A y \in Seq(Word) : Len(y) \in Nat /\ Len(y) <= Len(y)
  OBVIOUS
<1>6. /\ Len(Twice(Parted, Matched)["decimal"]) = 2 /\ Len(Matched["decimal"]) = 3
      /\ Len(Twice(Parted, Matched)["measure"]) = 1 /\ Len(Matched["measure"]) = 1
  <2>1. Matched["number"] = <<"number">> /\ Matched["decimal"] = <<"number", "number", "decimal">>
          /\ Matched["measure"] = <<"number">> /\ Matched["unit"] = <<>>
    BY <1>1 DEF Matched
  <2>2. Len(<<"number">> \o <<"number">>) = 2 /\ Len(<<"number">> \o <<>>) = 1
    OBVIOUS
  <2>3. Twice(Parted, Matched)["decimal"] = Matched["number"] \o Matched["number"]
          /\ Twice(Parted, Matched)["measure"] = Matched["number"] \o Matched["unit"]
    <3>1. \A w \in Pointed : Twice(Parted, Matched)[w] = Matched["number"] \o Matched[Rest(w)]
      BY <1>2, <1>3, Zenon
    <3>. QED BY <1>1, <3>1, Zenon
  <2>4. Len(<<"number", "number", "decimal">>) = 3 /\ Len(<<"number">>) = 1
    OBVIOUS
  <2>. QED BY <2>1, <2>2, <2>3, <2>4
<1>7. \A w \in Pointed : Len(Twice(Parted, Tokened)[w]) = 2 /\ Len(Tokened[w]) = 2
  <2>1. Tokened["number"] = <<"number">> /\ Tokened["unit"] = <<"unit">>
          /\ \A w \in Pointed : Tokened[w] = <<w, w>>
    BY <1>1 DEF Tokened
  <2>2. Len(<<"number">> \o <<"number">>) = 2 /\ Len(<<"number">> \o <<"unit">>) = 2
    OBVIOUS
  <2>3. \A w \in Pointed : Twice(Parted, Tokened)[w] = Tokened["number"] \o Tokened[Rest(w)]
    BY <1>2, <1>3, Zenon
  <2>4. \A w \in Pointed : Rest(w) \in {"number", "unit"}
    BY <1>1
  <2>5. ASSUME NEW w \in Pointed PROVE Len(Twice(Parted, Tokened)[w]) = 2 /\ Len(Tokened[w]) = 2
    <3>1. Len(<<w, w>>) = 2 /\ Tokened[w] = <<w, w>>
      BY <2>1
    <3>2. Tokened["number"] \o Tokened[Rest(w)] \in {<<"number">> \o <<"number">>, <<"number">> \o <<"unit">>}
      BY <2>1, <2>4
    <3>. QED BY <2>2, <2>3, <3>1, <3>2
  <2>. QED BY <2>5
<1>8. ASSUME NEW f \in {Matched, Tokened}, NEW w \in Word PROVE Len(Twice(Parted, f)[w]) <= Len(f[w])
  <2>1. CASE w \in Pointed
    <3>1. 2 <= 3 /\ 2 <= 2 /\ 1 <= 1
      OBVIOUS
    <3>2. CASE f = Matched
      BY <1>1, <1>6, <2>1, <3>1, <3>2
    <3>3. CASE f = Tokened
      BY <1>7, <2>1, <3>1, <3>3
    <3>. QED BY <3>2, <3>3
  <2>2. CASE w \notin Pointed
    BY <1>2, <1>3, <1>4, <1>5, <2>2
  <2>. QED BY <2>1, <2>2
<1>9. \A w \in Word : Len(Twice(Parted, Tokened)[w]) <= Len(Tokened[w])
  BY <1>8
<1>10. \A w \in Word : Len(Twice(Parted, Matched)[w]) <= Len(Matched[w])
  BY <1>8
<1>11. 2 # 3
  OBVIOUS
<1>12. Len(Twice(Parted, Matched)["decimal"]) # Len(Matched["decimal"])
  BY <1>6, <1>11
<1>. QED BY <1>2, <1>9, <1>10, <1>12, Zenon

(* Where nothing matches there is no figure.                               *)
LEMMA FiguresMatch ==
  ASSUME NEW s \in Seq(Word), Each(s, Matched) = <<>>
  PROVE  Each(s, Figured) = <<>>
<1>1. Matched \in Replacing /\ Figured \in Replacing
  BY Measures DEF Measure
<1>2. ToSet(<<>>) = {} /\ \A w \in ToSet(s) : w \in Word
  BY DEF ToSet
<1>3. ASSUME NEW x \in ToSet(Each(s, Figured)) PROVE FALSE
  <2>1. PICK w \in ToSet(s) : x \in ToSet(Figured[w])
    BY <1>1, EachHolds
  <2>2. w = "number" \/ w = "decimal"
    BY <1>2, <2>1 DEF Figured
  <2>3. w \in Word
    BY <1>2, <2>1
  <2>4. Matched[w] = <<"number">> \/ Matched[w] = <<"number", "number", "decimal">>
    BY <2>2, <2>3 DEF Matched
  <2>5. "number" \in ToSet(Matched[w])
    <3>1. "number" \in ToSet(<<"number">>) /\ "number" \in ToSet(<<"number", "number", "decimal">>)
      BY DEF ToSet
    <3>. QED BY <2>4, <3>1
  <2>6. "number" \in ToSet(Each(s, Matched))
    BY <1>1, <2>1, <2>5, EachHolds
  <2>. QED BY <1>2, <2>6
<1>4. Each(s, Figured) \in Seq(Word)
  BY <1>1, EachType
<1>5. \A y \in Seq(Word) : y # <<>> => y[1] \in ToSet(y)
  BY DEF ToSet
<1>. QED BY <1>3, <1>4, <1>5

Split(p) == FlattenSeq([i \in DOMAIN p |-> Sentences(RowOver(p, Without(Modifiers))[i])])

(* The pruner: before equal sentences are dropped.                         *)
LEMMA SplitWords ==
  ASSUME NEW p \in Seq(Seq(Word)), NEW k, k = RowOver(p, Without(Modifiers))
  PROVE  /\ k \in Seq(Seq(Word)) /\ Len(k) = Len(p)
         /\ \A i \in 1..Len(p) : p[i] \in Seq(Word) /\ k[i] = Each(p[i], Without(Modifiers))
         /\ Prune(p) = Distinct(Nonempty(Split(p)))
         /\ Split(p) \in Seq(Seq(Word)) /\ FlattenSeq(Split(p)) = Each(FlattenSeq(k), Parted)
<1>1. /\ k \in Seq(Seq(Word)) /\ Len(k) = Len(p)
      /\ \A i \in 1..Len(p) : p[i] \in Seq(Word) /\ k[i] = Each(p[i], Without(Modifiers))
  BY Measures, RowOverType
<1>2. DOMAIN p = 1..Len(p) /\ Len(p) \in Nat /\ \A i \in 1..Len(k) : k[i] \in Seq(Word)
  BY <1>1
<1>. DEFINE r == [i \in DOMAIN p |-> Sentences(k[i])]
<1>3. Split(p) = FlattenSeq(r) /\ Prune(p) = Distinct(Nonempty(Split(p)))
  BY DEF Split, Prune, RowOver
<1>4. \A i \in 1..Len(p) : r[i] = Sentences(k[i]) /\ Sentences(k[i]) \in Seq(Seq(Word))
        /\ FlattenSeq(Sentences(k[i])) = Each(k[i], Parted)
  BY <1>1, <1>2, SentencesPart
<1>5. r \in [1..Len(p) -> Seq(Seq(Word))] /\ DOMAIN r = 1..Len(p)
  BY <1>2, <1>4
<1>. HIDE DEF r
<1>6. r \in Seq(Seq(Seq(Word)))
  BY <1>2, <1>5, RowOf
<1>. DEFINE v == [i \in DOMAIN r |-> FlattenSeq(r[i])]
<1>7. v \in Seq(Seq(Word)) /\ FlattenSeq(FlattenSeq(r)) = FlattenSeq(v)
  BY <1>6, FlatFlat
<1>8. DOMAIN v = 1..Len(p) /\ \A i \in 1..Len(p) : v[i] = FlattenSeq(r[i])
  BY <1>5
<1>. HIDE DEF v
<1>9. Len(v) = Len(p) /\ \A i \in 1..Len(p) : v[i] = Each(k[i], Parted)
  BY <1>2, <1>4, <1>7, <1>8
<1>10. Parted \in Replacing
  BY Measures
<1>11. /\ RowOver(k, Parted) \in Seq(Seq(Word)) /\ Len(RowOver(k, Parted)) = Len(p)
       /\ \A i \in 1..Len(p) : RowOver(k, Parted)[i] = Each(k[i], Parted)
  BY <1>1, <1>10, RowOverType
<1>12. v = RowOver(k, Parted)
  <2>1. \A i \in 1..Len(v) : v[i] = RowOver(k, Parted)[i]
    BY <1>9, <1>11
  <2>. QED BY <1>7, <1>9, <1>11, <2>1, SeqEqual
<1>13. Each(FlattenSeq(k), Parted) = FlattenSeq(RowOver(k, Parted))
  BY <1>1, <1>10, EachOver
<1>14. FlattenSeq(r) \in Seq(Seq(Word))
  BY <1>6, FlatType
<1>. QED BY <1>1, <1>3, <1>7, <1>12, <1>13, <1>14

(* The words of a text are those of its sentences.                         *)
LEMMA WordsHold ==
  ASSUME NEW p \in Seq(Seq(Word))
  PROVE  \A w : w \in WordsIn(p) <=> \E s \in ToSet(p) : w \in ToSet(s)
<1>1. \A w : w \in ToSet(FlattenSeq(p)) <=> \E i \in 1..Len(p) : w \in ToSet(p[i])
  BY FlatHolds
<1>2. DOMAIN p = 1..Len(p)
  OBVIOUS
<1>3. \A x : x \in ToSet(p) <=> \E i \in 1..Len(p) : x = p[i]
  BY <1>2 DEF ToSet
<1>. QED BY <1>1, <1>3 DEF WordsIn, Words

(* The pruner adds no token and no match, and no word but what it takes a  *)
(* number apart into; with as many matches all figures are in their places,*)
(* if there is no measure.                                                 *)
LEMMA PruneKeeps ==
  ASSUME NEW p \in Seq(Seq(Word))
  PROVE  /\ Prune(p) \in Seq(Seq(Word)) /\ ToSet(Prune(p)) \subseteq Seq(Word) \ {<<>>}
         /\ Tokens(Prune(p)) \in Nat /\ Tokens(p) \in Nat /\ Tokens(Prune(p)) <= Tokens(p)
         /\ Quantities(Prune(p)) \in Nat /\ Quantities(p) \in Nat /\ Quantities(Prune(p)) <= Quantities(p)
         /\ Quantities(Prune(p)) = Quantities(p) /\ "measure" \notin WordsIn(p) =>
              Figures(Prune(p)) = Figures(p)
         /\ WordsIn(Prune(p)) \subseteq WordsIn(p) \cup {"number", "unit"}
<1>. DEFINE k == RowOver(p, Without(Modifiers))
            g == Split(p)
            m == Nonempty(g)
            kept == FlattenSeq(k)
<1>1. /\ k \in Seq(Seq(Word)) /\ Len(k) = Len(p)
      /\ \A i \in 1..Len(p) : p[i] \in Seq(Word) /\ k[i] = Each(p[i], Without(Modifiers))
      /\ Prune(p) = Distinct(m)
      /\ g \in Seq(Seq(Word)) /\ FlattenSeq(g) = Each(kept, Parted)
  BY SplitWords
<1>. HIDE DEF k, g, m
<1>2. m \in Seq(Seq(Word)) /\ ToSet(m) \subseteq ToSet(g) \ {<<>>} /\ Words(m) = Each(kept, Parted)
  BY <1>1, NonemptyKeeps DEF m, Words
<1>3. kept \in Seq(Word)
  BY <1>1, FlatType
<1>. HIDE DEF kept
<1>4. /\ Prune(p) \in Seq(Seq(Word)) /\ ToSet(Prune(p)) \subseteq ToSet(m)
      /\ \A f \in Replacing :
           /\ Len(Each(Words(Prune(p)), f)) \in Nat /\ Len(Each(Words(m), f)) \in Nat
           /\ Len(Each(Words(Prune(p)), f)) <= Len(Each(Words(m), f))
      /\ \A f \in Replacing, h \in Replacing :
           /\ Len(Each(Words(Prune(p)), f)) = Len(Each(Words(m), f))
           /\ \A s \in Seq(Word) : Each(s, f) = <<>> => Each(s, h) = <<>>
           => Each(Words(Prune(p)), h) = Each(Words(m), h)
  BY <1>1, <1>2, DistinctKeeps
<1>5. Matched \in Replacing /\ Figured \in Replacing /\ Tokened \in Replacing /\ Parted \in Replacing
  BY Measures DEF Measure
<1>6. ASSUME NEW f \in Replacing
      PROVE Each(Words(m), f) = Each(kept, Twice(Parted, f)) /\ Twice(Parted, f) \in Replacing
  BY <1>2, <1>3, <1>5, EachTwice
<1>7. ASSUME NEW f \in Replacing
      PROVE  /\ Len(Each(kept, f)) \in Nat /\ Len(Each(Words(p), f)) \in Nat
             /\ Len(Each(kept, f)) <= Len(Each(Words(p), f))
             /\ (\A w \in Modifiers : f[w] = <<>>) => Each(kept, f) = Each(Words(p), f)
  <2>1. \A i \in 1..Len(k) : /\ Len(Each(k[i], f)) <= Len(Each(p[i], f))
                             /\ (\A w \in Modifiers : f[w] = <<>>) => Each(k[i], f) = Each(p[i], f)
    BY <1>1, LeftOut
  <2>2. /\ Len(Each(FlattenSeq(k), f)) \in Nat /\ Len(Each(FlattenSeq(p), f)) \in Nat
        /\ Len(Each(FlattenSeq(k), f)) <= Len(Each(FlattenSeq(p), f))
    <3>1. \A i \in 1..Len(k) : Len(Each(k[i], f)) <= Len(Each(p[i], f))
      BY <2>1
    <3>2. k \in Seq(Seq(Word)) /\ Len(k) = Len(p)
      BY <1>1
    <3>. QED BY <3>1, <3>2, OverShorter
  <2>3. ASSUME \A w \in Modifiers : f[w] = <<>> PROVE Each(FlattenSeq(k), f) = Each(FlattenSeq(p), f)
    <3>1. \A i \in 1..Len(k) : Each(k[i], f) = Each(p[i], f)
      BY <2>1, <2>3
    <3>2. k \in Seq(Seq(Word)) /\ Len(k) = Len(p)
      BY <1>1
    <3>. QED BY <3>1, <3>2, OverSame
  <2>. QED BY <2>2, <2>3 DEF kept, Words
<1>8. Tokens(Prune(p)) \in Nat /\ Tokens(p) \in Nat /\ Tokens(Prune(p)) <= Tokens(p)
  <2>1. /\ Len(Each(kept, Twice(Parted, Tokened))) \in Nat
        /\ Len(Each(kept, Twice(Parted, Tokened))) <= Len(Each(kept, Tokened))
    BY <1>3, <1>5, <1>6, PartedCounts, EachShorter
  <2>2. /\ Len(Each(kept, Tokened)) \in Nat /\ Len(Each(Words(p), Tokened)) \in Nat
        /\ Len(Each(kept, Tokened)) <= Len(Each(Words(p), Tokened))
    BY <1>5, <1>7
  <2>3. /\ Len(Each(Words(Prune(p)), Tokened)) \in Nat
        /\ Len(Each(Words(Prune(p)), Tokened)) <= Len(Each(kept, Twice(Parted, Tokened)))
    BY <1>4, <1>5, <1>6
  <2>. QED BY <2>1, <2>2, <2>3 DEF Tokens
<1>9. /\ Len(Each(kept, Twice(Parted, Matched))) \in Nat /\ Len(Each(kept, Matched)) \in Nat
      /\ Len(Each(kept, Twice(Parted, Matched))) <= Len(Each(kept, Matched))
      /\ Len(Each(kept, Twice(Parted, Matched))) = Len(Each(kept, Matched)) =>
           \A i \in 1..Len(kept) : Len(Twice(Parted, Matched)[kept[i]]) = Len(Matched[kept[i]])
  BY <1>3, <1>5, <1>6, PartedCounts, EachShorter
<1>10. Each(kept, Matched) = Each(Words(p), Matched) /\ Each(kept, Figured) = Each(Words(p), Figured)
  BY <1>5, <1>7, Measures
<1>11. /\ Quantities(Prune(p)) \in Nat /\ Quantities(p) = Len(Each(kept, Matched))
       /\ Quantities(Prune(p)) = Len(Each(Words(Prune(p)), Matched))
       /\ Quantities(Prune(p)) <= Len(Each(Words(m), Matched))
       /\ Len(Each(Words(m), Matched)) = Len(Each(kept, Twice(Parted, Matched)))
  BY <1>4, <1>5, <1>6, <1>10 DEF Quantities
<1>16. ToSet(kept) \subseteq WordsIn(p)
  <2>. SUFFICES ASSUME NEW x \in ToSet(kept) PROVE x \in WordsIn(p)
    OBVIOUS
  <2>1. PICK n \in 1..Len(k) : x \in ToSet(k[n])
    BY <1>1, FlatHolds DEF kept
  <2>2. n \in 1..Len(p) /\ p[n] \in Seq(Word) /\ k[n] = Each(p[n], Without(Modifiers))
    BY <1>1, <2>1
  <2>3. ToSet(Each(p[n], Without(Modifiers))) \subseteq ToSet(p[n])
    BY <1>5, <2>2, LeftOut
  <2>4. p[n] \in ToSet(p)
    BY <2>2 DEF ToSet
  <2>. QED BY <2>1, <2>2, <2>3, <2>4, WordsHold
<1>12. ASSUME Quantities(Prune(p)) = Quantities(p), "measure" \notin WordsIn(p)
       PROVE  Figures(Prune(p)) = Figures(p)
  <2>1. /\ Len(Each(Words(Prune(p)), Matched)) = Len(Each(Words(m), Matched))
        /\ Len(Each(kept, Twice(Parted, Matched))) = Len(Each(kept, Matched))
    BY <1>9, <1>11, <1>12
  <2>6. \A i \in 1..Len(kept) : kept[i] \in ToSet(kept)
    BY <1>3 DEF ToSet
  <2>2. \A i \in 1..Len(kept) : kept[i] \notin Pointed /\ kept[i] \in Word
    <3>1. \A i \in 1..Len(kept) : kept[i] # "decimal" /\ kept[i] \in Word
      BY <1>3, <1>9, <2>1, PartedCounts
    <3>. QED BY <1>12, <1>16, <2>6, <3>1 DEF Pointed
  <2>3. \A i \in 1..Len(kept) : Twice(Parted, Figured)[kept[i]] = Figured[kept[i]]
    BY <1>5, <2>2, PartedCounts
  <2>4. Each(kept, Twice(Parted, Figured)) = Each(kept, Figured)
    BY <1>3, <1>5, <1>6, <2>3, EachSame
  <2>5. Each(Words(Prune(p)), Figured) = Each(Words(m), Figured)
    BY <1>4, <1>5, <2>1, FiguresMatch
  <2>. QED BY <1>5, <1>6, <1>10, <2>4, <2>5 DEF Figures
<1>13. WordsIn(Prune(p)) \subseteq WordsIn(p) \cup {"number", "unit"}
  <2>. SUFFICES ASSUME NEW w \in WordsIn(Prune(p)) PROVE w \in {"number", "unit"} \/ w \in WordsIn(p)
    OBVIOUS
  <2>1. PICK s \in ToSet(Prune(p)) : w \in ToSet(s)
    BY <1>4, WordsHold
  <2>2. s \in ToSet(m)
    BY <1>4, <2>1
  <2>3. w \in WordsIn(m)
    BY <1>2, <2>1, <2>2, WordsHold
  <2>4. w \in ToSet(Each(kept, Parted))
    BY <1>2, <2>3 DEF WordsIn
  <2>5. PICK x \in ToSet(kept) : w \in ToSet(Parted[x])
    BY <1>3, <1>5, <2>4, EachHolds
  <2>6. x \in Word
    BY <1>3, <2>5 DEF ToSet
  <2>7. w \in {"number", "unit"} \/ w = x
    <3>1. ToSet(<<"number", Rest(x)>>) = {"number", Rest(x)} /\ ToSet(<<x>>) = {x}
      BY DEF ToSet
    <3>2. Rest(x) \in {"number", "unit"}
      BY DEF Rest
    <3>. QED BY <2>5, <2>6, <3>1, <3>2 DEF Parted
  <2>. QED BY <1>16, <2>5, <2>7
<1>14. ToSet(g) \subseteq Seq(Word)
  BY <1>1 DEF ToSet
<1>15. Quantities(p) \in Nat /\ Quantities(Prune(p)) <= Quantities(p)
  BY <1>9, <1>11
<1>. QED BY <1>2, <1>4, <1>8, <1>11, <1>12, <1>13, <1>14, <1>15

-----------------------------------------------------------------------------
(* OutputShaper, and what all the stages leave of a prompt                 *)

(* The words that templates and shaping bring, and those a rewrite leaves. *)
PlainWord    == {"data", "only", "if", "or", "for", "any", "required", "standard", "exactly", "short"}
MildWord == {"mark", "number", "unit", "data", "standard"}

OptCalls ==
  {c \in [prompt : Prompts, preserve : BOOLEAN, intent : Template, object : Word] : c.object \in Objects(c.prompt)}
Passed(c) == IF Building(c) THEN BuildStructure(c) ELSE Compress(c.prompt)
Final(c)  == ShapeOutput(Prune(Passed(c)), c)

(* PlainWord words hold no number, and each is a token.                        *)
LEMMA PlainCounts ==
  ASSUME NEW z \in Seq(PlainWord)
  PROVE  /\ z \in Seq(Word) /\ ToSet(z) \subseteq PlainWord
         /\ \A f \in {Matched, Figured} : Each(z, f) = <<>>
         /\ Each(z, Tokened) \in Seq(Word) /\ Len(Each(z, Tokened)) <= Len(z)
<1>1. PlainWord \subseteq Word
  BY DEF PlainWord, Word
<1>2. z \in Seq(Word) /\ ToSet(z) \subseteq PlainWord
  <2>1. DOMAIN z = 1..Len(z) /\ \A i \in 1..Len(z) : z[i] \in PlainWord
    OBVIOUS
  <2>2. z \in Seq(Word)
    BY <1>1
  <2>. QED BY <2>1, <2>2 DEF ToSet
<1>3. Matched \in Replacing /\ Figured \in Replacing /\ Tokened \in Replacing
  BY Measures DEF Measure
<1>4. ASSUME NEW f \in {Matched, Figured} PROVE Each(z, f) = <<>>
  <2>1. \A w \in PlainWord : f[w] = <<>>
    BY <1>1 DEF PlainWord, Matched, Figured
  <2>2. \A x : x \in ToSet(Each(z, f)) <=> \E w \in ToSet(z) : x \in ToSet(f[w])
    BY <1>2, <1>3, EachHolds
  <2>3. ToSet(<<>>) = {} /\ \A x \in Seq(Word) : x # <<>> => x[1] \in ToSet(x)
    BY DEF ToSet
  <2>4. Each(z, f) \in Seq(Word)
    BY <1>2, <1>3, EachType
  <2>. QED BY <1>2, <2>1, <2>2, <2>3, <2>4
<1>5. Each(z, Tokened) \in Seq(Word)
  BY <1>2, <1>3, EachType
<1>6. Len(Each(z, Tokened)) <= Len(z)
  <2>. DEFINE r == Row(z, Tokened)
  <2>1. /\ r \in Seq(Seq(Word)) /\ Len(r) = Len(z)
        /\ \A i \in 1..Len(z) : r[i] = Tokened[z[i]]
        /\ Each(z, Tokened) = FlattenSeq(r)
    BY <1>2, <1>3, RowType
  <2>. HIDE DEF r
  <2>2. \A w \in PlainWord : Tokened[w] = <<w>> /\ Len(<<w>>) = 1
    BY <1>1 DEF PlainWord, Tokened, Pointed
  <2>3. \A i \in 1..Len(r) : Len(r[i]) <= 1
    <3>. SUFFICES ASSUME NEW i \in 1..Len(z) PROVE Len(r[i]) <= 1
      BY <2>1
    <3>1. z[i] \in PlainWord
      OBVIOUS
    <3>2. r[i] = <<z[i]>> /\ Len(<<z[i]>>) = 1
      BY <2>1, <2>2, <3>1
    <3>. QED BY <3>2
  <2>4. Len(FlattenSeq(r)) <= 1 * Len(r)
    BY <2>1, <2>3, FlatLength
  <2>5. Len(Each(z, Tokened)) <= 1 * Len(z) /\ Len(z) \in Nat
    BY <2>1, <2>4
  <2>6. \A m, n \in Nat : m <= 1 * n => m <= n
    OBVIOUS
  <2>7. Len(Each(z, Tokened)) \in Nat
    BY <1>5
  <2>. QED BY ONLY <2>5, <2>6, <2>7
<1>. QED BY <1>2, <1>4, <1>5, <1>6

(* Templates and shaping sentences are plain.                              *)
LEMMA PlainParts ==
  ASSUME NEW c, c.intent \in Template
  PROVE  /\ ShapingFor(c) \in Seq(PlainWord) /\ Len(ShapingFor(c)) \in 1..5
         /\ Labels(c.intent) \in Seq(PlainWord) /\ Style(c.prompt) \in Seq(PlainWord)
         /\ ToSet(Style(c.prompt)) \subseteq WordsIn(c.prompt) \cup {"standard"}
<1>1. /\ \A a \in PlainWord : <<a>> \in Seq(PlainWord)
      /\ \A a, b \in PlainWord : <<a, b>> \in Seq(PlainWord)
      /\ \A a, b, d \in PlainWord : <<a, b, d>> \in Seq(PlainWord)
      /\ \A a, b, d, e \in PlainWord : <<a, b, d, e>> \in Seq(PlainWord)
      /\ \A a, b, d, e, g \in PlainWord : <<a, b, d, e, g>> \in Seq(PlainWord)
      /\ \A a, b, d, e, g, h \in PlainWord : <<a, b, d, e, g, h>> \in Seq(PlainWord)
  OBVIOUS
<1>2. {"data", "only", "if", "or", "for", "any", "required", "standard", "exactly", "short"} \subseteq PlainWord
  BY DEF PlainWord
<1>3. ShapingFor(c) \in Seq(PlainWord) /\ Len(ShapingFor(c)) \in 1..5
  <2>1. \/ ShapingFor(c) = <<"data", "data", "data", "data", "only">> \/ ShapingFor(c) = <<"data", "data", "data">>
        \/ ShapingFor(c) = <<"data", "data", "only">> \/ ShapingFor(c) = <<"data", "data", "only", "if", "required">>
        \/ ShapingFor(c) = <<"data", "or", "data", "if", "any">> \/ ShapingFor(c) = <<"data", "for", "data", "only">>
    <3>1. CASE c.intent = "analyze"
      BY <3>1 DEF ShapingFor
    <3>2. CASE c.intent # "analyze"
      BY <3>2 DEF ShapingFor, Template
    <3>. QED BY <3>1, <3>2
  <2>2. ShapingFor(c) \in Seq(PlainWord)
    <3>1. /\ <<"data", "data", "data", "data", "only">> \in Seq(PlainWord)
          /\ <<"data", "data", "only", "if", "required">> \in Seq(PlainWord)
          /\ <<"data", "or", "data", "if", "any">> \in Seq(PlainWord)
      BY <1>1, <1>2, Zenon
    <3>2. <<"data", "data", "data">> \in Seq(PlainWord) /\ <<"data", "data", "only">> \in Seq(PlainWord)
      BY <1>1, <1>2, Zenon
    <3>3. <<"data", "for", "data", "only">> \in Seq(PlainWord)
      BY <1>1, <1>2, Zenon
    <3>. QED BY ONLY <2>1, <3>1, <3>2, <3>3, Zenon
  <2>3. Len(ShapingFor(c)) \in 1..5
    BY <2>1
  <2>. QED BY <2>2, <2>3
<1>4. Labels(c.intent) \in Seq(PlainWord)
  <2>1. \/ Labels(c.intent) = <<"data", "data", "data", "required", "data", "data">>
        \/ Labels(c.intent) = <<"data", "if", "data", "or", "data", "if">>
        \/ Labels(c.intent) = <<"data", "for", "data", "for", "data", "for">>
        \/ Labels(c.intent) = <<"data", "data", "data", "data", "data", "data">>
    BY DEF Labels, Template
  <2>2. /\ <<"data", "data", "data", "required", "data", "data">> \in Seq(PlainWord)
        /\ <<"data", "if", "data", "or", "data", "if">> \in Seq(PlainWord)
    BY <1>1, <1>2, Zenon
  <2>3. /\ <<"data", "for", "data", "for", "data", "for">> \in Seq(PlainWord)
        /\ <<"data", "data", "data", "data", "data", "data">> \in Seq(PlainWord)
    BY <1>1, <1>2, Zenon
  <2>. QED BY ONLY <2>1, <2>2, <2>3, Zenon
<1>5. Style(c.prompt) \in Seq(PlainWord) /\ ToSet(Style(c.prompt)) \subseteq WordsIn(c.prompt) \cup {"standard"}
  <2>. DEFINE W == WordsIn(c.prompt)
  <2>1. \/ Style(c.prompt) = <<"exactly", "short">> /\ "exactly" \in W /\ "short" \in W
        \/ Style(c.prompt) = <<"exactly">> /\ "exactly" \in W
        \/ Style(c.prompt) = <<"short">> /\ "short" \in W
        \/ Style(c.prompt) = <<"standard">>
    BY DEF Style
  <2>2. \A a, b : ToSet(<<a, b>>) = {a, b} /\ ToSet(<<a>>) = {a}
    BY DEF ToSet
  <2>3. /\ <<"exactly", "short">> \in Seq(PlainWord) /\ <<"exactly">> \in Seq(PlainWord)
        /\ <<"short">> \in Seq(PlainWord) /\ <<"standard">> \in Seq(PlainWord)
    BY <1>1, <1>2, Zenon
  <2>. HIDE DEF W
  <2>4. Style(c.prompt) \in Seq(PlainWord)
    BY ONLY <2>1, <2>3, Zenon
  <2>5. ToSet(Style(c.prompt)) \subseteq W \cup {"standard"}
    <3>1. CASE Style(c.prompt) = <<"exactly", "short">> /\ "exactly" \in W /\ "short" \in W
      BY <2>2, <3>1
    <3>2. ASSUME NEW a, Style(c.prompt) = <<a>>, a \in W \cup {"standard"}
          PROVE  ToSet(Style(c.prompt)) \subseteq W \cup {"standard"}
      BY <2>2, <3>2
    <3>. QED BY <2>1, <3>1, <3>2
  <2>. QED BY <2>4, <2>5 DEF W
<1>. QED BY <1>3, <1>4, <1>5

(* The object of a template is a word of the prompt, but for its point.    *)
LEMMA ObjectCounts ==
  ASSUME NEW c \in OptCalls
  PROVE  /\ c.object \in Word \ Pointed /\ c.object \in WordsIn(c.prompt) \cup {"data", "number"}
         /\ Matched[c.object] = (IF c.object = "number" THEN <<"number">> ELSE <<>>)
         /\ Figured[c.object] = Matched[c.object]
<1>1. c.object \in Word /\ c.object \in Objects(c.prompt)
  BY DEF OptCalls
<1>2. c.object \notin Pointed /\ c.object \in WordsIn(c.prompt) \cup {"data", "number"}
  BY <1>1 DEF Objects, Spoken, Pointed
<1>3. Pointed = {"decimal", "measure"}
  BY DEF Pointed
<1>4. Matched[c.object] = (IF c.object = "number" THEN <<"number">> ELSE <<>>)
  BY <1>1, <1>2, <1>3 DEF Matched
<1>5. Figured[c.object] = (IF c.object = "number" THEN <<"number">> ELSE <<>>)
  BY <1>1, <1>2, <1>3 DEF Figured
<1>. QED BY <1>1, <1>2, <1>4, <1>5

(* A filled template: plain words, those of the prompt, and at most one    *)
(* number, its object.                                                     *)
LEMMA BuiltCounts ==
  ASSUME NEW c \in OptCalls, NEW b, b = BuildStructure(c)
  PROVE  /\ b \in Seq(Seq(Word)) /\ \A i \in DOMAIN b : b[i] # <<>>
         /\ WordsIn(b) \subseteq WordsIn(c.prompt) \cup MildWord \cup ToSet(Labels(c.intent))
         /\ "measure" \notin WordsIn(b)
         /\ \A f \in {Matched, Figured} : Each(Words(b), f) = f[c.object]
<1>. DEFINE l == Labels(c.intent)
            t == Style(c.prompt)
            o == c.object
<1>1. c.intent \in Template
  BY DEF OptCalls
<1>2. /\ l \in Seq(Word) /\ ToSet(l) \subseteq PlainWord /\ \A f \in {Matched, Figured} : Each(l, f) = <<>>
      /\ t \in Seq(Word) /\ ToSet(t) \subseteq PlainWord /\ \A f \in {Matched, Figured} : Each(t, f) = <<>>
      /\ ToSet(t) \subseteq WordsIn(c.prompt) \cup {"standard"}
  BY <1>1, PlainParts, PlainCounts
<1>3. o \in Word \ Pointed /\ o \in WordsIn(c.prompt) \cup {"data", "number"}
  BY ObjectCounts
<1>4. b = <<Append(l, o) \o t>>
  BY DEF BuildStructure
<1>. HIDE DEF l, t, o
<1>. DEFINE s == Append(l, o)
<1>5. s \in Seq(Word) /\ s = l \o <<o>> /\ <<o>> \in Seq(Word)
  BY <1>2, <1>3, AppendIsConcat
<1>. HIDE DEF s
<1>6. s \o t \in Seq(Word) /\ s \o t # <<>>
  <2>1. s \o t \in Seq(Word) /\ Len(s \o t) = Len(s) + Len(t) /\ Len(t) \in Nat
    BY <1>2, <1>5
  <2>2. Len(s) = Len(l) + 1 /\ Len(l) \in Nat /\ Len(<<>>) = 0
    BY <1>2, <1>3 DEF s
  <2>. QED BY <2>1, <2>2
<1>7. b \in Seq(Seq(Word)) /\ \A i \in DOMAIN b : b[i] # <<>>
  <2>1. b = <<s \o t>>
    BY <1>4 DEF s
  <2>. QED BY <1>6, <2>1
<1>8. Words(b) = s \o t
  <2>1. FlattenSeq(<<s \o t>>) = s \o t
    BY <1>6, FlatOne
  <2>. QED BY <1>4, <2>1 DEF Words, s
<1>9. \A w : w \in WordsIn(b) <=> w \in ToSet(l) \/ w = o \/ w \in ToSet(t)
  <2>1. \A w : w \in ToSet(s \o t) <=> w \in ToSet(s) \/ w \in ToSet(t)
    BY <1>2, <1>5, JoinedMembers
  <2>2. \A w : w \in ToSet(l \o <<o>>) <=> w \in ToSet(l) \/ w \in ToSet(<<o>>)
    BY <1>2, <1>5, JoinedMembers
  <2>3. ToSet(<<o>>) = {o}
    BY DEF ToSet
  <2>. QED BY <1>5, <1>8, <2>1, <2>2, <2>3 DEF WordsIn
<1>10. WordsIn(b) \subseteq WordsIn(c.prompt) \cup MildWord \cup ToSet(l)
  BY <1>2, <1>3, <1>9 DEF MildWord
<1>11. "measure" \notin WordsIn(b)
  <2>1. "measure" \notin PlainWord /\ "measure" \in Pointed
    BY DEF PlainWord, Pointed
  <2>. QED BY <1>2, <1>3, <1>9, <2>1
<1>12. ASSUME NEW f \in {Matched, Figured} PROVE Each(Words(b), f) = f[o]
  <2>1. f \in Replacing /\ f[o] \in Seq(Word)
    BY <1>3, Measures DEF Measure, Replacing
  <2>2. Each(s \o t, f) = Each(s, f) \o Each(t, f)
    BY <1>2, <1>5, <2>1, EachConcat
  <2>3. Each(s, f) = Each(l, f) \o f[o]
    BY <1>2, <1>3, <2>1, EachAppend DEF s
  <2>4. <<>> \o f[o] = f[o] /\ f[o] \o <<>> = f[o]
    BY <2>1, ConcatEmptySeq
  <2>. QED BY <1>2, <1>8, <2>2, <2>3, <2>4
<1>. QED BY <1>7, <1>10, <1>11, <1>12 DEF l, o

(* Shaping adds a sentence of at most five words, no number among them.    *)
LEMMA ShapingAdds ==
  ASSUME NEW p \in Seq(Seq(Word)), NEW c, c.intent \in Template
  PROVE  /\ ShapingFor(c) \in Seq(Word) \ {<<>>}
         /\ ShapeOutput(p, c) \in Seq(Seq(Word))
         /\ ToSet(ShapeOutput(p, c)) \subseteq ToSet(p) \cup {ShapingFor(c)}
         /\ WordsIn(ShapeOutput(p, c)) \subseteq WordsIn(p) \cup ToSet(ShapingFor(c))
         /\ \A f \in {Matched, Figured} : Each(Words(ShapeOutput(p, c)), f) = Each(Words(p), f)
         /\ Tokens(ShapeOutput(p, c)) \in Nat /\ Tokens(p) \in Nat
              /\ Tokens(ShapeOutput(p, c)) <= Tokens(p) + 5
<1>. DEFINE z == ShapingFor(c)
            q == ShapeOutput(p, c)
<1>1. /\ z \in Seq(Word) /\ ToSet(z) \subseteq PlainWord /\ Len(z) \in 1..5
      /\ \A f \in {Matched, Figured} : Each(z, f) = <<>>
      /\ Each(z, Tokened) \in Seq(Word) /\ Len(Each(z, Tokened)) <= Len(z)
  BY PlainParts, PlainCounts
<1>. HIDE DEF z
<1>3. z # <<>>
  <2>1. Len(<<>>) = 0
    OBVIOUS
  <2>2. Len(z) \in 1..5
    BY <1>1
  <2>3. 0 \notin 1..5
    BY ONLY SMT
  <2>. QED BY <2>1, <2>2, <2>3, Zenon
<1>4. q = Append(p, z)
  BY DEF ShapeOutput, z
<1>. HIDE DEF q
<1>5. q \in Seq(Seq(Word)) /\ ToSet(q) \subseteq ToSet(p) \cup {z}
  <2>1. q \in Seq(Seq(Word)) /\ Len(q) = Len(p) + 1 /\ q[Len(p) + 1] = z
          /\ (\A i \in 1..Len(p) : q[i] = p[i]) /\ Len(p) \in Nat
    BY <1>1, <1>4
  <2>2. DOMAIN q = 1..(Len(p) + 1) /\ DOMAIN p = 1..Len(p) /\ \A i \in 1..(Len(p) + 1) : i \in 1..Len(p)
          \/ i = Len(p) + 1
    BY <2>1
  <2>3. ASSUME NEW x \in ToSet(q) PROVE x \in ToSet(p) \cup {z}
    <3>1. PICK i \in DOMAIN q : x = q[i]
      BY DEF ToSet
    <3>2. x = z \/ \E j \in DOMAIN p : x = p[j]
      BY <2>1, <2>2, <3>1
    <3>. QED BY <3>2 DEF ToSet
  <2>. QED BY <2>1, <2>3
<1>6. Words(q) = Words(p) \o z /\ Words(p) \in Seq(Word)
  BY <1>1, <1>4, FlatAppend, FlatType DEF Words
<1>7. WordsIn(q) \subseteq WordsIn(p) \cup ToSet(z)
  BY <1>1, <1>6, JoinedMembers DEF WordsIn
<1>8. \A f \in Replacing : Each(Words(q), f) = Each(Words(p), f) \o Each(z, f)
        /\ Each(Words(p), f) \in Seq(Word) /\ Each(z, f) \in Seq(Word)
  <2>1. ASSUME NEW f \in Replacing PROVE Each(Words(q), f) = Each(Words(p), f) \o Each(z, f)
    <3>1. Each(Words(p) \o z, f) = Each(Words(p), f) \o Each(z, f)
      BY <1>1, <1>6, EachConcat
    <3>. QED BY <1>6, <3>1
  <2>2. ASSUME NEW f \in Replacing PROVE Each(Words(p), f) \in Seq(Word) /\ Each(z, f) \in Seq(Word)
    BY <1>1, <1>6, EachType
  <2>. QED BY <2>1, <2>2
<1>9. Matched \in Replacing /\ Figured \in Replacing /\ Tokened \in Replacing
  BY Measures DEF Measure
<1>10. ASSUME NEW f \in {Matched, Figured} PROVE Each(Words(q), f) = Each(Words(p), f)
  <2>1. Each(Words(p), f) \o <<>> = Each(Words(p), f)
    BY <1>8, <1>9, ConcatEmptySeq, Zenon
  <2>2. Each(z, f) = <<>>
    BY <1>1
  <2>. QED BY <1>8, <1>9, <2>1, <2>2
<1>11. Tokens(q) \in Nat /\ Tokens(p) \in Nat /\ Tokens(q) <= Tokens(p) + 5
  <2>1. PICK a \in Seq(Word), b \in Seq(Word) : a = Each(Words(p), Tokened) /\ b = Each(z, Tokened)
          /\ Each(Words(q), Tokened) = a \o b
    BY <1>8, <1>9
  <2>2. Len(b) \in Nat /\ Len(a) \in Nat /\ Len(a \o b) = Len(a) + Len(b)
    OBVIOUS
  <2>3. Len(b) <= 5
    <3>1. Len(b) <= Len(z) /\ Len(z) \in 1..5
      BY <1>1, <2>1
    <3>2. \A k \in Nat, n \in 1..5 : k <= n => k <= 5
      BY ONLY SMT
    <3>. QED BY <2>2, <3>1, <3>2, Zenon
  <2>. QED BY <2>1, <2>2, <2>3 DEF Tokens
<1>. QED BY <1>1, <1>3, <1>5, <1>7, <1>10, <1>11 DEF z, q

(* One match without a measure is one figure, a number.                    *)
LEMMA OneFigure ==
  ASSUME NEW s \in Seq(Word), "measure" \notin ToSet(s), Len(Each(s, Matched)) = 1
  PROVE  Each(s, Figured) = <<"number">>
<1>1. Matched \in Replacing /\ Figured \in Replacing
  BY Measures DEF Measure
<1>2. \A w \in ToSet(s) : w \in Word
  BY DEF ToSet
<1>3. ASSUME NEW w \in Word PROVE Len(Figured[w]) <= Len(Matched[w])
  <2>1. \A x : Len(<<x>>) = 1 /\ Len(<<>>) = 0 /\ Len(<<"number", "number", x>>) = 3
    OBVIOUS
  <2>2. CASE w \in {"number", "decimal"}
    <3>1. Figured[w] = <<w>> /\ (Matched[w] = <<"number">> \/ Matched[w] = <<"number", "number", w>>)
      BY <2>2 DEF Figured, Matched
    <3>2. Len(Figured[w]) = 1 /\ (Len(Matched[w]) = 1 \/ Len(Matched[w]) = 3)
      BY <2>1, <3>1, Zenon
    <3>3. \A k, n : k = 1 /\ (n = 1 \/ n = 3) => k <= n
      BY ONLY SMT
    <3>. QED BY <3>2, <3>3, Zenon
  <2>3. CASE w \notin {"number", "decimal"}
    <3>1. Figured[w] = <<>> /\ (Matched[w] = <<"number">> \/ Matched[w] = <<>>)
      BY <2>3 DEF Figured, Matched
    <3>2. Len(Figured[w]) = 0 /\ (Len(Matched[w]) = 0 \/ Len(Matched[w]) = 1)
      BY <2>1, <3>1, Zenon
    <3>3. \A k, n : k = 0 /\ (n = 0 \/ n = 1) => k <= n
      BY ONLY SMT
    <3>. QED BY <3>2, <3>3, Zenon
  <2>. QED BY <2>2, <2>3
<1>. DEFINE a == Each(s, Figured)
            b == Each(s, Matched)
<1>4. /\ Len(a) <= 1
      /\ Len(a) = 1 => \A i \in 1..Len(s) : Len(Figured[s[i]]) = Len(Matched[s[i]])
  BY <1>1, <1>3, EachShorter
<1>5. a \in Seq(Word) /\ b \in Seq(Word)
  BY <1>1, EachType
<1>6. /\ \A x : x \in ToSet(a) <=> \E w \in ToSet(s) : x \in ToSet(Figured[w])
      /\ \A x : x \in ToSet(b) <=> \E w \in ToSet(s) : x \in ToSet(Matched[w])
  BY <1>1, EachHolds
<1>. HIDE DEF a, b
<1>7. \A x : ToSet(<<x>>) = {x} /\ ToSet(<<>>) = {}
  BY DEF ToSet
<1>8. Len(a) = 1
  <2>1. b[1] \in ToSet(b)
    BY <1>5 DEF ToSet, b
  <2>2. PICK w \in ToSet(s) : b[1] \in ToSet(Matched[w])
    BY <1>6, <2>1
  <2>3. w \in Word /\ w # "measure"
    BY <1>2, <2>2
  <2>4. w \in {"number", "decimal"}
    BY <1>7, <2>2, <2>3 DEF Matched
  <2>5. Figured[w] = <<w>>
    BY <2>3, <2>4 DEF Figured
  <2>6. w \in ToSet(a)
    BY <1>6, <1>7, <2>2, <2>5
  <2>7. a # <<>>
    BY <1>7, <2>6
  <2>8. Len(a) \in Nat /\ Len(a) # 0
    BY <1>5, <2>7
  <2>9. \A k \in Nat : k <= 1 /\ k # 0 => k = 1
    BY ONLY SMT
  <2>. QED BY <1>4, <2>8, <2>9, Zenon
<1>9. a[1] = "number"
  <2>1. a[1] \in ToSet(a)
    BY <1>5, <1>8 DEF ToSet
  <2>2. PICK w \in ToSet(s) : a[1] \in ToSet(Figured[w])
    BY <1>6, <2>1
  <2>3. w \in Word /\ Len(Figured[w]) = Len(Matched[w])
    <3>1. PICK i \in 1..Len(s) : w = s[i]
      BY <2>2 DEF ToSet
    <3>. QED BY <1>2, <1>4, <1>8, <2>2, <3>1
  <2>4. w # "decimal"
    <3>1. ASSUME w = "decimal" PROVE FALSE
      <4>1. Figured[w] = <<w>> /\ Matched[w] = <<"number", "number", w>>
        BY <2>3, <3>1 DEF Figured, Matched
      <4>2. Len(<<w>>) = 1 /\ Len(<<"number", "number", w>>) = 3
        OBVIOUS
      <4>. QED BY <2>3, <4>1, <4>2
    <3>. QED BY <3>1
  <2>5. w = "number" /\ Figured[w] = <<"number">>
    BY <1>7, <2>2, <2>3, <2>4 DEF Figured
  <2>. QED BY <1>7, <2>2, <2>5
<1>10. a = <<"number">>
  BY <1>5, <1>8, <1>9
<1>. QED BY <1>10 DEF a

(* What the stages leave of a prompt.                                      *)
LEMMA FinalText ==
  ASSUME NEW c \in OptCalls, NEW p, p = c.prompt, NEW q, q = Final(c)
  PROVE  /\ p \in Seq(Seq(Word)) /\ q \in Seq(Seq(Word)) /\ ToSet(q) \subseteq Seq(Word) \ {<<>>}
         /\ Tokens(q) \in Nat /\ Tokens(p) \in Nat /\ Tokens(BuildStructure(c)) \in Nat
         /\ Tokens(q) <= Tokens(p) + 5 \/ Tokens(q) <= Tokens(BuildStructure(c)) + 5
         /\ Quantities(q) = Quantities(p) /\ "measure" \notin WordsIn(p) => Figures(q) = Figures(p)
         /\ WordsIn(q) \subseteq WordsIn(p) \cup MildWord \cup Brought(c)
<1>. DEFINE b == BuildStructure(c)
            x == Passed(c)
            y == Prune(x)
<1>1. p \in Seq(Seq(Word)) /\ c.intent \in Template
  BY PromptsAssumption DEF OptCalls
<1>2. /\ Compress(p) \in Seq(Seq(Word)) /\ ToSet(Compress(p)) \subseteq Seq(Word) \ {<<>>}
      /\ \A f \in {Matched, Figured} : Each(Words(Compress(p)), f) = Each(Words(p), f)
      /\ Tokens(Compress(p)) \in Nat /\ Tokens(p) \in Nat /\ Tokens(Compress(p)) <= Tokens(p)
      /\ WordsIn(Compress(p)) \subseteq WordsIn(p) \cup {"mark"}
  BY <1>1, CompressKeeps
<1>3. /\ b \in Seq(Seq(Word)) /\ "measure" \notin WordsIn(b)
      /\ WordsIn(b) \subseteq WordsIn(p) \cup MildWord \cup ToSet(Labels(c.intent))
      /\ \A f \in {Matched, Figured} : Each(Words(b), f) = f[c.object]
  BY BuiltCounts
<1>4. x = (IF Building(c) THEN b ELSE Compress(p)) /\ q = ShapeOutput(y, c)
  BY DEF Passed, Final
<1>. HIDE DEF b, x, y
<1>5. x \in Seq(Seq(Word))
  BY <1>2, <1>3, <1>4
<1>6. /\ y \in Seq(Seq(Word)) /\ ToSet(y) \subseteq Seq(Word) \ {<<>>}
      /\ Tokens(y) \in Nat /\ Tokens(x) \in Nat /\ Tokens(y) <= Tokens(x)
      /\ Quantities(y) \in Nat /\ Quantities(x) \in Nat /\ Quantities(y) <= Quantities(x)
      /\ Quantities(y) = Quantities(x) /\ "measure" \notin WordsIn(x) => Figures(y) = Figures(x)
      /\ WordsIn(y) \subseteq WordsIn(x) \cup {"number", "unit"}
  BY <1>5, PruneKeeps DEF y
<1>7. /\ ShapingFor(c) \in Seq(Word) \ {<<>>}
      /\ q \in Seq(Seq(Word)) /\ ToSet(q) \subseteq ToSet(y) \cup {ShapingFor(c)}
      /\ WordsIn(q) \subseteq WordsIn(y) \cup ToSet(ShapingFor(c))
      /\ \A f \in {Matched, Figured} : Each(Words(q), f) = Each(Words(y), f)
      /\ Tokens(q) \in Nat /\ Tokens(q) <= Tokens(y) + 5
  <2>1. y \in Seq(Seq(Word)) /\ q = ShapeOutput(y, c)
    BY <1>4, <1>6
  <2>. QED BY <1>1, <2>1, ShapingAdds, Zenon
<1>8. Quantities(q) = Quantities(y) /\ Figures(q) = Figures(y)
  BY <1>7 DEF Quantities, Figures
<1>9. Tokens(b) \in Nat
  BY <1>3, PruneKeeps
<1>10. Tokens(q) <= Tokens(p) + 5 \/ Tokens(q) <= Tokens(b) + 5
  <2>1. Tokens(q) <= Tokens(x) + 5
    BY <1>6, <1>7
  <2>2. CASE x = Compress(p)
    BY <1>2, <1>7, <2>1, <2>2
  <2>3. CASE x = b
    BY <2>1, <2>3
  <2>. QED BY <1>4, <2>2, <2>3
<1>11. ASSUME Quantities(q) = Quantities(p), "measure" \notin WordsIn(p) PROVE Figures(q) = Figures(p)
  <2>1. CASE x = Compress(p)
    <3>1. Quantities(x) = Quantities(p) /\ Figures(x) = Figures(p)
      BY <1>2, <2>1 DEF Quantities, Figures
    <3>2. "measure" \notin WordsIn(x)
      BY <1>2, <1>11, <2>1
    <3>. QED BY <1>6, <1>8, <1>11, <3>1, <3>2
  <2>2. CASE x = b
    <3>1. Quantities(x) = Len(Matched[c.object]) /\ Figures(x) = Figured[c.object]
      BY <1>3, <2>2 DEF Quantities, Figures
    <3>2. /\ Figured[c.object] = Matched[c.object]
          /\ Matched[c.object] = (IF c.object = "number" THEN <<"number">> ELSE <<>>)
      BY ObjectCounts
    <3>3. Len(<<"number">>) = 1 /\ Len(<<>>) = 0
      OBVIOUS
    <3>4. \/ Quantities(x) = 0
          \/ Quantities(x) = 1 /\ Figures(x) = <<"number">>
      BY <3>1, <3>2, <3>3
    <3>5. \A t \in Seq(Seq(Word)) : Quantities(t) = 0 => Figures(t) = <<>>
      <4>. SUFFICES ASSUME NEW t \in Seq(Seq(Word)), Quantities(t) = 0 PROVE Figures(t) = <<>>
        OBVIOUS
      <4>1. Words(t) \in Seq(Word)
        BY FlatType DEF Words
      <4>2. Each(Words(t), Matched) \in Seq(Word) /\ Len(Each(Words(t), Matched)) = 0
        BY <4>1, EachType, Measures DEF Measure, Quantities
      <4>3. Each(Words(t), Matched) = <<>>
        BY <4>2
      <4>. QED BY <4>1, <4>3, FiguresMatch DEF Figures
    <3>6. CASE Quantities(y) = 0
      BY <1>1, <1>6, <1>8, <1>11, <3>5, <3>6
    <3>7. CASE Quantities(y) # 0
      <4>1. Quantities(y) = 1 /\ Quantities(x) = 1 /\ Figures(x) = <<"number">>
        BY <1>6, <3>4, <3>7
      <4>2. Figures(y) = <<"number">>
        BY <1>3, <1>6, <2>2, <4>1
      <4>3. Words(p) \in Seq(Word) /\ Len(Each(Words(p), Matched)) = 1 /\ "measure" \notin ToSet(Words(p))
        BY <1>1, <1>8, <1>11, <4>1, FlatType DEF Words, WordsIn, Quantities
      <4>4. Figures(p) = <<"number">>
        BY <4>3, OneFigure DEF Figures
      <4>. QED BY <1>8, <4>2, <4>4
    <3>. QED BY <3>6, <3>7
  <2>. QED BY <1>4, <2>1, <2>2
<1>12. WordsIn(x) \subseteq WordsIn(p) \cup MildWord \cup Brought(c)
  <2>1. CASE Building(c)
    BY <1>3, <1>4, <2>1 DEF Brought
  <2>2. CASE ~Building(c)
    BY <1>2, <1>4, <2>2 DEF MildWord
  <2>. QED BY <2>1, <2>2
<1>13. WordsIn(q) \subseteq WordsIn(p) \cup MildWord \cup Brought(c)
  BY <1>6, <1>7, <1>12 DEF MildWord, Brought
<1>14. ToSet(q) \subseteq Seq(Word) \ {<<>>}
  BY <1>6, <1>7
<1>. QED BY <1>1, <1>2, <1>7, <1>9, <1>10, <1>11, <1>13, <1>14 DEF b

(* What the stages bring is plain.                                         *)
LEMMA BroughtPlain ==
  ASSUME NEW c \in OptCalls
  PROVE  Brought(c) \subseteq PlainWord
<1>1. c.intent \in Template
  BY DEF OptCalls
<1>2. ToSet(ShapingFor(c)) \subseteq PlainWord /\ ToSet(Labels(c.intent)) \subseteq PlainWord
  BY <1>1, PlainParts, PlainCounts
<1>. QED BY <1>2 DEF Brought

(* Fewer negations means one is lost, since none is added.                 *)
LEMMA NoneNegates ==
  ASSUME NEW c \in OptCalls, NEW p, p = c.prompt, NEW q, q = Final(c), ~Fewer(Negations(q), Negations(p))
  PROVE  Negations(p) \subseteq Negations(q)
<1>1. \A w : NegationsIn(w) \subseteq {"no", "not", "none"}
  BY DEF NegationsIn
<1>2. Negations(p) \subseteq {"no", "not", "none"}
  BY <1>1 DEF Negations
<1>3. IsFiniteSet(Negations(p))
  <2>1. IsFiniteSet({"no", "not", "none"})
    <3>1. IsFiniteSet({"no"}) /\ IsFiniteSet({"not"}) /\ IsFiniteSet({"none"})
      BY FS_Singleton
    <3>2. IsFiniteSet({"no"} \cup {"not"})
      BY <3>1, FS_Union
    <3>3. IsFiniteSet(({"no"} \cup {"not"}) \cup {"none"})
      BY <3>1, <3>2, FS_Union
    <3>4. {"no", "not", "none"} = ({"no"} \cup {"not"}) \cup {"none"}
      OBVIOUS
    <3>. QED BY <3>3, <3>4
  <2>. QED BY <1>2, <2>1, FS_Subset
<1>4. \A w \in MildWord \cup PlainWord : NegationsIn(w) = {}
  BY DEF NegationsIn, MildWord, PlainWord
<1>5. WordsIn(q) \subseteq WordsIn(p) \cup MildWord \cup PlainWord
  BY FinalText, BroughtPlain
<1>6. Negations(q) \subseteq Negations(p)
  BY <1>4, <1>5 DEF Negations
<1>7. /\ Cardinality(Negations(q)) <= Cardinality(Negations(p))
      /\ Cardinality(Negations(p)) = Cardinality(Negations(q)) => Negations(p) = Negations(q)
      /\ Cardinality(Negations(p)) \in Nat /\ Cardinality(Negations(q)) \in Nat
  BY <1>3, <1>6, FS_Subset, FS_CardinalityType
<1>8. Cardinality(Negations(p)) <= Cardinality(Negations(q))
  BY <1>7 DEF Fewer
<1>. QED BY <1>7, <1>8

(* As many of fewer and others: what is gone is no more than what came.    *)
LEMMA LostAndAdded ==
  ASSUME NEW S, NEW T, NEW A, IsFiniteSet(S), IsFiniteSet(A), T \subseteq S \cup A, ~Fewer(T, S)
  PROVE  Cardinality(S \ T) <= Cardinality(A \ S)
<1>1. IsFiniteSet(S \cup A) /\ IsFiniteSet(A \ S) /\ IsFiniteSet(S \ T)
  BY FS_Union, FS_Difference
<1>2. IsFiniteSet(T)
  BY <1>1, FS_Subset
<1>3. Cardinality(S \ T) = Cardinality(S) - Cardinality(S \cap T)
  BY FS_Difference
<1>4. Cardinality(T \ S) = Cardinality(T) - Cardinality(T \cap S)
  BY <1>2, FS_Difference
<1>5. T \cap S = S \cap T /\ T \ S \subseteq A \ S
  OBVIOUS
<1>6. Cardinality(T \ S) <= Cardinality(A \ S)
  BY <1>1, <1>5, FS_Subset
<1>7. IsFiniteSet(S \cap T) /\ IsFiniteSet(T \ S)
  BY <1>2, FS_Intersection, FS_Difference
<1>8. /\ Cardinality(S) \in Nat /\ Cardinality(T) \in Nat /\ Cardinality(A \ S) \in Nat
      /\ Cardinality(S \ T) \in Nat /\ Cardinality(T \ S) \in Nat /\ Cardinality(S \cap T) \in Nat
  BY <1>1, <1>2, <1>7, FS_CardinalityType
<1>9. ~(Cardinality(T) < Cardinality(S))
  BY DEF Fewer
<1>10. \A s, t, a, b, c, d \in Nat : b = s - d /\ c = t - d /\ c <= a /\ ~(t < s) => b <= a
  OBVIOUS
<1>11. Cardinality(T \ S) = Cardinality(T) - Cardinality(S \cap T)
  BY <1>4, <1>5
<1>. QED BY ONLY <1>3, <1>6, <1>8, <1>9, <1>10, <1>11

(* The constraint keywords are four.                                       *)
LEMMA KeywordsFinite == IsFiniteSet({"exactly", "must", "only", "require"})
<1>1. \A a, b : IsFiniteSet({a, b})
  <2>. SUFFICES ASSUME NEW a, NEW b PROVE IsFiniteSet({a, b})
    OBVIOUS
  <2>1. IsFiniteSet({a}) /\ IsFiniteSet({b})
    BY FS_Singleton
  <2>2. {a, b} = {a} \cup {b}
    OBVIOUS
  <2>. QED BY <2>1, <2>2, FS_Union
<1>2. {"exactly", "must", "only", "require"} = {"exactly", "must"} \cup {"only", "require"}
  OBVIOUS
<1>3. IsFiniteSet({"exactly", "must"}) /\ IsFiniteSet({"only", "require"})
  BY <1>1
<1>4. IsFiniteSet({"exactly", "must"} \cup {"only", "require"})
  BY <1>3, FS_Union
<1>. QED BY <1>2, <1>4

(* The keywords that the stages bring are few.                             *)
LEMMA AddedFinite ==
  ASSUME NEW p, NEW c
  PROVE  LET added == (UNION {ConstraintsIn(w) : w \in Brought(c)}) \ Constraints(p)
         IN  IsFiniteSet(added) /\ Cardinality(added) \in Nat
<1>. DEFINE K == {"exactly", "must", "only", "require"}
            added == (UNION {ConstraintsIn(w) : w \in Brought(c)}) \ Constraints(p)
<1>1. \A w : ConstraintsIn(w) \subseteq K
  BY DEF ConstraintsIn
<1>2. added \subseteq K
  BY <1>1
<1>3. IsFiniteSet(K)
  BY KeywordsFinite
<1>. HIDE DEF added, K
<1>4. IsFiniteSet(added)
  BY <1>2, <1>3, FS_Subset
<1>5. Cardinality(added) \in Nat
  BY <1>4, FS_CardinalityType
<1>. QED BY <1>4, <1>5 DEF added

(* No more constraints are lost than the stages bring.                     *)
LEMMA LostAreOffset ==
  ASSUME NEW c \in OptCalls, NEW p, p = c.prompt, NEW q, q = Final(c), ~Fewer(Constraints(q), Constraints(p))
  PROVE  Cardinality(Constraints(p) \ Constraints(q)) <=
           Cardinality((UNION {ConstraintsIn(w) : w \in Brought(c)}) \ Constraints(p))
<1>. DEFINE K == {"exactly", "must", "only", "require"}
            A == UNION {ConstraintsIn(w) : w \in Brought(c)}
<1>1. \A w : ConstraintsIn(w) \subseteq K
  BY DEF ConstraintsIn
<1>2. IsFiniteSet(K)
  BY KeywordsFinite
<1>3. Constraints(p) \subseteq K /\ A \subseteq K
  BY <1>1 DEF Constraints
<1>. HIDE DEF K
<1>4. IsFiniteSet(Constraints(p)) /\ IsFiniteSet(A)
  BY <1>2, <1>3, FS_Subset
<1>5. \A w \in MildWord : ConstraintsIn(w) = {}
  BY DEF ConstraintsIn, MildWord
<1>6. WordsIn(q) \subseteq WordsIn(p) \cup MildWord \cup Brought(c)
  BY FinalText
<1>7. Constraints(q) \subseteq Constraints(p) \cup A
  BY <1>5, <1>6 DEF Constraints
<1>. HIDE DEF A
<1>8. Cardinality(Constraints(p) \ Constraints(q)) <= Cardinality(A \ Constraints(p))
  BY <1>4, <1>7, LostAndAdded
<1>. QED BY <1>8 DEF A

-----------------------------------------------------------------------------
(* The optimizer                                                           *)

(* What the stages hold at each of their points.                           *)
OptPoints == {"detect", "compress", "build", "prune", "shape", "check", "done"}
OptLocked == optCall.preserve /\ Structure \in {"json", "code"}
OptStages ==
  /\ optAt \in {"detect", "compress"} => optText = Prompt
  /\ optAt = "build" => optText = Compress(Prompt) /\ Building(optCall)
  /\ optAt = "prune" => optText = Passed(optCall)
  /\ optAt = "shape" => optText = Prune(Passed(optCall))
  /\ optAt = "check" => optText = Final(optCall)
OptPending == optAt # "done" => reverted = FALSE /\ optOut = <<>> /\ optSaved = 0
OptOpen    == optAt \notin {"detect", "done"} => ~OptLocked
OptReturned ==
  optAt = "done" =>
    /\ OptLocked => optText = Prompt /\ optOut = Prompt /\ optSaved = 0 /\ reverted = FALSE
    /\ ~OptLocked =>
         /\ optText = Final(optCall)
         /\ optOut = IF reverted THEN Prompt ELSE optText
         /\ reverted = FALSE => ~Violates(Prompt, optText)
         /\ optSaved = Tokens(Prompt) - Tokens(optText)
OptInv ==
  /\ optCall \in OptCalls /\ optAt \in OptPoints /\ reverted \in BOOLEAN
  /\ OptStages /\ OptPending /\ OptOpen /\ OptReturned

(* A text of words, not longer than what it came from allows.              *)
Sized(c, t) ==
  /\ t \in Seq(Seq(Word)) /\ \A i \in DOMAIN t : t[i] # <<>>
  /\ Tokens(t) \in Nat
  /\ \E longest \in {Tokens(c.prompt), Tokens(BuildStructure(c))} : Tokens(t) <= longest + 5

(* A set of sentences without the empty one has it at no place.            *)
LEMMA NoneEmpty ==
  ASSUME NEW t \in Seq(Seq(Word)), ToSet(t) \subseteq Seq(Word) \ {<<>>}
  PROVE  \A i \in DOMAIN t : t[i] # <<>>
BY DEF ToSet

(* The prompt, and the text behind each stage, is sized.                   *)
LEMMA StagesSized ==
  ASSUME NEW c \in OptCalls, NEW p, p = c.prompt
  PROVE  /\ p \in Seq(Seq(Word)) /\ Sized(c, p) /\ Sized(c, Compress(p)) /\ Sized(c, Passed(c))
         /\ Sized(c, Prune(Passed(c))) /\ Sized(c, Final(c))
         /\ Tokens(p) \in Nat
<1>. DEFINE x == Passed(c)
            y == Prune(x)
            q == Final(c)
            m == Tokens(p)
            b == Tokens(BuildStructure(c))
<1>1. p \in Seq(Seq(Word)) /\ \A i \in DOMAIN p : p[i] # <<>>
  BY PromptsAssumption DEF OptCalls
<1>2. /\ Compress(p) \in Seq(Seq(Word)) /\ ToSet(Compress(p)) \subseteq Seq(Word) \ {<<>>}
      /\ Tokens(Compress(p)) \in Nat /\ Tokens(p) \in Nat /\ Tokens(Compress(p)) <= Tokens(p)
  BY <1>1, CompressKeeps
<1>3. BuildStructure(c) \in Seq(Seq(Word)) /\ \A i \in DOMAIN BuildStructure(c) : BuildStructure(c)[i] # <<>>
  BY BuiltCounts
<1>4. Tokens(BuildStructure(c)) \in Nat
  BY <1>3, PruneKeeps
<1>5. x = BuildStructure(c) \/ x = Compress(p)
  BY DEF Passed
<1>6. /\ q \in Seq(Seq(Word)) /\ ToSet(q) \subseteq Seq(Word) \ {<<>>} /\ Tokens(q) \in Nat
      /\ Tokens(q) <= Tokens(p) + 5 \/ Tokens(q) <= Tokens(BuildStructure(c)) + 5
  BY FinalText
<1>. HIDE DEF x, q
<1>7. x \in Seq(Seq(Word))
  BY <1>2, <1>3, <1>5
<1>8. /\ y \in Seq(Seq(Word)) /\ ToSet(y) \subseteq Seq(Word) \ {<<>>}
      /\ Tokens(y) \in Nat /\ Tokens(x) \in Nat /\ Tokens(y) <= Tokens(x)
  BY <1>7, PruneKeeps
<1>. HIDE DEF y, m, b
<1>9. m \in Nat /\ b \in Nat /\ m = Tokens(p) /\ b = Tokens(BuildStructure(c))
  BY <1>2, <1>4 DEF m, b
<1>10. ASSUME NEW t \in Seq(Seq(Word)), \A i \in DOMAIN t : t[i] # <<>>, Tokens(t) \in Nat,
              Tokens(t) <= m + 5 \/ Tokens(t) <= b + 5
       PROVE  Sized(c, t)
  BY <1>9, <1>10 DEF Sized
<1>11. Sized(c, p)
  BY <1>1, <1>9, <1>10
<1>12. Sized(c, Compress(p))
  <2>1. \A i \in DOMAIN Compress(p) : Compress(p)[i] # <<>>
    BY <1>2, NoneEmpty
  <2>2. Tokens(Compress(p)) <= m + 5
    BY <1>2, <1>9
  <2>. QED BY <1>2, <1>10, <2>1, <2>2
<1>13. Sized(c, BuildStructure(c))
  BY <1>3, <1>9, <1>10
<1>14. Sized(c, x)
  BY <1>5, <1>12, <1>13
<1>15. Sized(c, y)
  <2>1. Tokens(x) <= m \/ Tokens(x) = b
    BY <1>2, <1>5, <1>9
  <2>2. Tokens(y) <= m + 5 \/ Tokens(y) <= b + 5
    BY <1>8, <1>9, <2>1
  <2>3. \A i \in DOMAIN y : y[i] # <<>>
    BY <1>8, NoneEmpty
  <2>. QED BY <1>8, <1>10, <2>2, <2>3
<1>16. Sized(c, q)
  <2>1. \A i \in DOMAIN q : q[i] # <<>>
    BY <1>6, NoneEmpty
  <2>. QED BY <1>6, <1>9, <1>10, <2>1
<1>. QED BY <1>1, <1>2, <1>11, <1>12, <1>14, <1>15, <1>16 DEF x, y, q

(* What holds of the text at every point implies the property.             *)
LEMMA OptInvSuffices ==
  ASSUME OptInv
  PROVE  MeaningSurvives
<1>. DEFINE c == optCall
            p == c.prompt
<1>1. c \in OptCalls /\ Prompt = p /\ c.intent \in Template /\ c.object \in Word /\ c.preserve \in BOOLEAN
  BY DEF OptInv, OptCalls, Prompt
<1>2. p \in Seq(Seq(Word)) /\ Tokens(p) \in Nat
  BY <1>1, StagesSized
<1>3. optText \in {p, Compress(p), Passed(c), Prune(Passed(c)), Final(c)}
  <2>1. Prompt = p /\ OptStages /\ OptReturned /\ optAt \in OptPoints
    BY <1>1 DEF OptInv
  <2>2. OptLocked \/ ~OptLocked
    OBVIOUS
  <2>. HIDE DEF OptLocked, Final, Prompt, Compress, Passed, Prune
  <2>3. CASE optAt = "done"
    BY <2>1, <2>2, <2>3 DEF OptReturned
  <2>4. CASE optAt # "done"
    BY <2>1, <2>4 DEF OptStages, OptPoints
  <2>. QED BY <2>3, <2>4
<1>4. Sized(c, optText)
  BY <1>1, <1>3, StagesSized
<1>5. optOut \in {<<>>, p, optText} /\ optSaved \in Int
  <2>1. CASE optAt # "done"
    BY <2>1 DEF OptInv, OptPending
  <2>2. CASE optAt = "done"
    <3>1. Tokens(optText) \in Nat
      BY <1>4 DEF Sized
    <3>2. Tokens(p) - Tokens(optText) \in Int
      BY <1>2, <3>1
    <3>3. Prompt = p /\ OptReturned
      BY <1>1 DEF OptInv
    <3>4. \/ optOut = Prompt /\ optSaved = 0
          \/ (optOut = (IF reverted THEN Prompt ELSE optText) /\ optSaved = Tokens(Prompt) - Tokens(optText))
      BY <2>2, <3>3 DEF OptReturned
    <3>. QED BY <3>2, <3>3, <3>4
  <2>. QED BY <2>1, <2>2
<1>6. OptTypeOK
  <2>1. /\ optText \in Seq(Seq(Word)) /\ \A i \in DOMAIN optText : optText[i] # <<>>
        /\ \E longest \in {Tokens(Prompt), Tokens(BuildStructure(optCall))} : Tokens(optText) <= longest + 5
    BY <1>1, <1>4 DEF Sized
  <2>2. reverted \in BOOLEAN /\ optAt \in OptPoints
    BY DEF OptInv
  <2>3. optOut \in {<<>>, Prompt, optText} /\ optSaved \in Int
    BY <1>1, <1>5
  <2>. QED BY <1>1, <2>1, <2>2, <2>3 DEF OptTypeOK, OptPoints
<1>7. ASSUME Accepted
      PROVE  optOut = p \/ (optOut = optText /\ optText = Final(c) /\ ~Violates(p, optText))
  <2>1. optAt = "done" /\ reverted = FALSE /\ Prompt = p /\ OptReturned
    BY <1>1, <1>7 DEF OptInv, Accepted
  <2>. HIDE DEF Final, Violates, OptLocked
  <2>. QED BY <2>1 DEF OptReturned
<1>8. NumbersSurvive
  <2>. SUFFICES ASSUME Accepted, "measure" \notin WordsIn(p) PROVE Figures(optOut) = Figures(p)
    BY <1>1 DEF NumbersSurvive
  <2>1. CASE optOut = p
    BY <2>1
  <2>2. CASE optOut = optText /\ optText = Final(c) /\ ~Violates(p, optText)
    <3>1. Quantities(optText) = Quantities(p)
      BY <2>2 DEF Violates
    <3>. QED BY <1>1, <2>2, <3>1, FinalText
  <2>. QED BY <1>7, <2>1, <2>2
<1>9. NegationsSurvive
  <2>. SUFFICES ASSUME Accepted PROVE Negations(p) \subseteq Negations(optOut)
    BY <1>1 DEF NegationsSurvive
  <2>1. CASE optOut = p
    BY <2>1
  <2>2. CASE optOut = optText /\ optText = Final(c) /\ ~Violates(p, optText)
    <3>1. ~Fewer(Negations(optText), Negations(p))
      BY <2>2 DEF Violates
    <3>. QED BY <1>1, <2>2, <3>1, NoneNegates
  <2>. QED BY <1>7, <2>1, <2>2
<1>10. LostConstraintsAreOffset
  <2>. DEFINE added == (UNION {ConstraintsIn(w) : w \in Brought(c)}) \ Constraints(p)
  <2>1. ASSUME Accepted PROVE Cardinality(Constraints(p) \ Constraints(optOut)) <= Cardinality(added)
    <3>1. CASE optOut = p
      <4>1. IsFiniteSet(added) /\ Cardinality(added) \in Nat
        BY AddedFinite
      <4>2. Constraints(p) \ Constraints(optOut) = {}
        BY <3>1
      <4>3. Cardinality({}) = 0
        BY FS_EmptySet
      <4>. HIDE DEF added
      <4>. QED BY <4>1, <4>2, <4>3
    <3>2. CASE optOut = optText /\ optText = Final(c) /\ ~Violates(p, optText)
      <4>1. ~Fewer(Constraints(optText), Constraints(p))
        BY <3>2 DEF Violates
      <4>. QED BY <1>1, <3>2, <4>1, LostAreOffset
    <3>. QED BY <1>7, <2>1, <3>1, <3>2
  <2>. QED BY <1>1, <2>1 DEF LostConstraintsAreOffset
<1>11. LockedTextUntouched
  <2>. SUFFICES ASSUME optAt = "done", optCall.preserve, Prompt = <<<<"json">>>> \/ "fence" \in WordsIn(Prompt)
                PROVE  optOut = Prompt /\ optSaved = 0
    BY DEF LockedTextUntouched
  <2>1. Structure \in {"json", "code"}
    BY DEF Structure, DetectStructure, Prompt
  <2>. QED BY <2>1 DEF OptInv, OptReturned, OptLocked
<1>. QED BY <1>6, <1>8, <1>9, <1>10, <1>11 DEF MeaningSurvives

(* The stages of the optimizer keep the invariant.                         *)
LEMMA OptInvHolds == OptSpec => []OptInv
<1>1. OptInit => OptInv
  <2>. SUFFICES ASSUME OptInit PROVE OptInv
    OBVIOUS
  <2>2. optCall \in OptCalls
    <3>1. PICK p \in Prompts : \E object \in Objects(p) :
            optCall \in [prompt : {p}, preserve : BOOLEAN, intent : Template, object : {object}]
      BY DEF OptInit
    <3>2. p \in Seq(Seq(Word))
      BY PromptsAssumption
    <3>3. WordsIn(p) \subseteq Word
      <4>1. FlattenSeq(p) \in Seq(Word)
        BY <3>2, FlatType
      <4>. QED BY <4>1 DEF WordsIn, Words, ToSet
    <3>4. PICK object \in Objects(p) :
            optCall \in [prompt : {p}, preserve : BOOLEAN, intent : Template, object : {object}]
      BY <3>1
    <3>5. object \in Word
      BY <3>3 DEF Objects, Spoken, Word
    <3>. QED BY <3>4, <3>5 DEF OptCalls
  <2>1. optAt = "detect" /\ optText = Prompt /\ reverted = FALSE /\ optOut = <<>> /\ optSaved = 0
    BY DEF OptInit, Prompt
  <2>. QED BY <2>1, <2>2 DEF OptInv, OptPoints, OptStages, OptPending, OptOpen, OptReturned
<1>2. OptInv /\ [OptNext]_optvars => OptInv'
  <2>. SUFFICES ASSUME OptInv, [OptNext]_optvars PROVE OptInv'
    OBVIOUS
  <2>1. optCall \in OptCalls /\ optAt \in OptPoints /\ reverted \in BOOLEAN /\ OptStages /\ OptPending
          /\ OptOpen /\ OptReturned
    BY DEF OptInv
  <2>2. ASSUME optCall' = optCall PROVE Prompt' = Prompt /\ OptLocked' = OptLocked
    BY <2>2 DEF Prompt, OptLocked, Structure
  <2>. HIDE DEF OptLocked
  <2>3. CASE FormatLocked
    <3>1. /\ optAt = "detect" /\ optAt' = "done" /\ optCall' = optCall /\ optText' = optText /\ optOut' = Prompt
          /\ reverted' = reverted /\ optSaved' = optSaved /\ OptLocked
      BY <2>3 DEF FormatLocked, OptLocked, Prompt
    <3>2. optText = Prompt /\ reverted = FALSE /\ optSaved = 0
      BY <2>1, <3>1 DEF OptStages, OptPending
    <3>. QED BY <2>1, <2>2, <3>1, <3>2 DEF OptInv, OptPoints, OptStages, OptPending, OptOpen, OptReturned
  <2>. DEFINE Moved(from, to) ==
         /\ optAt = from /\ optAt' = to /\ optCall' = optCall /\ reverted' = reverted /\ optOut' = optOut
         /\ optSaved' = optSaved /\ from \in OptPoints \ {"done"} /\ to \in OptPoints \ {"detect", "done"}
  <2>4. ASSUME NEW from, NEW to, Moved(from, to), ~OptLocked, OptStages' PROVE OptInv'
    <3>1. reverted = FALSE /\ optOut = <<>> /\ optSaved = 0
      BY <2>1, <2>4 DEF OptPending
    <3>2. OptPending' /\ OptOpen' /\ OptReturned'
      BY <2>2, <2>4, <3>1 DEF OptPending, OptOpen, OptReturned
    <3>. QED BY <2>1, <2>4, <3>2 DEF OptInv
  <2>5. ASSUME NEW from, NEW to, NEW change, Stage(from, to, change),
               from \in OptPoints \ {"done"}, to \in OptPoints \ {"detect", "done"}
        PROVE  Moved(from, to) /\ optText' = change /\ Prompt' = Prompt /\ optCall' = optCall
    BY <2>2, <2>5 DEF Stage
  <2>. HIDE DEF Moved
  <2>6. CASE Configure
    <3>1. Moved("detect", "compress") /\ optText' = optText /\ Prompt' = Prompt /\ ~OptLocked
      BY <2>5, <2>6 DEF Configure, OptPoints, OptLocked
    <3>2. optAt = "detect" /\ optAt' = "compress"
      BY <3>1 DEF Moved
    <3>3. OptStages'
      BY <2>1, <3>1, <3>2 DEF OptStages
    <3>. QED BY <2>4, <3>1, <3>3
  <2>. HIDE DEF Building, Passed, Compress, Prune, Final
  <2>7. CASE CompressStage
    <3>. DEFINE to == IF Building(optCall) THEN "build" ELSE "prune"
    <3>1. Stage("compress", to, Compress(optText)) /\ to \in {"build", "prune"}
      BY <2>7 DEF CompressStage
    <3>2. Moved("compress", to) /\ optText' = Compress(optText) /\ Prompt' = Prompt /\ optCall' = optCall
      BY <2>5, <3>1 DEF OptPoints
    <3>3. optAt = "compress" /\ optAt' = to
      BY <3>2 DEF Moved
    <3>4. optText' = Compress(Prompt') /\ ~OptLocked
      BY <2>1, <3>2, <3>3 DEF OptStages, OptOpen
    <3>5. ~Building(optCall) => optText' = Passed(optCall)
      BY <3>2, <3>4 DEF Passed, Prompt
    <3>6. OptStages'
      BY <3>2, <3>3, <3>4, <3>5 DEF OptStages
    <3>. QED BY <2>4, <3>1, <3>2, <3>4, <3>6
  <2>8. CASE BuildStage
    <3>1. Moved("build", "prune") /\ optText' = BuildStructure(optCall) /\ Prompt' = Prompt /\ optCall' = optCall
      BY <2>5, <2>8 DEF BuildStage, OptPoints
    <3>2. optAt = "build" /\ optAt' = "prune"
      BY <3>1 DEF Moved
    <3>3. ~OptLocked /\ Building(optCall)
      BY <2>1, <3>2 DEF OptOpen, OptStages
    <3>4. optText' = Passed(optCall')
      BY <3>1, <3>3 DEF Passed
    <3>5. OptStages'
      BY <3>2, <3>4 DEF OptStages
    <3>. QED BY <2>4, <3>1, <3>3, <3>5
  <2>9. CASE PruneStage
    <3>1. Moved("prune", "shape") /\ optText' = Prune(optText) /\ Prompt' = Prompt /\ optCall' = optCall
      BY <2>5, <2>9 DEF PruneStage, OptPoints
    <3>2. optAt = "prune" /\ optAt' = "shape"
      BY <3>1 DEF Moved
    <3>3. ~OptLocked /\ optText = Passed(optCall)
      BY <2>1, <3>2 DEF OptOpen, OptStages
    <3>4. OptStages'
      BY <3>1, <3>2, <3>3 DEF OptStages
    <3>. QED BY <2>4, <3>1, <3>3, <3>4
  <2>10. CASE ShapeStage
    <3>1. Moved("shape", "check") /\ optText' = ShapeOutput(optText, optCall) /\ Prompt' = Prompt
            /\ optCall' = optCall
      BY <2>5, <2>10 DEF ShapeStage, OptPoints
    <3>2. optAt = "shape" /\ optAt' = "check"
      BY <3>1 DEF Moved
    <3>3. ~OptLocked /\ optText = Prune(Passed(optCall))
      BY <2>1, <3>2 DEF OptOpen, OptStages
    <3>4. optText' = Final(optCall')
      BY <3>1, <3>3 DEF Final
    <3>5. OptStages'
      BY <3>2, <3>4 DEF OptStages
    <3>. QED BY <2>4, <3>1, <3>3, <3>5
  <2>11. CASE CheckSafety
    <3>1. /\ optAt = "check" /\ optAt' = "done" /\ optCall' = optCall /\ optText' = optText
          /\ optOut' = IF reverted' THEN Prompt ELSE optText
          /\ optSaved' = Tokens(Prompt) - Tokens(optText)
      BY <2>11 DEF CheckSafety, Prompt
    <3>2. PICK similar \in BOOLEAN : reverted' = (Violates(Prompt, optText) \/ ~similar)
      BY <2>11 DEF CheckSafety, Prompt
    <3>. HIDE DEF Violates
    <3>3. reverted' \in BOOLEAN /\ (reverted' = FALSE => ~Violates(Prompt, optText))
      BY <3>2
    <3>4. ~OptLocked /\ optText = Final(optCall)
      BY <2>1, <3>1 DEF OptOpen, OptStages
    <3>5. Prompt' = Prompt /\ OptLocked' = OptLocked
      BY <2>2, <3>1
    <3>6. /\ ~OptLocked' /\ optText' = Final(optCall')
          /\ optOut' = (IF reverted' THEN Prompt' ELSE optText')
          /\ (reverted' = FALSE => ~Violates(Prompt', optText'))
          /\ optSaved' = Tokens(Prompt') - Tokens(optText')
      BY <3>1, <3>3, <3>4, <3>5
    <3>7. OptReturned'
      BY <3>6 DEF OptReturned
    <3>8. OptStages' /\ OptPending' /\ OptOpen'
      BY <3>1 DEF OptStages, OptPending, OptOpen
    <3>. QED BY <2>1, <3>1, <3>3, <3>7, <3>8 DEF OptInv, OptPoints
  <2>12. CASE UNCHANGED optvars
    <3>1. optCall' = optCall /\ optAt' = optAt /\ optText' = optText /\ reverted' = reverted
            /\ optOut' = optOut /\ optSaved' = optSaved
      BY <2>12 DEF optvars
    <3>2. Prompt' = Prompt /\ OptLocked' = OptLocked
      BY <2>2, <3>1
    <3>3. OptStages' /\ OptPending' /\ OptOpen'
      BY <2>1, <3>1, <3>2 DEF OptStages, OptPending, OptOpen
    <3>4. OptReturned'
      BY <2>1, <3>1, <3>2 DEF OptReturned
    <3>. QED BY <2>1, <3>1, <3>3, <3>4 DEF OptInv
  <2>. QED BY <2>3, <2>6, <2>7, <2>8, <2>9, <2>10, <2>11, <2>12 DEF OptNext
<1>. QED BY <1>1, <1>2, PTL DEF OptSpec

(* What the optimizer gives back unreverted keeps of the prompt: its       *)
(* numbers in their order, where none is like 3.5GB; every negation; its   *)
(* constraint keywords but for as many as the template and the shaping     *)
(* sentence bring; and locked text as it was.                              *)
THEOREM MeaningKept == OptSpec => []MeaningSurvives
<1>1. OptInv => MeaningSurvives
  BY OptInvSuffices
<1>. QED BY <1>1, OptInvHolds, PTL
=============================================================================
