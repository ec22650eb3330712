----------------------------- MODULE PiiPipeline -----------------------------
(***************************************************************************)
(* One PIIPipeline object, core/pii_pipeline/pii_pipeline.py, and the      *)
(* HybridPIIDetector that wraps it (core/hybrid_pii.py).  A call runs the  *)
(* seven stages of PiiStages in order over one shared context.  A stage    *)
(* may raise: its fallback then answers, but what it returns is not        *)
(* applied to the context; only what it changed in place counts.           *)
(***************************************************************************)
EXTENDS PiiStages

CONSTANTS Inputs,       \* the texts a caller may send
          Sayings,      \* the keyword sets that may occur in one of them
          Overrides,    \* detection modes a caller may override, or "keep"
          BadSums,      \* the values whose checksum is wrong
          MaxRaises,    \* bound: stages that raise in one call
          MaxCalls      \* bound: calls on the object

(* A text a caller sends has words, names and values in it, and no label.  *)
Sent(c) == \/ c = Word \/ c = Cue \/ c = Cap(c.of)
           \/ /\ c = [Pii(c.type, c.of) EXCEPT !.form = c.form]
              /\ c.type \in DOMAIN RegexWeight /\ c.form \in {"raw", "obf"}
ASSUME InputsAssumption ==
  \A T \in Inputs : T \in Seq(Range(T)) /\ \A i \in DOMAIN T : Sent(T[i])
ASSUME BoundsAssumption == MaxRaises \in Nat /\ MaxCalls \in Nat

VARIABLES stage,    \* the stage to run next, "idle", or "return"
          call,     \* the call in progress: its text and keywords
          ctx,      \* the PIIContext: current text, entities, token map
          mode,     \* the detection mode in the object's own configuration
          out,      \* the last result: success, text, entities, masking map
          raised,   \* stages of this call whose main path raised
          answered, \* stages of this call answered by a fallback
          blind,    \* whether the regular expressions failed or ran out of time
          lost,     \* entities this call dropped below the floor
          repaired, \* whether this call rewrote its labels
          calls

vars == <<stage, call, ctx, mode, out, raised, answered, blind, lost, repaired, calls>>

Order == <<"normalization", "detection", "scoring", "context", "masking",
           "integrity", "verification">>
Stages == Range(Order)
After(s) == LET i == CHOOSE k \in DOMAIN Order : Order[k] = s
            IN  IF i = Len(Order) THEN "return" ELSE Order[i + 1]

NoResult == [ok |-> TRUE, text |-> <<>>, ents |-> <<>>, map |-> <<>>]

Init ==
  /\ stage = "idle" /\ mode = "hybrid" /\ out = NoResult
  /\ call = [text |-> <<>>, said |-> {}]
  /\ ctx = [text |-> <<>>, ents |-> <<>>, map |-> <<>>]
  /\ raised = {} /\ answered = {} /\ blind = FALSE /\ lost = {} /\ repaired = FALSE
  /\ calls = 0

(* An override is written into the object's own configuration and stays.   *)
Process(T, said, override) ==
  /\ stage = "idle" /\ calls < MaxCalls /\ calls' = calls + 1
  /\ T # <<>>
  /\ stage' = Order[1]
  /\ call' = [text |-> T, said |-> said]
  /\ ctx' = [text |-> T, ents |-> <<>>, map |-> <<>>]
  /\ mode' = IF override = "keep" THEN mode ELSE override
  /\ raised' = {} /\ answered' = {} /\ blind' = FALSE /\ lost' = {} /\ repaired' = FALSE
  /\ UNCHANGED out

RejectEmpty ==
  /\ stage = "idle" /\ calls < MaxCalls /\ calls' = calls + 1
  /\ <<>> \in Inputs
  /\ call' = [text |-> <<>>, said |-> {}]
  /\ ctx' = [text |-> <<>>, ents |-> <<>>, map |-> <<>>]
  /\ raised' = {} /\ answered' = {} /\ blind' = FALSE /\ lost' = {} /\ repaired' = FALSE
  /\ out' = [NoResult EXCEPT !.ok = FALSE]
  /\ UNCHANGED <<stage, mode>>

-----------------------------------------------------------------------------
(* A stage whose list comes back empty leaves the context's list, with the *)
(* confidences it wrote into the shared entities.                          *)
Keep(new, old) == IF new = <<>> THEN old ELSE new

Detected(on) ==
  ByPosition(DropExampleOverlaps(ctx.text,
    Deduplicate(RunDetectors(ctx.text, call.said, BadSums, on))))

Scored   == Score(ctx.ents, ctx.text, call.said)
Resolved == ResolveContext(ctx.ents, call.said)

Advance == stage' = After(stage) /\ UNCHANGED <<call, mode, out, raised, calls>>

NormalizeText ==
  /\ stage = "normalization"
  /\ ctx' = [ctx EXCEPT !.text = Normalize(@)]
  /\ Advance /\ UNCHANGED <<answered, blind, lost, repaired>>

(* Any of the enabled detectors may fail or run out of time, the regular   *)
(* expressions too; what the others found is used, and the stage succeeds. *)
DetectEntities(failed) ==
  /\ stage = "detection"
  /\ ctx' = [ctx EXCEPT !.ents = Detected(Enabled(mode) \ failed)]
  /\ blind' = ("regex" \in failed)
  /\ Advance /\ UNCHANGED <<answered, lost, repaired>>

ScoreEntities ==
  /\ stage = "scoring"
  /\ ctx' = [ctx EXCEPT !.ents = Keep(ByScore(Only(Scored, PassesFloor)), Scored)]
  /\ lost' = {x \in Range(Scored) : ~PassesFloor(x)}
  /\ Advance /\ UNCHANGED <<answered, blind, repaired>>

ResolveEntities ==
  /\ stage = "context"
  /\ ctx' = [ctx EXCEPT !.ents = Keep(Only(Resolved, ValidInContext), Resolved)]
  /\ Advance /\ UNCHANGED <<answered, blind, lost, repaired>>

(* A value that still occurs in the masked text fails the stage.  Its      *)
(* fallback then runs on the masked text: nothing of it is applied except  *)
(* its entity mapping, which replaces the real one.                        *)
MaskEntities ==
  LET T == ApplyMasks(ctx.text, ctx.ents)
      valid == MaskingValid(T, ctx.ents)
  IN  /\ stage = "masking"
      /\ ctx' = [ctx EXCEPT !.text = T, !.ents = RightToLeft(@),
                            !.map = IF valid THEN MaskingMap(ctx.ents)
                                    ELSE FallbackMap(ctx.ents)]
      /\ answered' = IF valid THEN answered ELSE answered \cup {"masking"}
      /\ Advance /\ UNCHANGED <<blind, lost, repaired>>

Fail ==
  /\ stage' = "idle"
  /\ out' = [ok |-> FALSE, text |-> call.text, ents |-> <<>>, map |-> <<>>]
  /\ UNCHANGED <<call, mode, raised, calls>>

(* A score below the minimum has the labels rewritten; a score still below *)
(* it asks the fallback, and a text of labels only then fails the call.    *)
CheckIntegrity ==
  LET low == ctx.ents # <<>> /\ Integrity(ctx.text, call.text) < MinCoherence
      T   == IF low THEN Repair(ctx.text) ELSE ctx.text
      bad == ctx.ents # <<>> /\ Integrity(T, call.text) < MinCoherence
  IN  /\ stage = "integrity"
      /\ ctx' = [ctx EXCEPT !.text = T]
      /\ repaired' = (T # ctx.text)
      /\ answered' = IF bad THEN answered \cup {"integrity"} ELSE answered
      /\ IF bad /\ ~FallbackIntegrityOk(T) THEN Fail ELSE Advance
      /\ UNCHANGED <<blind, lost>>

(* The main check fails on the labels the masking stage itself writes for  *)
(* phones and cards; the fallback fails on any address left.               *)
Verify ==
  LET bad == ~ConsistencyOk(ctx.text)
  IN  /\ stage = "verification"
      /\ answered' = IF bad THEN answered \cup {"verification"} ELSE answered
      /\ IF bad /\ ~FallbackLeakFree(ctx.text) THEN Fail ELSE Advance
      /\ UNCHANGED <<ctx, blind, lost, repaired>>

(* The main path of a stage raises.  The fallback's answer, good or bad,   *)
(* lets the call go on, and its text, entities and mapping are not taken   *)
(* over; normalisation writes the text itself, and scoring and context     *)
(* write the confidences into the shared entities.                         *)
Raise ==
  /\ stage \in Stages /\ Cardinality(raised) < MaxRaises
  /\ raised' = raised \cup {stage}
  /\ answered' = answered \cup {stage}
  /\ stage' = After(stage)
  /\ ctx' = CASE stage = "normalization" -> [ctx EXCEPT !.text = BasicCleanup(@)]
              [] stage = "scoring" -> [ctx EXCEPT !.ents = FallbackScore(@)]
              [] stage = "context" -> [ctx EXCEPT !.ents = FallbackContext(@, call.said)]
              [] OTHER -> ctx
  /\ UNCHANGED <<call, mode, out, blind, lost, repaired, calls>>

Finish ==
  /\ stage = "return"
  /\ stage' = "idle"
  /\ out' = [ok |-> TRUE, text |-> ctx.text, ents |-> ctx.ents, map |-> ctx.map]
  /\ UNCHANGED <<call, ctx, mode, raised, answered, blind, lost, repaired, calls>>

(* configure_stage between two calls; reset builds new stages and keeps    *)
(* the configuration.                                                      *)
Configure(m) ==
  /\ stage = "idle" /\ m \in Overrides \ {"keep"} /\ m # mode
  /\ mode' = m
  /\ UNCHANGED <<stage, call, ctx, out, raised, answered, blind, lost, repaired, calls>>

Next ==
  \/ \E T \in Inputs, said \in Sayings, m \in Overrides : Process(T, said, m)
  \/ RejectEmpty
  \/ NormalizeText
  \/ \E failed \in SUBSET DOMAIN Rank : DetectEntities(failed)
  \/ ScoreEntities \/ ResolveEntities \/ MaskEntities
  \/ CheckIntegrity \/ Verify \/ Raise \/ Finish
  \/ \E m \in Overrides : Configure(m)

Spec == Init /\ [][Next]_vars

-----------------------------------------------------------------------------
TypeOK ==
  /\ stage \in Stages \cup {"idle", "return"}
  /\ mode \in {"hybrid"} \cup Overrides
  /\ raised \subseteq Stages /\ answered \subseteq Stages
  /\ out.ok \in BOOLEAN /\ blind \in BOOLEAN /\ repaired \in BOOLEAN
  /\ calls \in 0..MaxCalls
  /\ \A k \in DOMAIN ctx.ents : /\ ctx.ents[k].conf \in 0..1000
                                /\ ctx.ents[k].type \in
                                     {c.type : c \in UNION {Range(T) : T \in Inputs}}

Done == stage = "idle" /\ calls > 0
CountOf(c, T) == Cardinality({i \in DOMAIN T : T[i] = c})
Values(T) == {c \in Range(T) : c.kind = "pii" /\ ~IsExampleEmail(c)}

(* However the context, the other detectors and the faults of other stages *)
(* move its confidence, a structured value with a valid checksum is masked *)
(* at least where it first occurs, unless the regular expressions did not  *)
(* answer, masking raised, or the call as a whole failed.                  *)
Unsearched == "detection" \in raised \/ blind
StructuredValuesMasked ==
  Done /\ out.ok /\ ~Unsearched /\ "masking" \notin raised =>
    LET T == IF "normalization" \in raised THEN call.text ELSE Normalize(call.text)
    IN  \A c \in {v \in Values(T) : v.type \in Structured /\ v.form = "raw"} :
          c.of \in BadSums \/
          CountOf(c, out.text) < CountOf(c, T)

(* The spans to be masked never share a cell: masking from right to left   *)
(* with positions taken before the first replacement is then sound.        *)
MaskSpansDisjoint ==
  stage = "masking" =>
    \A j, k \in DOMAIN ctx.ents : j < k =>
      LET a == ctx.ents[j]
          b == ctx.ents[k]
      IN  a.e <= b.s \/ b.e <= a.s

(* What scoring filtered out stays readable.  Only when nothing passed does *)
(* its entity stay in the list, and a later stage may then raise it again. *)
Revived(x) == \E k \in DOMAIN out.ents : /\ out.ents[k].s = x.s /\ out.ents[k].e = x.e
                                         /\ Maskable(out.ents[k])
DroppedStaysReadable ==
  Done /\ out.ok /\ ~repaired =>
    \A x \in lost :
      \/ Occurs(x.txt, out.text)
      \/ Revived(x) /\ \A k \in DOMAIN out.ents : \E y \in lost : y.txt = out.ents[k].txt

(* Masking follows the scores: structured values pass the floor whatever   *)
(* moves them, and what was dropped stays dropped.                         *)
ValuesAreMasked ==
  TypeOK /\ StructuredValuesMasked /\ MaskSpansDisjoint /\ DroppedStaysReadable

(* unmask: every label is replaced by what the map holds for it.           *)
Unmask(T, map) ==
  FlattenSeq([i \in DOMAIN T |-> IF T[i] \in DOMAIN map THEN map[T[i]] ELSE <<T[i]>>])

(* A successful call can be undone from its masking map, unless two values *)
(* share a label, a fallback answered for masking, or labels were          *)
(* rewritten.                                                              *)
UnmaskRestores ==
  LET masks == {k \in DOMAIN out.ents : Maskable(out.ents[k])}
      shared == \E j, k \in masks : j # k /\ Mask(out.ents[j]) = Mask(out.ents[k])
      T == IF "normalization" \in raised THEN call.text ELSE Normalize(call.text)
  IN  Done /\ out.ok /\ "masking" \notin answered /\ ~repaired /\ ~shared
        => Unmask(out.text, out.map) = T

(* The pipeline implements MaskingCall: the stages are invisible, a call   *)
(* answers once, and what lies around the values is not touched.           *)
Abstract == INSTANCE MaskingCall
              WITH Texts <- Inputs, busy <- stage # "idle", sent <- call.text,
                   answer <- [ok |-> out.ok, text |-> out.text]
ImplementsMaskingCall == Abstract!Spec
=============================================================================
