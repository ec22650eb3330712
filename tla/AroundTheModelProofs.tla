------------------------ MODULE AroundTheModelProofs ------------------------
(* Theorems of the modules for what stands around a model:                 *)
(* SchemaValidation, OutputRepair, WrappedCall, WebMiddleware,             *)
(* FrameworkPipelines, ToolChain and AnchorAdapters, for any calls,        *)
(* requests, chains, agents, retries and sizes.                            *)
EXTENDS SchemaValidation, WrappedCall, WebMiddleware, FrameworkPipelines, ToolChain,
        AnchorAdapters, DataLemmas

-----------------------------------------------------------------------------
(* SchemaValidation                                                        *)

UnderWay == {"parse", "repair", "revalidate", "fields"}

(* Until it is repaired, the text is the one that came in; no repair makes *)
(* a fragile one whole, and what is revalidated parses.                    *)
RepairSoFar ==
  /\ content.fragile = svCall.content.fragile
  /\ svAt = "parse" => content = svCall.content /\ attempt = 0
  /\ svAt = "repair" /\ attempt = 0 => content = svCall.content
  /\ svAt = "repair" /\ attempt > 0 /\ content.fragile => "damage" \in content.flaws
  /\ svAt \in {"revalidate", "fields"} => content.flaws = {}
  /\ svAt = "revalidate" /\ svCall.content.flaws # {} => config.retries >= 2 /\ ~content.fragile
  /\ svAt = "fields" => svCall.content.flaws = {}

SvInv == SvTypeOK /\ RepairSoFar /\ StatsAddUp /\ ValidIsValid /\ RepairedIsUsable /\ RepairsNeedTwoRounds

-----------------------------------------------------------------------------

LEMMA ApplyFields ==
  ASSUME NEW t \in Text
  PROVE  /\ ApplyRepairs(t) \in Text
         /\ ApplyRepairs(t).fragile = t.fragile
         /\ t.fragile => "damage" \in ApplyRepairs(t).flaws
BY DEF ApplyRepairs, Text, Flaw

LEMMA AggressiveFields ==
  ASSUME NEW t \in Text
  PROVE  /\ AggressiveRepair(t) \in Text
         /\ AggressiveRepair(t).fragile = t.fragile
         /\ "damage" \in t.flaws => "damage" \in AggressiveRepair(t).flaws
BY DEF AggressiveRepair, Text, Flaw

LEMMA FixedFields ==
  ASSUME NEW t \in Text
  PROVE  /\ FixFields(t) \in Text
         /\ FixFields(t).fragile = t.fragile
         /\ FixFields(t).flaws = t.flaws
BY DEF FixFields, Text, Flaw

Result == {"valid", "repaired", "failed", "raised"}

(* An outcome is entered in exactly one counter.                           *)
LEMMA FinishCounts ==
  ASSUME SvTypeOK, StatsAddUp, svAt \in UnderWay, NEW s \in Result, NEW t \in Text, Finish(s, t)
  PROVE  /\ stats' \in [Counters -> Nat] /\ StatsAddUp'
         /\ svAt' = "done" /\ outcome' = [status |-> s, content |-> t]
<1>1. stats \in [Counters -> Nat] /\ svAt' = "done" /\ outcome' = [status |-> s, content |-> t]
  BY DEF SvTypeOK, Finish
<1>2. \A c \in Counters : stats'[c] = stats[c] + (IF c \in Counted(s) THEN 1 ELSE 0)
  BY DEF Finish
<1>3. stats' \in [Counters -> Nat]
  BY <1>1 DEF Finish, Counters
<1>4. stats["total"] = stats["successful"] + stats["repairs_successful"] + stats["failures"] + stats["raised"] + 1
  BY DEF StatsAddUp, UnderWay
<1>5. /\ Counted("valid") = {"successful"} /\ Counted("repaired") = {"repairs_successful"}
      /\ Counted("failed") = {"failures"} /\ Counted("raised") = {"raised"}
  BY DEF Counted
<1>6. /\ stats["total"] \in Nat /\ stats["successful"] \in Nat /\ stats["repairs_successful"] \in Nat
      /\ stats["failures"] \in Nat /\ stats["raised"] \in Nat
  BY <1>1 DEF Counters
<1>7. /\ stats'["total"] = stats["total"] + (IF "total" \in Counted(s) THEN 1 ELSE 0)
      /\ stats'["successful"] = stats["successful"] + (IF "successful" \in Counted(s) THEN 1 ELSE 0)
      /\ stats'["repairs_successful"] = stats["repairs_successful"] + (IF "repairs_successful" \in Counted(s) THEN 1 ELSE 0)
      /\ stats'["failures"] = stats["failures"] + (IF "failures" \in Counted(s) THEN 1 ELSE 0)
      /\ stats'["raised"] = stats["raised"] + (IF "raised" \in Counted(s) THEN 1 ELSE 0)
  BY <1>2 DEF Counters
<1>8. stats'["total"] = stats'["successful"] + stats'["repairs_successful"] + stats'["failures"] + stats'["raised"]
  <2>1. CASE s = "valid"
    BY <2>1, <1>4, <1>5, <1>6, <1>7
  <2>2. CASE s = "repaired"
    BY <2>2, <1>4, <1>5, <1>6, <1>7
  <2>3. CASE s = "failed"
    BY <2>3, <1>4, <1>5, <1>6, <1>7
  <2>4. CASE s = "raised"
    BY <2>4, <1>4, <1>5, <1>6, <1>7
  <2>. QED BY <2>1, <2>2, <2>3, <2>4 DEF Result
<1>9. StatsAddUp'
  <2>1. (IF svAt' \in {"idle", "done"} THEN 0 ELSE 1) = 0
    BY <1>1
  <2>2. stats'["successful"] + stats'["repairs_successful"] + stats'["failures"] + stats'["raised"] \in Nat
    BY <1>3 DEF Counters
  <2>. QED BY <1>8, <2>1, <2>2 DEF StatsAddUp
<1>. QED BY <1>1, <1>3, <1>9

(* What is left to show of a step that ends a call.                        *)
LEMMA FinishedCall ==
  ASSUME SvInv, svAt \in UnderWay, NEW s \in Result, NEW t \in Text, Finish(s, t), Over,
         s = "valid" => /\ t = svCall.content /\ t.flaws = {}
                        /\ svCall.schema = "dict" /\ Installed("jsonschema") => Conforms(t)
                        /\ svCall.schema = "model" /\ Installed("pydantic") => Conforms(t),
         s = "repaired" => /\ t.flaws = {}
                           /\ svCall.schema = "model" /\ Installed("pydantic") => Conforms(t)
                           /\ svCall.content.flaws # {} => config.retries >= 2 /\ ~svCall.content.fragile
  PROVE  SvInv'
<1>1. /\ stats' \in [Counters -> Nat] /\ StatsAddUp'
      /\ svAt' = "done" /\ outcome' = [status |-> s, content |-> t]
  BY FinishCounts DEF SvInv
<1>2. UNCHANGED <<config, switched, svCall, content, attempt>>
  BY DEF Over
<1>3. SvTypeOK'
  BY <1>1, <1>2 DEF SvInv, SvTypeOK, Result
<1>4. RepairSoFar'
  BY <1>1, <1>2 DEF SvInv, RepairSoFar
<1>5. outcome'.status = s /\ outcome'.content = t
  BY <1>1
<1>6. ValidIsValid'
  BY <1>2, <1>5 DEF ValidIsValid, Returned, Installed, Conforms
<1>7. RepairedIsUsable'
  BY <1>2, <1>5 DEF RepairedIsUsable, Returned, Installed, Conforms
<1>8. RepairsNeedTwoRounds'
  BY <1>2, <1>5 DEF RepairsNeedTwoRounds, Returned, SvInv
<1>. QED BY <1>1, <1>3, <1>4, <1>6, <1>7, <1>8 DEF SvInv

(* And of one that leaves it under way.                                    *)
LEMMA CallGoesOn ==
  ASSUME SvInv, svAt \in UnderWay, NEW to \in UnderWay, Step(to), RepairSoFar'
  PROVE  SvInv'
<1>1. svAt' = to /\ UNCHANGED <<config, switched, stats, svCall, content, attempt, outcome>>
  BY DEF Step
<1>2. SvTypeOK'
  BY <1>1 DEF SvInv, SvTypeOK, UnderWay
<1>3. StatsAddUp'
  BY <1>1 DEF SvInv, StatsAddUp, UnderWay
<1>4. ValidIsValid' /\ RepairedIsUsable' /\ RepairsNeedTwoRounds'
  BY <1>1 DEF SvInv, ValidIsValid, RepairedIsUsable, RepairsNeedTwoRounds, Returned, UnderWay
<1>. QED BY <1>2, <1>3, <1>4 DEF SvInv

-----------------------------------------------------------------------------

LEMMA SvInitInvariant == SvInit => SvInv
<1>. SUFFICES ASSUME SvInit PROVE SvInv
  OBVIOUS
<1>. USE SchemaAssumption
<1>1. content \in Contents /\ content \in Text /\ svCall.content = content /\ svCall.schema = "none"
  BY DEF SvInit
<1>2. SvTypeOK
  BY <1>1 DEF SvInit, SvTypeOK, NotYet, Schema
<1>3. StatsAddUp
  BY DEF SvInit, StatsAddUp, Counters
<1>4. svAt = "idle" /\ outcome.status = "none" /\ attempt = 0 /\ config.retries \in Nat
  BY <1>2 DEF SvInit, NotYet, SvTypeOK
<1>5. RepairSoFar /\ ValidIsValid /\ RepairedIsUsable /\ RepairsNeedTwoRounds
  BY <1>1, <1>4 DEF RepairSoFar, ValidIsValid, RepairedIsUsable, RepairsNeedTwoRounds, Returned
<1>. QED BY <1>2, <1>3, <1>5 DEF SvInv

LEMMA SvStepInvariant == SvInv /\ [SvNext]_svvars => SvInv'
<1>. SUFFICES ASSUME SvInv, [SvNext]_svvars PROVE SvInv'
  OBVIOUS
<1>0. /\ content \in Text /\ svCall.content \in Text /\ config.retries \in Nat /\ attempt \in Nat
      /\ svCall \in [content : Contents, schema : Schema] /\ RepairSoFar
  BY SchemaAssumption DEF SvInv, SvTypeOK
<1>1. CASE Switch
  <2>1. switched' \in BOOLEAN /\ UNCHANGED <<config, stats, svCall, svAt, content, attempt, outcome>>
    BY <1>1 DEF Switch
  <2>. QED
    BY <2>1 DEF SvInv, SvTypeOK, RepairSoFar, StatsAddUp, ValidIsValid, RepairedIsUsable, RepairsNeedTwoRounds,
                Returned, Installed
<1>2. ASSUME NEW c \in [content : Contents, schema : Schema], ProcessDisabled(c) PROVE SvInv'
  <2>1. /\ svAt \in {"idle", "done"} /\ svAt' = "done" /\ svCall' = c /\ content' = c.content
        /\ outcome' = [status |-> "off", content |-> c.content]
        /\ UNCHANGED <<config, switched, stats, attempt>>
    BY <1>2 DEF ProcessDisabled
  <2>2. c.content \in Text
    BY <1>2, SchemaAssumption
  <2>3. SvTypeOK'
    BY <2>1, <2>2 DEF SvInv, SvTypeOK
  <2>4. StatsAddUp'
    BY <2>1 DEF SvInv, StatsAddUp
  <2>5. outcome'.status = "off"
    BY <2>1
  <2>6. RepairSoFar' /\ ValidIsValid' /\ RepairedIsUsable' /\ RepairsNeedTwoRounds'
    BY <2>1, <2>5 DEF SvInv, RepairSoFar, ValidIsValid, RepairedIsUsable, RepairsNeedTwoRounds, Returned
  <2>. QED BY <2>3, <2>4, <2>6 DEF SvInv
<1>3. ASSUME NEW c \in [content : Contents, schema : Schema], ProcessWithValidation(c) PROVE SvInv'
  <2>1. /\ svAt \in {"idle", "done"} /\ svAt' = "parse" /\ svCall' = c /\ content' = c.content /\ attempt' = 0
        /\ stats' = [stats EXCEPT !["total"] = @ + 1] /\ outcome' = NotYet(c.content)
        /\ UNCHANGED <<config, switched>>
    BY <1>3 DEF ProcessWithValidation
  <2>2. c.content \in Text
    BY <1>3, SchemaAssumption
  <2>3. stats \in [Counters -> Nat]
    BY DEF SvInv, SvTypeOK
  <2>4. SvTypeOK'
    BY <2>1, <2>2, <2>3 DEF SvInv, SvTypeOK, NotYet, Counters
  <2>5. StatsAddUp'
    BY <2>1, <2>3 DEF SvInv, StatsAddUp, Counters
  <2>6. RepairSoFar' /\ ValidIsValid' /\ RepairedIsUsable' /\ RepairsNeedTwoRounds'
    BY <1>0, <2>1 DEF RepairSoFar, ValidIsValid, RepairedIsUsable, RepairsNeedTwoRounds, Returned
  <2>. QED BY <2>4, <2>5, <2>6 DEF SvInv
<1>4. CASE ValidateJson
  <2>1. svAt = "parse" /\ content = svCall.content /\ content.flaws = {} /\ Chosen # "model"
    BY <1>0, <1>4 DEF ValidateJson, Parses, RepairSoFar
  <2>2. svCall.schema = "model" /\ Installed("pydantic") => FALSE
    BY <2>1 DEF Chosen
  <2>3. CASE Finish("raised", content) /\ Over
    BY <1>0, <2>1, <2>3, FinishedCall DEF Result, UnderWay
  <2>4. CASE Finish("failed", content) /\ Over
    BY <1>0, <2>1, <2>4, FinishedCall DEF Result, UnderWay
  <2>5. CASE Step("repair")
    <3>1. RepairSoFar'
      BY <1>0, <2>1, <2>5 DEF Step, RepairSoFar
    <3>. QED BY <2>1, <2>5, <3>1, CallGoesOn DEF UnderWay
  <2>6. CASE Finish("valid", content) /\ Over /\ ~(Checks(Chosen) /\ ~Conforms(content))
    <3>1. svCall.schema = "dict" /\ Installed("jsonschema") => Conforms(content)
      BY <2>6 DEF Checks, Chosen
    <3>. QED BY <1>0, <2>1, <2>2, <2>6, <3>1, FinishedCall DEF Result, UnderWay
  <2>. QED BY <1>4, <2>3, <2>4, <2>5, <2>6 DEF ValidateJson
<1>5. CASE ValidatePydantic
  <2>1. svAt = "parse" /\ content = svCall.content /\ content.flaws = {} /\ svCall.schema = "model"
    BY <1>0, <1>5 DEF ValidatePydantic, Parses, RepairSoFar, Chosen
  <2>2. CASE Finish("raised", content) /\ Over
    BY <1>0, <2>1, <2>2, FinishedCall DEF Result, UnderWay
  <2>3. CASE Finish("failed", content) /\ Over
    BY <1>0, <2>1, <2>3, FinishedCall DEF Result, UnderWay
  <2>4. CASE Step("repair")
    <3>1. RepairSoFar'
      BY <1>0, <2>1, <2>4 DEF Step, RepairSoFar
    <3>. QED BY <2>1, <2>4, <3>1, CallGoesOn DEF UnderWay
  <2>5. CASE Finish("valid", content) /\ Over /\ Conforms(content)
    BY <1>0, <2>1, <2>5, FinishedCall DEF Result, UnderWay
  <2>. QED BY <1>5, <2>2, <2>3, <2>4, <2>5 DEF ValidatePydantic
<1>6. CASE ParseFailed
  <2>1. svAt = "parse" /\ content = svCall.content
    BY <1>0, <1>6 DEF ParseFailed, RepairSoFar
  <2>2. CASE Step("repair")
    <3>1. RepairSoFar'
      BY <1>0, <2>1, <2>2 DEF Step, RepairSoFar
    <3>. QED BY <2>1, <2>2, <3>1, CallGoesOn DEF UnderWay
  <2>3. CASE Finish("failed", content) /\ Over
    BY <1>0, <2>1, <2>3, FinishedCall DEF Result, UnderWay
  <2>. QED BY <1>6, <2>2, <2>3 DEF ParseFailed
<1>7. CASE Attempt
  <2>. DEFINE t == ApplyRepairs(content)
              u == IF attempt' = config.retries THEN AggressiveRepair(t) ELSE t
  <2>1. /\ svAt = "repair" /\ attempt < config.retries /\ attempt' = attempt + 1
        /\ content' = u
        /\ UNCHANGED <<config, switched, stats, svCall, svAt, outcome>>
    BY <1>7 DEF Attempt
  <2>2. t \in Text /\ t.fragile = content.fragile /\ (content.fragile => "damage" \in t.flaws)
    BY <1>0, ApplyFields
  <2>3. u \in Text /\ u.fragile = content.fragile /\ (content.fragile => "damage" \in u.flaws)
    BY <2>2, AggressiveFields
  <2>4. attempt' \in Nat /\ attempt' <= config.retries /\ attempt' > 0
    BY <1>0, <2>1
  <2>5. SvTypeOK'
    BY <2>1, <2>3, <2>4 DEF SvInv, SvTypeOK
  <2>6. RepairSoFar'
    BY <1>0, <2>1, <2>3, <2>4 DEF RepairSoFar
  <2>7. StatsAddUp'
    BY <2>1 DEF SvInv, StatsAddUp
  <2>8. ValidIsValid' /\ RepairedIsUsable' /\ RepairsNeedTwoRounds'
    BY <2>1, <2>4 DEF ValidIsValid, RepairedIsUsable, RepairsNeedTwoRounds, Returned
  <2>. QED BY <2>5, <2>6, <2>7, <2>8 DEF SvInv
<1>8. CASE RepairFailed
  BY <1>0, <1>8, FinishedCall DEF RepairFailed, Result, UnderWay
<1>9. CASE RepairParsed
  <2>. DEFINE to == IF Chosen = "model" /\ Parses(svCall.content) THEN "fields" ELSE "revalidate"
  <2>1. svAt = "repair" /\ attempt < config.retries /\ content.flaws = {} /\ Step(to)
    BY <1>9 DEF RepairParsed, Parses
  <2>2. /\ svAt' = to /\ to \in {"fields", "revalidate"} /\ (to = "fields" => svCall.content.flaws = {})
        /\ UNCHANGED <<config, switched, stats, svCall, content, attempt, outcome>>
    BY <2>1 DEF Step, Parses
  <2>3. svCall.content.flaws # {} => config.retries >= 2 /\ ~content.fragile
    <3>1. svCall.content.flaws # {} => attempt > 0
      BY <1>0, <2>1 DEF RepairSoFar
    <3>2. attempt > 0 => ~content.fragile
      BY <1>0, <2>1 DEF RepairSoFar
    <3>. QED BY <1>0, <2>1, <3>1, <3>2
  <2>4. RepairSoFar'
    BY <1>0, <2>1, <2>2, <2>3 DEF RepairSoFar
  <2>5. svAt \in UnderWay /\ to \in UnderWay
    BY <2>1, <2>2 DEF UnderWay
  <2>. HIDE DEF to
  <2>. QED BY <2>1, <2>4, <2>5, CallGoesOn
<1>10. CASE RevalidateJson
  <2>1. /\ svAt = "revalidate" /\ content.flaws = {} /\ content.fragile = svCall.content.fragile
        /\ ~(svCall.schema = "model" /\ Installed("pydantic"))
    BY <1>0, <1>10 DEF RevalidateJson, RepairSoFar, Chosen
  <2>2. CASE Finish("repaired", content) /\ Over
    <3>1. svCall.content.flaws # {} => config.retries >= 2 /\ ~svCall.content.fragile
      BY <1>0, <2>1 DEF RepairSoFar
    <3>. QED BY <1>0, <2>1, <2>2, <3>1, FinishedCall DEF Result, UnderWay
  <2>3. CASE Finish("raised", content) /\ Over
    BY <1>0, <2>1, <2>3, FinishedCall DEF Result, UnderWay
  <2>4. CASE Finish("failed", content) /\ Over
    BY <1>0, <2>1, <2>4, FinishedCall DEF Result, UnderWay
  <2>. QED BY <1>10, <2>2, <2>3, <2>4 DEF RevalidateJson
<1>11. CASE RevalidatePydantic
  <2>1. svAt = "revalidate" /\ content.flaws = {} /\ content.fragile = svCall.content.fragile
    BY <1>0, <1>11 DEF RevalidatePydantic, RepairSoFar
  <2>2. CASE Finish("repaired", content) /\ Over /\ Conforms(content)
    <3>1. svCall.content.flaws # {} => config.retries >= 2 /\ ~svCall.content.fragile
      BY <1>0, <2>1 DEF RepairSoFar
    <3>. QED BY <1>0, <2>1, <2>2, <3>1, FinishedCall DEF Result, UnderWay
  <2>3. CASE Finish("raised", content) /\ Over
    BY <1>0, <2>1, <2>3, FinishedCall DEF Result, UnderWay
  <2>4. CASE Finish("failed", content) /\ Over
    BY <1>0, <2>1, <2>4, FinishedCall DEF Result, UnderWay
  <2>. QED BY <1>11, <2>2, <2>3, <2>4 DEF RevalidatePydantic
<1>12. CASE AttemptPydanticRepair
  <2>. DEFINE t == FixFields(content)
  <2>1. svAt = "fields" /\ content.flaws = {} /\ svCall.content.flaws = {}
    BY <1>0, <1>12 DEF AttemptPydanticRepair, RepairSoFar
  <2>2. t \in Text /\ t.flaws = {}
    BY <1>0, <2>1, FixedFields
  <2>3. Finish(IF Conforms(t) THEN "repaired" ELSE "failed", t) /\ Over
    BY <1>12 DEF AttemptPydanticRepair
  <2>. HIDE DEF t
  <2>4. CASE Conforms(t)
    BY <2>1, <2>2, <2>3, <2>4, FinishedCall DEF Result, UnderWay
  <2>5. CASE ~Conforms(t)
    BY <2>1, <2>2, <2>3, <2>5, FinishedCall DEF Result, UnderWay
  <2>. QED BY <2>4, <2>5
<1>13. CASE UNCHANGED svvars
  BY <1>13 DEF svvars, SvInv, SvTypeOK, RepairSoFar, StatsAddUp, ValidIsValid, RepairedIsUsable,
               RepairsNeedTwoRounds, Returned, Installed
<1>. QED
  <2>1. ASSUME NEW t \in Contents, NEW s \in Schema PROVE [content |-> t, schema |-> s] \in [content : Contents, schema : Schema]
    OBVIOUS
  <2>. QED
    BY <1>1, <1>2, <1>3, <1>4, <1>5, <1>6, <1>7, <1>8, <1>9, <1>10, <1>11, <1>12, <1>13, <2>1 DEF SvNext

LEMMA SvInvariance == SvSpec => []SvInv
BY SvInitInvariant, SvStepInvariant, PTL DEF SvSpec

-----------------------------------------------------------------------------

(* The validator's call, its counters and its outcome keep their kinds     *)
(* through any number of calls (core/schema_validation.py).                *)
THEOREM ValidatorTypes == SvSpec => []SvTypeOK
<1>1. SvInv => SvTypeOK
  BY DEF SvInv
<1>. QED BY SvInvariance, <1>1, PTL

(* Every call that is counted is counted once more, by how it ended, or has*)
(* not ended: validation_stats never loses a call nor counts it twice.     *)
THEOREM CountersAddUp == SvSpec => []StatsAddUp
<1>1. SvInv => StatsAddUp
  BY DEF SvInv
<1>. QED BY SvInvariance, <1>1, PTL

(* VALID is reported only of the text that came in, and only if it parses  *)
(* and conforms where a library is installed that can tell.                *)
THEOREM ValidTexts == SvSpec => []ValidIsValid
<1>1. SvInv => ValidIsValid
  BY DEF SvInv
<1>. QED BY SvInvariance, <1>1, PTL

(* REPAIRED is reported only of a text that parses, and of one that fits   *)
(* the model it was repaired for.                                          *)
THEOREM RepairedTexts == SvSpec => []RepairedIsUsable
<1>1. SvInv => RepairedIsUsable
  BY DEF SvInv
<1>. QED BY SvInvariance, <1>1, PTL

(* A text that does not parse needs two rounds of repair, whatever the     *)
(* number of retries: with max_retries = 1 none is ever REPAIRED, and one  *)
(* the patterns damage never is.                                           *)
THEOREM OneRoundMendsNothing == SvSpec => []RepairsNeedTwoRounds
<1>1. SvInv => RepairsNeedTwoRounds
  BY DEF SvInv
<1>. QED BY SvInvariance, <1>1, PTL

(* schema_validation.py: what a report says of its text, and what the      *)
(* statistics say of the reports, is so.                                   *)
THEOREM TrueReports == SvSpec => []ReportsAreTrue
BY ValidatorTypes, CountersAddUp, ValidTexts, RepairedTexts, OneRoundMendsNothing, PTL DEF ReportsAreTrue

-----------------------------------------------------------------------------
(* OutputRepair                                                            *)

(* What is found of a text, and whether the guard takes it for valid, is    *)
(* a matter of finitely many kinds.                                         *)
Answered ==
  /\ handed \in [text : JsonText] \cup [output : Output, format : Format]
  /\ "text" \in DOMAIN handed => returned \in {"nothing", RepairJson(handed.text)}
  /\ "output" \in DOMAIN handed => returned \in {"nothing", GuardOutput(handed.output, handed.format)}

(* What RepairJson makes of JSON without a flaw: the value or a member of  *)
(* it, where neither braces nor, for arrays, brackets of the text hide it. *)
LEMMA RepairFindsJson ==
  ASSUME NEW t \in JsonText, t.flaw = "none", t.shape # "scalar", ~Braced(t),
         t.shape \in {"many", "flat"} => ~Bracketed(t)
  PROVE  \/ RepairJson(t) = t.shape
         \/ RepairJson(t) = "member" /\ t.shape = "one" /\ ~Alone(t)
<1>1. t.shape \in Shape
  BY DEF JsonText
<1>. QED BY <1>1 DEF RepairJson, First, BraceMatch, BracketMatch, CommonFixes, Shape

(* Without a format that it knows the guard changes nothing but a hinted   *)
(* wrapper.                                                                *)
LEMMA GuardKeeps ==
  ASSUME NEW o \in Output, NEW f \in {"none", "unknown"}
  PROVE  \/ GuardOutput(o, f) = "same"
         \/ GuardOutput(o, f) = "unwrapped" /\ o.kind = "text" /\ o.form = "hint"
<1>1. PICK k \in {"text", "object"}, m \in {"json", "embedded", "scalar", "plain", "hint", "code"}, w \in BOOLEAN :
        k = o.kind /\ m = o.form /\ w = o.wrapped
  BY DEF Output
<1>. QED BY <1>1 DEF GuardOutput, Expected, FoundValid, Fixed, DetectFormat

(* AnswersComeWhole for any text and output that OutputRepair is given:    *)
(* safe_repair_json finds sound objects and arrays whole where the text    *)
(* around them has no braces, and for arrays of none or several objects no *)
(* brackets, and OutputGuard hands on what the model said.                 *)
THEOREM AnswersStayWhole == OutSpec => []AnswersComeWhole
<1>1. OutInit => Answered
  <2>. SUFFICES ASSUME OutInit PROVE Answered
    OBVIOUS
  <2>. QED BY DEF OutInit, Answered
<1>2. Answered /\ [OutNext]_outvars => Answered'
  <2>. SUFFICES ASSUME Answered, [OutNext]_outvars PROVE Answered'
    OBVIOUS
  <2>1. CASE SafeJsonOutput
    BY <2>1 DEF SafeJsonOutput, Answered
  <2>2. CASE SafeOutput
    BY <2>2 DEF SafeOutput, Answered
  <2>3. CASE UNCHANGED outvars
    BY <2>3 DEF outvars, Answered
  <2>. QED BY <2>1, <2>2, <2>3 DEF OutNext
<1>3. Answered => AnswersComeWhole
  <2>. SUFFICES ASSUME Answered PROVE IntactJsonComesWhole /\ GuardKeepsAnswers
    BY DEF AnswersComeWhole
  <2>1. IntactJsonComesWhole
    <3>. SUFFICES ASSUME Repairing, handed.text.flaw = "none", handed.text.shape # "scalar", ~Braced(handed.text),
                         handed.text.shape \in {"many", "flat"} => ~Bracketed(handed.text)
         PROVE  \/ returned = handed.text.shape
                \/ returned = "member" /\ handed.text.shape = "one" /\ ~Alone(handed.text)
      BY DEF IntactJsonComesWhole
    <3>1. handed.text \in JsonText /\ returned = RepairJson(handed.text)
      BY DEF Repairing, Answered
    <3>. QED BY <3>1, RepairFindsJson
  <2>2. GuardKeepsAnswers
    <3>. SUFFICES ASSUME Guarding, handed.format \in {"none", "unknown"}
         PROVE  \/ returned = "same"
                \/ returned = "unwrapped" /\ handed.output.kind = "text" /\ handed.output.form = "hint"
      BY DEF GuardKeepsAnswers
    <3>1. handed.output \in Output /\ returned = GuardOutput(handed.output, handed.format)
      BY DEF Guarding, Answered
    <3>. QED BY <3>1, GuardKeeps
  <2>. QED BY <2>1, <2>2
<1>. QED BY <1>1, <1>2, <1>3, PTL DEF OutSpec

-----------------------------------------------------------------------------
(* WrappedCall                                                             *)

(* The pieces that stream_chunk cuts a chunk to are, joined again, the     *)
(* chunk.                                                                  *)
LEMMA PiecesJoin ==
  ASSUME NEW t \in Seq(Nat), MaxChunk \in Nat, MaxChunk > 0
  PROVE  Pieces(t) \in Seq(Seq(Nat)) /\ FlattenSeq(Pieces(t)) = t
<1>. DEFINE n == (Len(t) + MaxChunk - 1) \div MaxChunk
            End(i) == IF i * MaxChunk < Len(t) THEN i * MaxChunk ELSE Len(t)
            p == Pieces(t)
<1>1. n \in Nat /\ Len(t) <= n * MaxChunk /\ \A i \in 1..n : (i - 1) * MaxChunk < Len(t)
  BY Parts
<1>2. \A i \in 0..n : End(i) \in Nat /\ i * MaxChunk \in Nat /\ End(i) <= Len(t)
  BY <1>1
<1>3. \A i \in 1..n : /\ (i - 1) * MaxChunk = End(i - 1)
                      /\ End(i - 1) <= End(i)
  <2>. SUFFICES ASSUME NEW i \in 1..n PROVE (i - 1) * MaxChunk = End(i - 1) /\ End(i - 1) <= End(i)
    OBVIOUS
  <2>1. (i - 1) * MaxChunk < Len(t)
    BY <1>1
  <2>2. i \in Int /\ i * MaxChunk = (i - 1) * MaxChunk + MaxChunk
    BY <1>1
  <2>3. i * MaxChunk \in Int /\ (i - 1) * MaxChunk \in Int
    BY <2>2
  <2>. QED BY <2>1, <2>2, <2>3
<1>4. \A i \in 1..n : SubSeq(t, 1, End(i - 1)) \o SubSeq(t, (i - 1) * MaxChunk + 1, End(i)) = SubSeq(t, 1, End(i))
                      /\ SubSeq(t, (i - 1) * MaxChunk + 1, End(i)) \in Seq(Nat)
  <2>. SUFFICES ASSUME NEW i \in 1..n
       PROVE SubSeq(t, 1, End(i - 1)) \o SubSeq(t, (i - 1) * MaxChunk + 1, End(i)) = SubSeq(t, 1, End(i))
             /\ SubSeq(t, (i - 1) * MaxChunk + 1, End(i)) \in Seq(Nat)
    OBVIOUS
  <2>1. i \in 0..n /\ i - 1 \in 0..n
    BY <1>1
  <2>2. PICK a \in Nat, b \in Nat : a = End(i - 1) /\ b = End(i)
    BY <1>2, <2>1
  <2>3. a <= b /\ b <= Len(t) /\ (i - 1) * MaxChunk = a
    BY <1>2, <1>3, <2>1, <2>2
  <2>. HIDE DEF End
  <2>4. SubSeq(t, 1, a) \o SubSeq(t, a + 1, b) = SubSeq(t, 1, b) /\ SubSeq(t, a + 1, b) \in Seq(Nat)
    BY <2>3, SliceJoins
  <2>. QED BY <2>2, <2>3, <2>4
<1>5. p = [i \in 1..n |-> SubSeq(t, (i - 1) * MaxChunk + 1, End(i))]
  BY DEF Pieces
<1>6. End(0) = 0 /\ End(n) = Len(t)
  BY <1>1
<1>. DEFINE Piece(i) == SubSeq(t, (i - 1) * MaxChunk + 1, End(i))
<1>11. p = [i \in 1..n |-> Piece(i)] /\ \A i \in 1..n : Piece(i) \in Seq(Nat)
  BY <1>4, <1>5
<1>. HIDE DEF n, p, Piece
<1>12. p \in Seq(Seq(Nat)) /\ Len(p) = n /\ \A i \in 1..n : p[i] = Piece(i)
  BY <1>1, <1>11
<1>7. p \in Seq(Seq(Nat)) /\ Len(p) = n /\ \A i \in 1..n : p[i] = SubSeq(t, (i - 1) * MaxChunk + 1, End(i))
  BY <1>12 DEF Piece
<1>. HIDE DEF End
<1>. DEFINE B == {k \in 0..n : FlattenSeq(SubSeq(p, 1, k)) # SubSeq(t, 1, End(k))}
<1>8. B = {}
  <2>. SUFFICES ASSUME B # {} PROVE FALSE
    OBVIOUS
  <2>1. PICK k \in B : \A j \in B : k <= j
    <3>1. B \subseteq Nat
      OBVIOUS
    <3>. HIDE DEF B
    <3>. QED BY <3>1, LeastNat
  <2>2. k \in 0..n /\ FlattenSeq(SubSeq(p, 1, k)) # SubSeq(t, 1, End(k)) /\ k \in Nat
    BY <2>1, <1>1
  <2>3. CASE k = 0
    <3>1. SubSeq(p, 1, 0) = <<>> /\ SubSeq(t, 1, 0) = <<>>
      BY SubSeqEmpty
    <3>. QED BY <1>6, <2>2, <2>3, <3>1, FlatEmpty
  <2>4. CASE k # 0
    <3>1. k - 1 \in Nat /\ k - 1 < Len(p) /\ k \in 1..n
      BY <1>1, <1>7, <2>2, <2>4
    <3>2. FlattenSeq(SubSeq(p, 1, k - 1)) = SubSeq(t, 1, End(k - 1))
      <4>1. k - 1 \notin B
        BY <2>1, <3>1, <2>2
      <4>. QED BY <4>1, <3>1, <1>1
    <3>. DEFINE j == k - 1
    <3>3. k = j + 1 /\ j \in Nat /\ j < Len(p)
      BY <2>2, <3>1
    <3>. HIDE DEF j
    <3>4. SubSeq(p, 1, j) \in Seq(Seq(Nat)) /\ p[j + 1] \in Seq(Nat) /\ SubSeq(p, 1, j + 1) = Append(SubSeq(p, 1, j), p[j + 1])
      BY <1>7, <3>3, FirstOnes
    <3>5. FlattenSeq(SubSeq(p, 1, k)) = FlattenSeq(SubSeq(p, 1, j)) \o p[k]
      BY <3>3, <3>4, FlatAppend
    <3>6. p[k] = SubSeq(t, (k - 1) * MaxChunk + 1, End(k))
      BY <1>7, <3>1
    <3>7. SubSeq(t, 1, End(k - 1)) \o SubSeq(t, (k - 1) * MaxChunk + 1, End(k)) = SubSeq(t, 1, End(k))
      BY <1>4, <3>1
    <3>. QED BY <2>2, <3>2, <3>5, <3>6, <3>7 DEF j
  <2>. QED BY <2>3, <2>4
<1>9. FlattenSeq(SubSeq(p, 1, n)) = SubSeq(t, 1, End(n))
  BY <1>8, <1>1
<1>10. SubSeq(p, 1, n) = p /\ SubSeq(t, 1, Len(t)) = t
  BY <1>7, SubSeqFull
<1>. QED BY <1>6, <1>7, <1>9, <1>10 DEF p

(* A chunk as the caller receives it, and what else he may receive.         *)
ChunkItem == [what : {"chunk"}, text : Seq(Nat)]

(* What a caller gets besides chunks, and how often.                       *)
Other == [what : {"answer"}, text : {"same", "unwrapped", "string", "value"}] \cup [what : {"response", "repr"}, text : {<<>>}]

Endings == {<<>>} \cup {<<x>> : x \in Other} \cup {<<x, x>> : x \in Other}

Heard(c) == [i \in DOMAIN c |-> Item("chunk", c[i])]

(* Heard chunks are items, one for each.                                   *)
LEMMA HeardType ==
  ASSUME NEW c \in Seq(Seq(Nat))
  PROVE  Heard(c) \in Seq(ChunkItem) /\ Len(Heard(c)) = Len(c) /\ \A i \in 1..Len(c) : Heard(c)[i] = Item("chunk", c[i])
<1>1. \A x \in Seq(Nat) : Item("chunk", x) \in ChunkItem
  BY DEF Item, ChunkItem
<1>2. DOMAIN c = 1..Len(c) /\ \A i \in 1..Len(c) : c[i] \in Seq(Nat)
  OBVIOUS
<1>3. Heard(c) = [i \in 1..Len(c) |-> Item("chunk", c[i])]
  BY <1>2 DEF Heard
<1>4. \A i \in 1..Len(c) : Item("chunk", c[i]) \in ChunkItem
  BY <1>1, <1>2
<1>. HIDE DEF ChunkItem
<1>. QED BY <1>3, <1>4

(* To hear two rows of chunks is to hear the one and then the other.       *)
LEMMA HeardJoins ==
  ASSUME NEW c \in Seq(Seq(Nat)), NEW d \in Seq(Seq(Nat))
  PROVE  Heard(c) \o Heard(d) = Heard(c \o d)
<1>1. /\ c \o d \in Seq(Seq(Nat)) /\ Len(c \o d) = Len(c) + Len(d)
      /\ \A i \in 1..(Len(c) + Len(d)) : (c \o d)[i] = IF i <= Len(c) THEN c[i] ELSE d[i - Len(c)]
  BY ConcatProperties
<1>2. Heard(c \o d) \in Seq(ChunkItem) /\ Len(Heard(c \o d)) = Len(c) + Len(d)
      /\ \A i \in 1..(Len(c) + Len(d)) : Heard(c \o d)[i] = Item("chunk", (c \o d)[i])
  <2>1. PICK e \in Seq(Seq(Nat)) : e = c \o d /\ Len(e) = Len(c) + Len(d)
    BY <1>1
  <2>. QED BY <2>1, HeardType
<1>3. /\ Heard(c) \in Seq(ChunkItem) /\ Len(Heard(c)) = Len(c) /\ \A i \in 1..Len(c) : Heard(c)[i] = Item("chunk", c[i])
      /\ Heard(d) \in Seq(ChunkItem) /\ Len(Heard(d)) = Len(d) /\ \A i \in 1..Len(d) : Heard(d)[i] = Item("chunk", d[i])
  BY HeardType
<1>. DEFINE p == Heard(c)
            q == Heard(d)
            r == Heard(c \o d)
<1>. HIDE DEF p, q, r
<1>4. /\ p \o q \in Seq(ChunkItem) /\ Len(p \o q) = Len(p) + Len(q)
      /\ \A i \in 1..(Len(p) + Len(q)) : (p \o q)[i] = IF i <= Len(p) THEN p[i] ELSE q[i - Len(p)]
  BY <1>3, ConcatProperties DEF p, q
<1>5. \A i \in 1..(Len(c) + Len(d)) : (p \o q)[i] = r[i]
  <2>. SUFFICES ASSUME NEW i \in 1..(Len(c) + Len(d)) PROVE (p \o q)[i] = r[i]
    OBVIOUS
  <2>0. Len(p) = Len(c) /\ Len(q) = Len(d)
    BY <1>3 DEF p, q
  <2>1. CASE i <= Len(c)
    <3>1. i \in 1..Len(c)
      BY <2>1
    <3>2. (p \o q)[i] = p[i] /\ (c \o d)[i] = c[i]
      BY <1>1, <1>4, <2>0, <2>1
    <3>. QED BY <1>2, <1>3, <3>1, <3>2 DEF p, r
  <2>2. CASE ~(i <= Len(c))
    <3>1. i - Len(c) \in 1..Len(d)
      BY <2>2
    <3>2. (p \o q)[i] = q[i - Len(c)] /\ (c \o d)[i] = d[i - Len(c)]
      BY <1>1, <1>4, <2>0, <2>2
    <3>. QED BY <1>2, <1>3, <3>1, <3>2 DEF q, r
  <2>. QED BY <2>1, <2>2
<1>6. p \o q = r
  <2>1. Len(p \o q) = Len(r) /\ \A i \in 1..Len(p \o q) : (p \o q)[i] = r[i]
    BY <1>2, <1>3, <1>4, <1>5 DEF p, q, r
  <2>. QED BY <1>2, <1>4, <2>1, SeqEqual DEF r
<1>. QED BY <1>6 DEF p, q, r

(* An ending is short and its items are alike.                             *)
LEMMA EndingsAreSequences ==
  ASSUME NEW e \in Endings
  PROVE  e \in Seq(ChunkItem \cup Other) /\ Len(e) \in 0..2 /\ \A i \in 1..Len(e) : e[i] \in Other /\ e[i] = e[1]
<1>1. \A x : <<x>>[1] = x /\ <<x, x>>[1] = x /\ <<x, x>>[2] = x /\ Len(<<x>>) = 1 /\ Len(<<x, x>>) = 2
  OBVIOUS
<1>2. \A S : \A x \in S : <<x>> \in Seq(S) /\ <<x, x>> \in Seq(S) /\ <<>> \in Seq(S)
  OBVIOUS
<1>3. e = <<>> \/ \E x \in Other : e = <<x>> \/ e = <<x, x>>
  BY DEF Endings
<1>. HIDE DEF Other, ChunkItem
<1>4. CASE e = <<>>
  BY <1>4
<1>5. ASSUME NEW x \in Other, e = <<x>> PROVE e \in Seq(ChunkItem \cup Other) /\ Len(e) \in 0..2 /\ \A i \in 1..Len(e) : e[i] \in Other /\ e[i] = e[1]
  <2>1. e[1] = x /\ Len(e) = 1 /\ x \in ChunkItem \cup Other
    BY <1>1, <1>5
  <2>2. e \in Seq(ChunkItem \cup Other)
    BY <1>2, <1>5, <2>1
  <2>. QED BY <2>1, <2>2
<1>6. ASSUME NEW x \in Other, e = <<x, x>> PROVE e \in Seq(ChunkItem \cup Other) /\ Len(e) \in 0..2 /\ \A i \in 1..Len(e) : e[i] \in Other /\ e[i] = e[1]
  <2>1. e[1] = x /\ e[2] = x /\ Len(e) = 2 /\ x \in ChunkItem \cup Other
    BY <1>1, <1>6
  <2>2. e \in Seq(ChunkItem \cup Other)
    BY <1>2, <1>6, <2>1
  <2>. QED BY <2>1, <2>2
<1>. QED BY <1>3, <1>4, <1>5, <1>6

(* What is received is chunks, and then an ending that is not of chunks.    *)
LEMMA Received ==
  ASSUME NEW c \in Seq(Seq(Nat)), NEW e \in Endings
  PROVE  LET s == Heard(c) \o e IN
         /\ s \in Seq(ChunkItem \cup Other) /\ Len(s) = Len(c) + Len(e)
         /\ Len(e) \in 0..2
         /\ \A i \in 1..Len(c) : s[i] = Item("chunk", c[i])
         /\ \A i \in (Len(c) + 1)..Len(s) : s[i] \in Other /\ s[i] = e[1]
<1>1. Heard(c) \in Seq(ChunkItem \cup Other) /\ Len(Heard(c)) = Len(c) /\ \A i \in 1..Len(c) : Heard(c)[i] = Item("chunk", c[i])
  <2>1. Heard(c) \in Seq(ChunkItem)
    BY HeardType
  <2>2. \A x \in Seq(ChunkItem) : x \in Seq(ChunkItem \cup Other)
    <3>1. PICK S, U : S = ChunkItem /\ U = ChunkItem \cup Other
      OBVIOUS
    <3>2. S \subseteq U
      BY <3>1
    <3>. QED BY <3>1, <3>2
  <2>. QED BY <2>1, <2>2, HeardType
<1>2. e \in Seq(ChunkItem \cup Other) /\ Len(e) \in 0..2 /\ \A i \in 1..Len(e) : e[i] \in Other /\ e[i] = e[1]
  BY EndingsAreSequences
<1>. DEFINE p == Heard(c)
<1>. HIDE DEF p
<1>3. /\ p \o e \in Seq(ChunkItem \cup Other) /\ Len(p \o e) = Len(p) + Len(e)
      /\ \A i \in 1..(Len(p) + Len(e)) : (p \o e)[i] = IF i <= Len(p) THEN p[i] ELSE e[i - Len(p)]
  BY <1>1, <1>2, ConcatProperties DEF p
<1>4. Len(p) = Len(c) /\ Len(c) \in Nat
  BY <1>1 DEF p
<1>5. \A i \in 1..Len(c) : (p \o e)[i] = p[i]
  BY <1>2, <1>3, <1>4
<1>6. \A i \in (Len(c) + 1)..(Len(c) + Len(e)) : (p \o e)[i] = e[i - Len(c)] /\ i - Len(c) \in 1..Len(e)
  BY <1>2, <1>3, <1>4
<1>. QED BY <1>1, <1>2, <1>3, <1>4, <1>5, <1>6 DEF p

Before == wcAt \in {"prepare", "send", "answer"}

(* What the caller has are chunks as they came, and an ending.             *)
WcInv ==
  /\ wcall \in Calls
  /\ wcAt \in {"prepare", "send", "answer", "stream", "done"}
  /\ sentAs \in {"no", "raw", "processed"}
  /\ failure \in {"none", "own", "refusing"}
  /\ taken \in Nat
  /\ wcAt = "prepare" => sentAs = "no"
  /\ wcAt = "send" => sentAs = IF Sees(wcall) /\ wcall.on THEN "processed" ELSE "no"
  /\ sentAs = "raw" => ~(Sees(wcall) /\ wcall.on)
  /\ Streams => taken <= Len(Chunks)
  /\ Before => taken = 0
  /\ wcAt = "stream" => HandedOver
  /\ \E c \in Seq(Seq(Nat)), e \in Endings :
       /\ items = Heard(c) \o e
       /\ Before => c = <<>>
       /\ wcAt # "done" => e = <<>>
       /\ wcAt = "stream" /\ ~Iterates => taken = 0 /\ c = <<>>
       /\ Len(e) = 2 => wcall.guard
       /\ Streams => FlattenSeq(c) = FlattenSeq(SubSeq(Chunks, 1, taken))
       /\ wcAt = "done" /\ e # <<>> /\ HandedOver /\ wcall.door # "function" /\ Iterates =>
            taken = wcall.answer.fails /\ taken < Len(Chunks)

(* A stream is one of chunks.                                              *)
LEMMA StreamHasChunks ==
  ASSUME wcall \in Calls, Streams
  PROVE  Chunks \in Seq(Seq(Nat))
BY CallsAssumption DEF Streams, Chunks, CallType, StreamKind

(* The guard has four things to say of an answer.                          *)
LEMMA GuardsAnswer ==
  ASSUME NEW o, NEW f
  PROVE  GuardOutput(o, f) \in {"same", "unwrapped", "string", "value"}
BY DEF GuardOutput, Fixed

(* One item or two that are alike are an ending.                           *)
LEMMA EndIsOne ==
  ASSUME NEW x \in Other
  PROVE  <<x>> \in Endings /\ <<x, x>> \in Endings /\ <<>> \in Endings /\ Len(<<x>>) = 1 /\ Len(<<x, x>>) = 2 /\ Len(<<>>) = 0
BY DEF Endings

(* Who heard no chunk has heard nothing.                                   *)
LEMMA Nothing == Heard(<<>>) = <<>> /\ <<>> \in Seq(Seq(Nat)) /\ <<>> \in Endings
<1>1. <<>> \in Seq(Seq(Nat))
  OBVIOUS
<1>2. Heard(<<>>) \in Seq(ChunkItem) /\ Len(Heard(<<>>)) = 0
  BY <1>1, HeardType
<1>3. \A S : \A x \in Seq(S) : Len(x) = 0 => x = <<>>
  OBVIOUS
<1>. QED BY <1>1, <1>2, <1>3 DEF Endings

(* An ending that is already there can be an ending again.                 *)
LEMMA ItselfEnds ==
  ASSUME wcall.guard \in BOOLEAN
  PROVE  Itself \in Endings /\ Itself # <<>> /\ (Len(Itself) = 2 => wcall.guard)
<1>1. Item("repr", <<>>) \in Other /\ Item("response", <<>>) \in Other
  BY DEF Other, Item
<1>2. \A x : <<x>> # <<>> /\ <<x, x>> # <<>> /\ Len(<<x>>) # 2
  OBVIOUS
<1>3. CASE wcall.guard /\ MaxChunk > 0
  <2>1. Itself = <<Item("repr", <<>>), Item("repr", <<>>)>>
    BY <1>3 DEF Itself
  <2>. QED BY <1>1, <1>2, <1>3, <2>1, EndIsOne
<1>4. CASE ~(wcall.guard /\ MaxChunk > 0)
  <2>1. Itself = <<Item("response", <<>>)>>
    BY <1>4 DEF Itself
  <2>. QED BY <1>1, <1>2, <2>1, EndIsOne
<1>. QED BY <1>3, <1>4

(* The invariant has the property.                                         *)
LEMMA InvImplies == WcInv => WrappedCallsDeliver
<1>. SUFFICES ASSUME WcInv PROVE WrappedCallsDeliver
  OBVIOUS
<1>1. PICK c \in Seq(Seq(Nat)), e \in Endings :
       /\ items = Heard(c) \o e
       /\ Len(e) = 2 => wcall.guard
       /\ Streams => FlattenSeq(c) = FlattenSeq(SubSeq(Chunks, 1, taken))
       /\ wcAt = "done" /\ e # <<>> /\ HandedOver /\ wcall.door # "function" /\ Iterates =>
            taken = wcall.answer.fails /\ taken < Len(Chunks)
  BY DEF WcInv
<1>2. /\ items \in Seq(ChunkItem \cup Other) /\ Len(items) = Len(c) + Len(e)
      /\ Len(e) \in 0..2
      /\ \A i \in 1..Len(c) : items[i] = Item("chunk", c[i])
      /\ \A i \in (Len(c) + 1)..Len(items) : items[i] \in Other /\ items[i] = e[1]
  BY <1>1, Received
<1>3. Len(c) \in Nat /\ DOMAIN items = 1..Len(items)
  BY <1>2
<1>4. \A i \in 1..Len(c) : items[i].what = "chunk" /\ items[i].text = c[i]
  <2>1. \A x : Item("chunk", x).what = "chunk" /\ Item("chunk", x).text = x
    BY DEF Item
  <2>. QED BY <1>2, <2>1
<1>5. \A i \in (Len(c) + 1)..Len(items) : items[i].what \in {"answer", "response", "repr"}
  BY <1>2 DEF Other
<1>11. \A i \in 1..Len(items) : i \in 1..Len(c) \/ i \in (Len(c) + 1)..Len(items)
  BY <1>2, <1>3
<1>6. WcTypeOK
  <2>1. \A i \in DOMAIN items : items[i].what \in {"chunk", "answer", "response", "repr"}
    BY <1>3, <1>4, <1>5, <1>11
  <2>. QED BY <2>1 DEF WcInv, WcTypeOK
<1>7. UnseenPromptsOnlyAreRaw
  <2>1. wcall.door \in Route /\ wcall.prompt \in Passing
    BY CallsAssumption DEF WcInv, CallType
  <2>. QED BY <2>1 DEF WcInv, UnseenPromptsOnlyAreRaw, Sees, Route, Passing
<1>8. ChunksJoinToTheStream
  <2>. SUFFICES ASSUME Streams
       PROVE /\ Len(c) \in 0..Len(items)
             /\ \A i \in DOMAIN items : items[i].what = "chunk" <=> i <= Len(c)
             /\ Texts(SubSeq(items, 1, Len(c))) = c
    BY <1>1 DEF ChunksJoinToTheStream
  <2>1. /\ SubSeq(items, 1, Len(c)) \in Seq(ChunkItem \cup Other) /\ Len(SubSeq(items, 1, Len(c))) = Len(c)
        /\ \A i \in 1..Len(c) : SubSeq(items, 1, Len(c))[i] = items[i]
    <3>1. \A i \in 1..Len(c) : items[i] \in ChunkItem \cup Other
      BY <1>2, <1>3
    <3>2. /\ SubSeq(items, 1, Len(c)) \in Seq(ChunkItem \cup Other)
          /\ Len(SubSeq(items, 1, Len(c))) = IF 1 <= Len(c) THEN Len(c) - 1 + 1 ELSE 0
          /\ \A i \in 1..(Len(c) - 1 + 1) : SubSeq(items, 1, Len(c))[i] = items[1 + i - 1]
      <4>1. 1 \in Int /\ Len(c) \in Int
        BY <1>3
      <4>. QED BY <3>1, <4>1, SubSeqProperties
    <3>3. Len(c) - 1 + 1 = Len(c) /\ \A i \in 1..Len(c) : 1 + i - 1 = i
      BY <1>3
    <3>4. Len(SubSeq(items, 1, Len(c))) = Len(c)
      BY <1>3, <3>2
    <3>. QED BY <3>2, <3>3, <3>4
  <2>. DEFINE s == SubSeq(items, 1, Len(c))
  <2>. HIDE DEF s
  <2>2. Texts(s) = [i \in 1..Len(c) |-> s[i].text]
    BY <2>1 DEF Texts, s
  <2>3. \A i \in 1..Len(c) : s[i].text = c[i]
    BY <1>4, <2>1 DEF s
  <2>4. Texts(s) = [i \in 1..Len(c) |-> c[i]]
    BY <2>2, <2>3
  <2>5. c = [i \in 1..Len(c) |-> c[i]]
    OBVIOUS
  <2>6. Len(c) \in 0..Len(items)
    BY <1>2, <1>3
  <2>7. \A i \in DOMAIN items : items[i].what = "chunk" <=> i <= Len(c)
    <3>. SUFFICES ASSUME NEW i \in 1..Len(items) PROVE items[i].what = "chunk" <=> i <= Len(c)
      BY <1>3
    <3>1. CASE i \in 1..Len(c)
      BY <1>4, <3>1
    <3>2. CASE i \in (Len(c) + 1)..Len(items)
      BY <1>3, <1>5, <3>2
    <3>. QED BY <1>11, <3>1, <3>2
  <2>. QED BY <2>4, <2>5, <2>6, <2>7 DEF s
<1>9. ForeignItemsComeLast
  <2>. SUFFICES ASSUME NEW i \in 1..Len(items), NEW j \in 1..Len(items), i < j, items[i].what # "chunk"
       PROVE  items[j].what = items[i].what /\ wcall.guard
    BY <1>3 DEF ForeignItemsComeLast
  <2>1. i \in (Len(c) + 1)..Len(items)
    BY <1>3, <1>4
  <2>2. j \in (Len(c) + 1)..Len(items) /\ Len(e) = 2
    <3>1. PICK m \in Nat, n \in 0..2 : m = Len(c) /\ n = Len(e) /\ Len(items) = m + n
      BY <1>2, <1>3
    <3>. QED BY <2>1, <3>1
  <2>. QED BY <1>1, <1>2, <2>1, <2>2
<1>10. StreamsComeInChunks
  <2>. SUFFICES ASSUME wcAt = "done", HandedOver, wcall.door # "function", Iterates, NEW i \in 1..Len(items), items[i].what # "chunk"
       PROVE taken = wcall.answer.fails /\ taken < Len(Chunks)
    BY <1>3 DEF StreamsComeInChunks, Iterates
  <2>1. Len(e) # 0
    BY <1>2, <1>3, <1>4
  <2>2. e # <<>>
    BY <2>1
  <2>. QED BY <1>1, <2>2
<1>. QED BY <1>6, <1>7, <1>8, <1>9, <1>10 DEF WrappedCallsDeliver

(* How the items stand: what is known of them is known of some chunks and  *)
(* of some ending.                                                         *)
Standing(c, e) ==
  /\ items = Heard(c) \o e
  /\ Before => c = <<>>
  /\ wcAt # "done" => e = <<>>
  /\ wcAt = "stream" /\ ~Iterates => taken = 0 /\ c = <<>>
  /\ Len(e) = 2 => wcall.guard
  /\ Streams => FlattenSeq(c) = FlattenSeq(SubSeq(Chunks, 1, taken))
  /\ wcAt = "done" /\ e # <<>> /\ HandedOver /\ wcall.door # "function" /\ Iterates =>
       taken = wcall.answer.fails /\ taken < Len(Chunks)

(* What of the invariant does not name the chunks that were heard.         *)
WcPlain ==
  /\ wcall \in Calls
  /\ wcAt \in {"prepare", "send", "answer", "stream", "done"}
  /\ sentAs \in {"no", "raw", "processed"}
  /\ failure \in {"none", "own", "refusing"}
  /\ taken \in Nat
  /\ wcAt = "prepare" => sentAs = "no"
  /\ wcAt = "send" => sentAs = IF Sees(wcall) /\ wcall.on THEN "processed" ELSE "no"
  /\ sentAs = "raw" => ~(Sees(wcall) /\ wcall.on)
  /\ Streams => taken <= Len(Chunks)
  /\ Before => taken = 0
  /\ wcAt = "stream" => HandedOver

(* The invariant in these two parts.                                       *)
LEMMA InvParts == WcInv <=> WcPlain /\ \E c \in Seq(Seq(Nat)), e \in Endings : Standing(c, e)
BY DEF WcInv, WcPlain, Standing

(* What a call says of itself.                                             *)
LEMMA CallTypes ==
  ASSUME NEW c \in Calls
  PROVE  /\ c.guard \in BOOLEAN /\ c.on \in BOOLEAN
         /\ c.answer.kind \in StreamKind \cup {"output"}
BY CallsAssumption DEF CallType

(* WrappedCallsDeliver for any calls, chunks and sizes: the wrapped        *)
(* clients hand their caller what the client gave, in its order, and no    *)
(* piece of a stream is lost, doubled or sent unprocessed.                 *)
THEOREM CallsDeliver == WcSpec => []WrappedCallsDeliver
<1>1. WcInit => WcInv
  <2>. SUFFICES ASSUME WcInit PROVE WcPlain /\ \E c \in Seq(Seq(Nat)), e \in Endings : Standing(c, e)
    BY InvParts
  <2>1. Heard(<<>>) \o <<>> = <<>>
    BY Nothing
  <2>2. Streams => Len(Chunks) \in Nat /\ SubSeq(Chunks, 1, 0) = <<>>
    <3>1. SubSeq(Chunks, 1, 0) = <<>>
      BY SubSeqEmpty
    <3>2. Streams => Chunks \in Seq(Seq(Nat))
      BY StreamHasChunks DEF WcInit
    <3>. QED BY <3>1, <3>2
  <2>3. WcPlain
    BY <2>2 DEF WcInit, WcPlain, Before
  <2>4. Standing(<<>>, <<>>)
    <3>1. items = <<>> /\ taken = 0 /\ wcAt = "prepare"
      BY DEF WcInit
    <3>2. Len(<<>>) # 2
      OBVIOUS
    <3>3. Streams => FlattenSeq(<<>>) = FlattenSeq(SubSeq(Chunks, 1, taken))
      BY <2>2, <3>1
    <3>. QED BY <2>1, <3>1, <3>2, <3>3 DEF Standing
  <2>. QED BY <2>3, <2>4, Nothing
<1>2. WcInv /\ [WcNext]_wcvars => WcInv'
  <2>. SUFFICES ASSUME WcInv, [WcNext]_wcvars PROVE WcInv'
    OBVIOUS
  <2>1. PICK c \in Seq(Seq(Nat)), e \in Endings : Standing(c, e)
    BY InvParts
  <2>2. WcPlain
    BY InvParts
  <2>. SUFFICES ASSUME TRUE PROVE WcPlain' /\ \E d \in Seq(Seq(Nat)), f \in Endings : Standing(d, f)'
    BY DEF WcInv, WcPlain, Standing
  <2>3. CASE Refuse \/ Prepare \/ Send \/ ProviderRaises \/ HandOver \/ StopReading
    <3>1. UNCHANGED <<wcall, taken, items>>
      BY <2>3 DEF Refuse, Prepare, Send, ProviderRaises, HandOver, StopReading
    <3>2. WcPlain'
      BY <2>2, <2>3 DEF Refuse, Prepare, Send, ProviderRaises, HandOver, StopReading, WcPlain, Sees, Streams, Chunks, HandedOver, Before
    <3>3. Standing(c, e)'
      <4>1. e = <<>>
        BY <2>1, <2>3 DEF Standing, Refuse, Prepare, Send, ProviderRaises, HandOver, StopReading
      <4>2. HandOver => taken = 0 /\ c = <<>>
        BY <2>1, <2>2 DEF HandOver, WcPlain, Standing, Before
      <4>3. Before' => Before
        BY <2>3 DEF Refuse, Prepare, Send, ProviderRaises, HandOver, StopReading, Before
      <4>4. wcAt' = "stream" => HandOver
        BY <2>3 DEF Refuse, Prepare, Send, ProviderRaises, HandOver, StopReading
      <4>. QED BY <2>1, <3>1, <4>1, <4>2, <4>3, <4>4 DEF Standing, Streams, Chunks, HandedOver, Iterates
    <3>. QED BY <3>2, <3>3
  <2>4. CASE GuardAnswer
    <3>1. PICK x \in Other : items' = <<x>>
      <4>1. PICK text \in {"same", "unwrapped", "string", "value"} : items' = <<Item("answer", text)>>
        BY <2>4, GuardsAnswer DEF GuardAnswer
      <4>2. Item("answer", text) \in Other
        BY DEF Item, Other
      <4>. QED BY <4>1, <4>2
    <3>2. /\ UNCHANGED <<wcall, sentAs, taken, failure>> /\ wcAt = "answer" /\ wcAt' = "done"
          /\ wcall.door = "function" \/ ~HandedOver
      BY <2>4 DEF GuardAnswer
    <3>3. WcPlain'
      BY <2>2, <3>2 DEF WcPlain, Sees, Streams, Chunks, HandedOver, Before
    <3>4. c = <<>>
      BY <2>1, <3>2 DEF Standing, Before
    <3>5. Heard(<<>>) \o <<x>> = <<x>> /\ <<x>> \in Endings /\ Len(<<x>>) = 1
      <4>1. \A S : \A z \in S : <<>> \o <<z>> = <<z>>
        OBVIOUS
      <4>2. <<>> \o <<x>> = <<x>>
        BY <4>1, Zenon
      <4>. QED BY <4>2, Nothing, EndIsOne, Zenon
    <3>6. Standing(c, <<x>>)'
      BY <2>1, <3>1, <3>2, <3>4, <3>5 DEF Standing, Streams, Chunks, HandedOver, Iterates, Before
    <3>. QED BY <3>3, <3>5, <3>6
  <2>5. CASE NextChunk
    <3>. DEFINE chunk == Chunks[taken + 1]
                d == Passed(chunk)
    <3>1. /\ UNCHANGED <<wcall, wcAt, sentAs, failure>> /\ wcAt = "stream" /\ Iterates
          /\ taken < Len(Chunks) /\ taken' = taken + 1
          /\ items' = items \o Heard(d)
      BY <2>5 DEF NextChunk, Heard
    <3>2. Streams /\ e = <<>> /\ taken \in Nat
      BY <2>1, <2>2, <3>1 DEF WcPlain, Standing, HandedOver
    <3>3. Chunks \in Seq(Seq(Nat))
      BY <2>2, <3>2, StreamHasChunks DEF WcPlain
    <3>4. chunk \in Seq(Nat)
      BY <3>1, <3>2, <3>3
    <3>. HIDE DEF chunk
    <3>5. d \in Seq(Seq(Nat)) /\ FlattenSeq(d) = chunk
      <4>1. CASE Splits(chunk)
        BY <3>4, <4>1, PiecesJoin, CallsAssumption DEF Passed, Splits
      <4>2. CASE ~Splits(chunk)
        <5>1. <<>> \in Seq(Seq(Nat)) /\ <<chunk>> = Append(<<>>, chunk) /\ <<chunk>> \in Seq(Seq(Nat))
          BY <3>4
        <5>2. FlattenSeq(Append(<<>>, chunk)) = <<>> \o chunk
          BY <3>4, <5>1, FlatAppend, FlatEmpty
        <5>3. <<>> \o chunk = chunk
          BY <3>4
        <5>. QED BY <4>2, <5>1, <5>2, <5>3 DEF Passed
      <4>. QED BY <4>1, <4>2
    <3>. HIDE DEF d
    <3>6. items' = Heard(c \o d) \o <<>> /\ c \o d \in Seq(Seq(Nat))
      <4>1. items = Heard(c) /\ Heard(c) \o Heard(d) = Heard(c \o d) /\ c \o d \in Seq(Seq(Nat))
        <5>1. Heard(c) \o <<>> = Heard(c)
          <6>1. Heard(c) \in Seq(ChunkItem)
            BY HeardType
          <6>. QED BY <6>1, ConcatEmptySeq
        <5>2. c \o d \in Seq(Seq(Nat))
          BY <3>5, ConcatProperties
        <5>. QED BY <2>1, <3>2, <3>5, <5>1, <5>2, HeardJoins DEF Standing
      <4>2. Heard(c \o d) \o <<>> = Heard(c \o d)
        <5>1. Heard(c \o d) \in Seq(ChunkItem)
          BY <4>1, HeardType
        <5>. QED BY <5>1, ConcatEmptySeq
      <4>. QED BY <3>1, <4>1, <4>2
    <3>7. FlattenSeq(c \o d) = FlattenSeq(SubSeq(Chunks, 1, taken'))
      <4>1. FlattenSeq(c \o d) = FlattenSeq(c) \o FlattenSeq(d)
        BY <3>5, FlatConcat
      <4>2. /\ SubSeq(Chunks, 1, taken) \in Seq(Seq(Nat))
            /\ SubSeq(Chunks, 1, taken + 1) = Append(SubSeq(Chunks, 1, taken), chunk)
        BY <3>1, <3>2, <3>3, FirstOnes DEF chunk
      <4>3. FlattenSeq(SubSeq(Chunks, 1, taken + 1)) = FlattenSeq(SubSeq(Chunks, 1, taken)) \o chunk
        BY <3>4, <4>2, FlatAppend
      <4>. QED BY <2>1, <3>1, <3>2, <3>5, <4>1, <4>3 DEF Standing
    <3>8. WcPlain'
      <4>1. Len(Chunks) \in Nat /\ Chunks' = Chunks
        BY <3>1, <3>3 DEF Chunks
      <4>2. taken' \in Nat /\ taken' <= Len(Chunks')
        BY <3>1, <3>2, <4>1
      <4>3. Streams' /\ ~Before'
        BY <3>1, <3>2 DEF Streams, Before
      <4>4. HandedOver'
        BY <2>2, <3>1, <4>3 DEF WcPlain, HandedOver, Streams
      <4>5. (Sees(wcall))' = Sees(wcall)
        BY <3>1 DEF Sees
      <4>. QED BY <2>2, <3>1, <4>2, <4>3, <4>4, <4>5 DEF WcPlain
    <3>9. PICK b \in Seq(Seq(Nat)), f \in Endings :
            items' = Heard(b) \o f /\ f = <<>> /\ FlattenSeq(b) = FlattenSeq(SubSeq(Chunks, 1, taken'))
      BY <3>6, <3>7, Nothing
    <3>10. Standing(b, f)'
      <4>1. Len(f) # 2
        BY <3>9
      <4>2. Chunks' = Chunks /\ Iterates' /\ ~Before' /\ wcAt' # "done"
        BY <3>1 DEF Chunks, Iterates, Before
      <4>. QED BY <3>9, <4>1, <4>2 DEF Standing
    <3>. QED BY <3>8, <3>10
  <2>6. CASE StreamFails \/ StreamEnds
    <3>1. /\ UNCHANGED <<wcall, sentAs, taken, failure>> /\ wcAt = "stream" /\ wcAt' = "done"
      BY <2>6 DEF StreamFails, StreamEnds
    <3>2. WcPlain'
      BY <2>2, <3>1 DEF WcPlain, Sees, Streams, Chunks, HandedOver, Before
    <3>3. e = <<>>
      BY <2>1, <3>1 DEF Standing
    <3>4. items = Heard(c)
      <4>1. Heard(c) \in Seq(ChunkItem)
        BY HeardType
      <4>. QED BY <2>1, <3>3, <4>1, ConcatEmptySeq DEF Standing
    <3>5. Itself \in Endings /\ (Len(Itself) = 2 => wcall.guard)
      BY <2>2, CallTypes, ItselfEnds DEF WcPlain
    <3>6. \/ Iterates /\ items' = items \o Itself /\ taken = wcall.answer.fails /\ taken < Len(Chunks)
          \/ Iterates /\ items' = items
          \/ ~Iterates /\ items' = Itself
      BY <2>6 DEF StreamFails, StreamEnds
    <3>7. CASE items' = items
      <4>1. Standing(c, <<>>)'
        BY <2>1, <3>1, <3>3, <3>7 DEF Standing, Streams, Chunks, Iterates, Before, HandedOver
      <4>. QED BY <3>2, <4>1, Nothing
    <3>8. CASE Iterates /\ items' = items \o Itself /\ taken = wcall.answer.fails /\ taken < Len(Chunks)
      <4>1. Standing(c, Itself)'
        <5>1. Itself' = Itself
          BY <3>1 DEF Itself
        <5>. QED BY <2>1, <3>1, <3>4, <3>5, <3>8, <5>1 DEF Standing, Streams, Chunks, Iterates, Before, HandedOver
      <4>2. \E d \in Seq(Seq(Nat)), f \in Endings : Standing(d, f)'
        <5>1. Itself' = Itself
          BY <3>1 DEF Itself
        <5>2. PICK f \in Endings : f = Itself
          BY <3>5
        <5>3. Standing(c, f)'
          BY <4>1, <5>1, <5>2 DEF Standing
        <5>. QED BY <5>3
      <4>. QED BY <3>2, <4>2
    <3>9. CASE ~Iterates /\ items' = Itself
      <4>1. c = <<>> /\ taken = 0
        BY <2>1, <3>1, <3>9 DEF Standing
      <4>2. PICK f \in Endings : f = Itself /\ (Len(f) = 2 => wcall.guard)
        BY <3>5
      <4>3. Heard(<<>>) \o f = f
        <5>1. f \in Seq(ChunkItem \cup Other)
          <6>1. Heard(<<>>) \o f \in Seq(ChunkItem \cup Other) /\ Heard(<<>>) = <<>>
            BY Nothing, Received
          <6>. QED BY <4>2, EndingsAreSequences
        <5>. QED BY <5>1, Nothing, ConcatEmptySeq
      <4>4. Standing(<<>>, f)'
        BY <2>1, <3>1, <3>9, <4>1, <4>2, <4>3 DEF Standing, Streams, Chunks, Iterates, Before, HandedOver
      <4>. QED BY <3>2, <4>4, Nothing
    <3>. QED BY <3>6, <3>7, <3>8, <3>9
  <2>7. CASE UNCHANGED wcvars
    BY <2>1, <2>2, <2>7, ZenonT(30) DEF wcvars, WcPlain, Standing, Sees, Streams, Chunks, Iterates, HandedOver, Before
  <2>. QED BY <2>3, <2>4, <2>5, <2>6, <2>7 DEF WcNext
<1>. QED BY <1>1, <1>2, InvImplies, PTL DEF WcSpec

-----------------------------------------------------------------------------
(* WebMiddleware                                                           *)

(* How far the middleware is, the bodies there are, and what a run of the  *)
(* endpoint saw.                                                           *)
WebStage == {"received", "processing", "forwarding", "failed", "falling", "answered", "raised"}

WebBody == [Fields -> Held] \cup {NoFields}

Run == [saw : WebBody, raised : BOOLEAN]

(* Every field of a body holds its own text, or input.text the dotted one's.*)
KeepsText(b) ==
  \A f \in DOMAIN b : b[f].of = f \/ (f = "inner" /\ b[f].of = "dotted" /\ request.door \in {"fastapi", "flask", "django"})

(* A body that is as it came, or masked all over, as the decorators leave  *)
(* it.                                                                     *)
Wholly(b) == b = RawBody \/ \A f \in Fields : b[f].masked

(* A prompt that is masked, or known not to be.                             *)
Accounted(b, f) ==
  \/ b[f].masked
  \/ f \in troubles \/ (f = "inner" /\ "dotted" \in troubles)
  \/ request.door = "adapter" /\ troubles # {}

(* Types, and how many fields are still to be processed.                   *)
WebShape ==
  /\ request \in Requests
  /\ at \in WebStage
  /\ cached \in [Fields -> Held] /\ copied \in [Fields -> Held]
  /\ todo \in Seq(Fields)
  /\ counted \in Nat /\ counted + Len(todo) <= 2 * Len(request.fields)
  /\ troubles \subseteq Fields /\ left \in BOOLEAN
  /\ runs \in Seq(Run) /\ Len(runs) <= 2

(* No body has a text that came from somewhere else.                       *)
Bodies ==
  /\ KeepsText(cached) /\ KeepsText(copied)
  /\ OriginalTopLevelKept
  /\ Decorated => cached = RawBody /\ Wholly(copied)
  /\ \A i \in 1..Len(runs) : KeepsText(runs[i].saw) /\ (Decorated => Wholly(runs[i].saw))

(* What is known at each stage.                                            *)
Phases ==
  /\ at = "received" => todo = <<>> /\ counted = 0 /\ copied = RawBody /\ cached = RawBody
  /\ at \in {"received", "processing"} => ~left
  /\ at \in {"received", "processing", "forwarding"} => runs = <<>>
  /\ at \in {"processing", "failed", "falling"} => ~Decorated
  /\ at \in {"failed", "falling"} => Len(runs) <= 1
  /\ at \in {"failed", "falling"} /\ Len(runs) = 1 =>
       request.door \in {"fastapi", "adapter"} /\ runs[1].raised
  /\ at = "falling" /\ request.door = "fastapi" => ~left
  /\ RerunsOnlyAfterRaise

(* Whether the middleware looks into a body at all.                        *)
Looked == ~Decorated /\ ~Skipped /\ HasData

(* Where each prompt of the body is: still to be processed, or accounted   *)
(* for.                                                                    *)
Prompts ==
  /\ at = "processing" => \A f \in Reachable : f \in ToSet(todo) \/ Accounted(copied, f)
  /\ at = "forwarding" /\ Looked => left /\ \A f \in Reachable : Accounted(copied, f)
  /\ at \in {"failed", "falling"} /\ runs = <<>> => Reachable = {} \/ (request.door = "adapter" /\ troubles # {})
  /\ FoundPromptsAreMasked

WebInv == WebShape /\ Bodies /\ Phases /\ Prompts

(* What a request says of itself.                                          *)
LEMMA RequestTypes ==
  ASSUME request \in Requests
  PROVE  /\ request.door \in Door /\ request.watched \in BOOLEAN /\ request.method \in {"POST", "GET"}
         /\ request.content \in {"json", "array", "form", "multipart", "text", "broken"}
         /\ request.fields \in Seq(Field) /\ Fields \subseteq Field
<1>1. request \in Request
  BY RequestsAssumption
<1>2. PICK s \in Seq(Field) : s = request.fields
  BY <1>1 DEF Request
<1>3. ToSet(s) \subseteq Field
  BY DEF ToSet
<1>. QED BY <1>1, <1>2, <1>3 DEF Request, Fields

(* What is found are fields, each at most twice.                           *)
LEMMA FoundAreFields ==
  ASSUME request \in Requests
  PROVE  Found \in Seq(Fields) /\ Len(Found) <= 2 * Len(request.fields) /\ ToSet(Found) \subseteq Fields
<1>. DEFINE s == [i \in DOMAIN request.fields |-> Finds(request.fields[i])]
<1>1. request.fields \in Seq(Field) /\ DOMAIN request.fields = 1..Len(request.fields) /\ Len(request.fields) \in Nat
  BY RequestTypes
<1>2. ASSUME NEW f \in Fields PROVE Finds(f) \in Seq(Fields) /\ Len(Finds(f)) <= 2
  <2>1. \A n \in {1, 2} : [i \in 1..n |-> f] \in Seq(Fields) /\ Len([i \in 1..n |-> f]) = n
    BY <1>2
  <2>2. <<f>> \in Seq(Fields) /\ Len(<<f>>) = 1 /\ <<>> \in Seq(Fields) /\ Len(<<>>) = 0
    BY <1>2
  <2>3. \A n \in {1, 2} : Times(n, f) \in Seq(Fields) /\ Len(Times(n, f)) <= 2
    BY <2>1, <2>2 DEF Times
  <2>. HIDE DEF Times
  <2>4. FindPrompts(f) \in Seq(Fields) /\ Len(FindPrompts(f)) <= 2
    BY <2>2, <2>3 DEF FindPrompts, FastapiFinds, FlaskFinds, DjangoFinds
  <2>5. FindStrings(f) \in Seq(Fields) /\ Len(FindStrings(f)) <= 2
    BY <2>2 DEF FindStrings
  <2>. QED BY <2>4, <2>5 DEF Finds
<1>3. \A i \in 1..Len(request.fields) : request.fields[i] \in Fields
  BY <1>1 DEF Fields, ToSet
<1>4. s \in Seq(Seq(Fields)) /\ Len(s) = Len(request.fields) /\ \A i \in 1..Len(s) : Len(s[i]) <= 2
  <2>. DEFINE e(i) == Finds(request.fields[i])
  <2>1. \A i \in 1..Len(request.fields) : e(i) \in Seq(Fields) /\ Len(e(i)) <= 2
    BY <1>2, <1>3
  <2>2. s = [i \in 1..Len(request.fields) |-> e(i)]
    BY <1>1
  <2>. HIDE DEF e, s
  <2>. QED BY <1>1, <2>1, <2>2
<1>5. Found = FlattenSeq(s)
  BY DEF Found
<1>. HIDE DEF s
<1>6. FlattenSeq(s) \in Seq(Fields)
  BY <1>4, FlatType
<1>7. Len(FlattenSeq(s)) <= 2 * Len(s)
  BY <1>4, FlatMembers
<1>8. \A q \in Seq(Fields) : ToSet(q) \subseteq Fields
  BY DEF ToSet
<1>. QED BY <1>4, <1>5, <1>6, <1>7, <1>8

(* The body as it came is a body.                                          *)
LEMMA RawIsBody ==
  ASSUME request \in Requests
  PROVE  /\ RawBody \in [Fields -> Held] /\ KeepsText(RawBody) /\ Wholly(RawBody)
         /\ NoFields \in WebBody /\ KeepsText(NoFields)
<1>1. Fields \subseteq Field
  BY RequestTypes
<1>. QED BY <1>1 DEF RawBody, Raw, Held, KeepsText, Wholly, NoFields, WebBody

(* What can be reached are fields.                                         *)
LEMMA Reaches == request \in Requests => Reachable \subseteq Fields
BY FoundAreFields DEF Reachable

(* The invariant holds of a request that comes in.                         *)
LEMMA WebStarts == WebInit => WebInv
<1>. SUFFICES ASSUME WebInit PROVE WebInv
  OBVIOUS
<1>1. request \in Requests /\ at = "received" /\ cached = RawBody /\ copied = RawBody /\ todo = <<>> /\ counted = 0
      /\ troubles = {} /\ left = FALSE /\ runs = <<>>
  BY DEF WebInit
<1>2. Len(request.fields) \in Nat
  BY <1>1, RequestTypes
<1>3. todo \in Seq(Fields) /\ runs \in Seq(Run) /\ Len(runs) = 0 /\ Len(todo) = 0
  BY <1>1
<1>4. WebShape
  <2>1. counted \in Nat /\ counted + Len(todo) <= 2 * Len(request.fields)
    BY <1>1, <1>2, <1>3
  <2>2. RawBody \in [Fields -> Held] /\ at \in WebStage /\ {} \subseteq Fields
    BY <1>1, RawIsBody DEF WebStage
  <2>3. request \in Requests /\ cached \in [Fields -> Held] /\ copied \in [Fields -> Held] /\ troubles \subseteq Fields /\ left \in BOOLEAN
    BY <1>1, <2>2
  <2>4. runs \in Seq(Run) /\ Len(runs) <= 2 /\ todo \in Seq(Fields)
    BY <1>3
  <2>. QED BY <2>1, <2>2, <2>3, <2>4 DEF WebShape
<1>5. Bodies
  BY <1>1, <1>3, RawIsBody DEF Bodies, OriginalTopLevelKept, RawBody
<1>6. Phases
  BY <1>1, <1>3 DEF Phases, RerunsOnlyAfterRaise
<1>7. Prompts
  BY <1>1, <1>3 DEF Prompts, FoundPromptsAreMasked
<1>. QED BY <1>4, <1>5, <1>6, <1>7 DEF WebInv

(* The invariant has the property.                                         *)
LEMMA WebImplies == WebInv => EndpointsGetTheirPrompts
<1>. SUFFICES ASSUME WebInv PROVE EndpointsGetTheirPrompts
  OBVIOUS
<1>1. DOMAIN runs = 1..Len(runs) /\ Len(todo) \in Nat /\ Len(request.fields) \in Nat
  BY RequestTypes DEF WebInv, WebShape
<1>2. ToSet(todo) \subseteq Fields
  <2>1. \A q \in Seq(Fields) : ToSet(q) \subseteq Fields
    BY DEF ToSet
  <2>. QED BY <2>1 DEF WebInv, WebShape
<1>3. WebTypeOK
  BY <1>1, <1>2 DEF WebInv, WebShape, WebTypeOK, WebStage
<1>4. FieldsKeepTheirText
  BY <1>1 DEF WebInv, Bodies, KeepsText, FieldsKeepTheirText
<1>5. DecoratedWholly
  BY <1>1 DEF WebInv, Bodies, Wholly, DecoratedWholly
<1>. QED BY <1>3, <1>4, <1>5 DEF WebInv, Bodies, Phases, Prompts, EndpointsGetTheirPrompts

(* Nothing but the request is what most of the operators read.              *)
LEMMA SameRequest ==
  ASSUME UNCHANGED request
  PROVE  /\ Fields' = Fields /\ RawBody' = RawBody /\ NoFields' = NoFields /\ Decorated' = Decorated
         /\ HasData' = HasData /\ Skipped' = Skipped /\ Found' = Found /\ Reachable' = Reachable
         /\ Looked' = Looked /\ WebBody' = WebBody /\ Run' = Run
<1>1. Fields' = Fields /\ Decorated' = Decorated /\ HasData' = HasData /\ Skipped' = Skipped
  BY DEF Fields, Decorated, HasData, Skipped
<1>2. RawBody' = RawBody /\ NoFields' = NoFields
  BY <1>1 DEF RawBody, NoFields
<1>3. \A f : Finds(f)' = Finds(f)
  BY DEF Finds, FindPrompts, FindStrings, FastapiFinds, FlaskFinds, DjangoFinds
<1>4. Found' = Found
  BY <1>3 DEF Found
<1>5. \A f : Target(f)' = Target(f)
  BY DEF Target
<1>6. Reachable' = Reachable
  BY <1>4, <1>5 DEF Reachable
<1>. QED BY <1>1, <1>2, <1>4, <1>6 DEF Looked, WebBody, Run

(* Taking a request keeps the invariant.                                   *)
LEMMA TakeKeeps ==
  ASSUME WebInv, NEW door \in Door \ {"flask_decorator", "django_decorator"}, NEW fails \in BOOLEAN,
         fails => request.content = "array", Take(door, fails)
  PROVE  WebInv'
<1>1. /\ UNCHANGED <<request, cached, copied, counted, troubles, left, runs>>
      /\ at = "received" /\ request.door = door
  BY DEF Take
<1>2. todo = <<>> /\ counted = 0 /\ runs = <<>> /\ ~left /\ ~Decorated
  BY <1>1 DEF WebInv, Phases, Decorated
<1>3. \/ at' = "failed" /\ todo' = todo /\ Looked /\ request.content = "array"
      \/ at' = "processing" /\ todo' = Found /\ Looked
      \/ at' = "forwarding" /\ todo' = todo /\ ~Looked
  BY <1>2 DEF Take, Looked
<1>4. Found \in Seq(Fields) /\ Len(Found) <= 2 * Len(request.fields) /\ Len(Found) \in Nat
  BY FoundAreFields DEF WebInv, WebShape
<1>5. WebShape'
  <2>1. todo' \in Seq(Fields) /\ counted + Len(todo') <= 2 * Len(request.fields)
    <3>1. CASE todo' = todo
      BY <3>1 DEF WebInv, WebShape
    <3>2. CASE todo' = Found
      <4>1. Len(request.fields) \in Nat
        BY RequestTypes DEF WebInv, WebShape
      <4>. QED BY <1>2, <1>4, <3>2, <4>1
    <3>. QED BY <1>3, <3>1, <3>2
  <2>2. at' \in WebStage
    BY <1>3 DEF WebStage
  <2>. QED BY <1>1, <2>1, <2>2, SameRequest DEF WebInv, WebShape
<1>6. Bodies'
  BY <1>1, SameRequest DEF WebInv, Bodies, KeepsText, Wholly, OriginalTopLevelKept
<1>7. Phases'
  <2>1. Len(runs) = 0 /\ at' \in {"failed", "processing", "forwarding"}
    BY <1>2, <1>3
  <2>. QED BY <1>1, <1>2, <2>1, SameRequest DEF WebInv, Phases, RerunsOnlyAfterRaise
<1>8. Prompts'
  <2>1. Len(runs) = 0
    BY <1>2
  <2>2. \A f \in Reachable : f \in ToSet(Found)
    BY DEF Reachable
  <2>3. request.content = "array" => Reachable = {}
    BY DEF Reachable
  <2>. QED BY <1>1, <1>2, <1>3, <2>1, <2>2, <2>3, SameRequest DEF WebInv, Prompts, FoundPromptsAreMasked
<1>. QED BY <1>5, <1>6, <1>7, <1>8 DEF WebInv

(* Leaving the rest keeps it.                                              *)
LEMMA LeaveKeeps ==
  ASSUME WebInv, NEW door \in Door, Leave(door)
  PROVE  WebInv'
<1>1. /\ UNCHANGED <<request, cached, copied, todo, counted, troubles, runs>>
      /\ at = "processing" /\ at' = "forwarding" /\ todo = <<>> /\ left' = TRUE /\ request.door = door
  BY DEF Leave
<1>2. runs = <<>> /\ Len(runs) = 0 /\ ~Decorated
  BY <1>1 DEF WebInv, Phases
<1>3. WebShape'
  BY <1>1, SameRequest DEF WebInv, WebShape, WebStage
<1>4. Bodies'
  BY <1>1, SameRequest DEF WebInv, Bodies, KeepsText, Wholly, OriginalTopLevelKept
<1>5. Phases'
  BY <1>1, <1>2, SameRequest DEF WebInv, Phases, RerunsOnlyAfterRaise
<1>6. Prompts'
  <2>1. ToSet(todo) = {}
    BY <1>1 DEF ToSet
  <2>2. \A f \in Reachable : Accounted(copied, f)
    BY <1>1, <2>1 DEF WebInv, Prompts
  <2>3. \A f \in Reachable : Accounted(copied, f)'
    BY <1>1, <2>2 DEF Accounted
  <2>. QED BY <1>1, <1>2, <2>3, SameRequest DEF Prompts, FoundPromptsAreMasked
<1>. QED BY <1>3, <1>4, <1>5, <1>6 DEF WebInv

(* Passing the body on keeps it.                                           *)
LEMMA PassOnKeeps ==
  ASSUME WebInv, PassOn
  PROVE  WebInv'
<1>1. /\ UNCHANGED <<request, cached, copied, todo, counted, troubles, left, runs>>
      /\ at = "received" /\ Decorated /\ at' \in {"forwarding", "raised"}
  BY DEF PassOn
<1>2. runs = <<>> /\ Len(runs) = 0
  BY <1>1 DEF WebInv, Phases
<1>3. WebShape'
  BY <1>1, SameRequest DEF WebInv, WebShape, WebStage
<1>4. Bodies'
  BY <1>1, SameRequest DEF WebInv, Bodies, KeepsText, Wholly, OriginalTopLevelKept
<1>5. Phases'
  BY <1>1, <1>2, SameRequest DEF WebInv, Phases, RerunsOnlyAfterRaise
<1>6. Prompts'
  BY <1>1, <1>2, SameRequest DEF Prompts, FoundPromptsAreMasked, Looked
<1>. QED BY <1>3, <1>4, <1>5, <1>6 DEF WebInv

(* What the decorators do in one step keeps it.                            *)
LEMMA DecorateKeeps ==
  ASSUME WebInv, Decorate
  PROVE  WebInv'
<1>1. /\ UNCHANGED <<request, cached, todo, counted, runs>>
      /\ at = "received" /\ Decorated /\ at' = "forwarding" /\ left' = TRUE
      /\ \/ copied' = [f \in Fields |-> Bring(f, "masked")] /\ UNCHANGED troubles
         \/ copied' = copied /\ troubles' = Fields
  BY DEF Decorate
<1>2. runs = <<>> /\ Len(runs) = 0 /\ request \in Requests
  BY <1>1 DEF WebInv, Phases, WebShape
<1>3. \A f : Bring(f, "masked").of = f /\ Bring(f, "masked").masked /\ (f \in Field => Bring(f, "masked") \in Held)
  BY DEF Bring, Held
<1>4. Fields \subseteq Field
  BY <1>2, RequestTypes
<1>5. copied' \in [Fields -> Held] /\ (KeepsText(copied) => KeepsText(copied)') /\ (Wholly(copied) => Wholly(copied)')
  <2>1. CASE copied' = copied
    BY <1>1, <2>1, SameRequest DEF WebInv, WebShape, KeepsText, Wholly
  <2>2. CASE copied' = [f \in Fields |-> Bring(f, "masked")]
    BY <1>1, <1>3, <1>4, <2>2, SameRequest DEF KeepsText, Wholly
  <2>. QED BY <1>1, <2>1, <2>2
<1>6. WebShape'
  BY <1>1, <1>5, SameRequest DEF WebInv, WebShape, WebStage
<1>7. Bodies'
  <2>1. (KeepsText(cached))' /\ (OriginalTopLevelKept)'
    BY <1>1, SameRequest DEF WebInv, Bodies, KeepsText, OriginalTopLevelKept
  <2>. QED BY <1>1, <1>2, <1>5, <2>1, SameRequest DEF WebInv, Bodies
<1>8. Phases'
  BY <1>1, <1>2, SameRequest DEF WebInv, Phases, RerunsOnlyAfterRaise
<1>9. Prompts'
  BY <1>1, <1>2, SameRequest DEF Prompts, FoundPromptsAreMasked, Looked
<1>. QED BY <1>6, <1>7, <1>8, <1>9 DEF WebInv

(* Falling back to the body as it came keeps it.                           *)
LEMMA FailOpenKeeps ==
  ASSUME WebInv, FailOpen
  PROVE  WebInv'
<1>1. /\ UNCHANGED <<request, cached, copied, todo, counted, troubles, runs>>
      /\ at = "failed" /\ left' = (left /\ request.door = "adapter")
      /\ at' \in {"answered", "falling"}
  BY DEF FailOpen
<1>2. ~Decorated
  BY <1>1 DEF WebInv, Phases
<1>3. WebShape'
  BY <1>1, SameRequest DEF WebInv, WebShape, WebStage
<1>4. Bodies'
  BY <1>1, SameRequest DEF WebInv, Bodies, KeepsText, Wholly, OriginalTopLevelKept
<1>5. Phases'
  <2>3. Len(runs) <= 1 /\ runs \in Seq(Run)
    BY <1>1 DEF WebInv, Phases, WebShape
  <2>4. RerunsOnlyAfterRaise'
    BY <1>1, <2>3 DEF RerunsOnlyAfterRaise
  <2>5. Len(runs) = 1 => request.door \in {"fastapi", "adapter"} /\ runs[1].raised
    BY <1>1 DEF WebInv, Phases
  <2>6. at' = "falling" /\ request'.door = "fastapi" => ~left'
    BY <1>1
  <2>7. /\ at' \in {"answered", "falling"} /\ ~Decorated' /\ Len(runs') <= 1 /\ runs' = runs /\ request' = request
    BY <1>1, <1>2, <2>3, SameRequest
  <2>. QED BY <2>4, <2>5, <2>6, <2>7 DEF Phases
<1>6. Prompts'
  BY <1>1, SameRequest DEF WebInv, Prompts, FoundPromptsAreMasked, Looked, Delivered
<1>. QED BY <1>3, <1>4, <1>5, <1>6 DEF WebInv

(* Doing nothing keeps it.                                                 *)
LEMMA StutterKeeps ==
  ASSUME WebInv, UNCHANGED webvars
  PROVE  WebInv'
<1>1. UNCHANGED <<request, at, cached, copied, todo, counted, troubles, left, runs>>
  BY DEF webvars
<1>2. WebShape'
  BY <1>1, SameRequest DEF WebInv, WebShape
<1>3. Bodies'
  BY <1>1, SameRequest DEF WebInv, Bodies, KeepsText, Wholly, OriginalTopLevelKept
<1>4. Phases'
  BY <1>1, SameRequest DEF WebInv, Phases, RerunsOnlyAfterRaise
<1>5. Prompts'
  BY <1>1, SameRequest DEF WebInv, Prompts, FoundPromptsAreMasked, Accounted, Delivered
<1>. QED BY <1>2, <1>3, <1>4, <1>5 DEF WebInv

(* One text is put where its path leads, or nowhere.                        *)
LEMMA UpdateKeeps ==
  ASSUME WebInv, NEW f \in Fields, NEW v \in Held, v.of = f, UNCHANGED request, UpdateField(f, v), ~Decorated
  PROVE  /\ cached' \in [Fields -> Held] /\ copied' \in [Fields -> Held]
         /\ (KeepsText(cached))' /\ (KeepsText(copied))' /\ OriginalTopLevelKept'
         /\ \A g \in Fields : copied'[g] = copied[g] \/ (copied'[g] = v /\ (g = f \/ (g = "inner" /\ f = "dotted")))
         /\ Target(f) = f => copied'[f] = v
<1>. DEFINE t == Target(f)
<1>1. t = f \/ (t = "inner" /\ f = "dotted" /\ request.door \in {"fastapi", "flask", "django"})
  <2>1. request.door \in Door
    BY RequestTypes DEF WebInv, WebShape
  <2>. QED BY <2>1 DEF Target, Door, Decorated
<1>2. cached \in [Fields -> Held] /\ copied \in [Fields -> Held] /\ KeepsText(cached) /\ KeepsText(copied) /\ OriginalTopLevelKept
  BY DEF WebInv, WebShape, Bodies
<1>. HIDE DEF t
<1>3. CASE t \notin Fields
  <2>1. UNCHANGED <<cached, copied>>
    BY <1>3 DEF UpdateField, t
  <2>. QED BY <1>2, <1>3, <2>1, SameRequest DEF KeepsText, OriginalTopLevelKept, t
<1>4. CASE t \in Fields
  <2>1. /\ copied' = [copied EXCEPT ![t] = v]
        /\ cached' = cached \/ (t \in Nested /\ cached' = [cached EXCEPT ![t] = v])
    BY <1>4 DEF UpdateField, t
  <2>2. ASSUME NEW b \in [Fields -> Held], KeepsText(b), NEW c, c = [b EXCEPT ![t] = v]
        PROVE  c \in [Fields -> Held] /\ DOMAIN c = Fields /\ c[t] = v /\ (\A g \in Fields : g # t => c[g] = b[g]) /\ KeepsText(c)
    <3>1. c \in [Fields -> Held] /\ DOMAIN c = Fields /\ c[t] = v /\ (\A g \in Fields : g # t => c[g] = b[g])
      BY <1>4, <2>2
    <3>. QED BY <1>1, <2>2, <3>1 DEF KeepsText
  <2>3. PICK x, y : x = copied' /\ y = cached'
    OBVIOUS
  <2>4. x \in [Fields -> Held] /\ x[t] = v /\ (\A g \in Fields : g # t => x[g] = copied[g]) /\ KeepsText(x)
    BY <1>2, <2>1, <2>2, <2>3
  <2>5. y \in [Fields -> Held] /\ KeepsText(y) /\ \A g \in Fields : y[g] = cached[g] \/ g \in Nested
    <3>1. CASE y = cached
      BY <1>2, <3>1
    <3>2. CASE t \in Nested /\ y = [cached EXCEPT ![t] = v]
      <4>1. y \in [Fields -> Held] /\ (\A g \in Fields : g # t => y[g] = cached[g]) /\ KeepsText(y)
        BY <1>2, <2>2, <3>2
      <4>. QED BY <3>2, <4>1
    <3>. QED BY <2>1, <2>3, <3>1, <3>2
  <2>6. (KeepsText(copied))' /\ (KeepsText(cached))'
    BY <2>3, <2>4, <2>5 DEF KeepsText
  <2>7. OriginalTopLevelKept'
    BY <1>2, <2>3, <2>5, SameRequest DEF OriginalTopLevelKept
  <2>. QED BY <1>1, <2>3, <2>4, <2>5, <2>6, <2>7 DEF t
<1>. QED BY <1>3, <1>4

(* Processing one text keeps it.                                           *)
LEMMA ProcessKeeps ==
  ASSUME WebInv, NEW door \in Door, ProcessPrompt(door)
  PROVE  WebInv'
<1>. DEFINE f == Head(todo)
<1>1. /\ UNCHANGED <<request, left, runs>> /\ at = "processing" /\ todo # <<>> /\ todo' = Tail(todo)
      /\ request.door = door
  BY DEF ProcessPrompt
<1>2. runs = <<>> /\ Len(runs) = 0 /\ ~left /\ ~Decorated /\ request \in Requests
  BY <1>1 DEF WebInv, Phases, WebShape
<1>3. /\ f \in Fields /\ todo' \in Seq(Fields) /\ Len(todo') = Len(todo) - 1 /\ Len(todo) \in Nat \ {0}
      /\ \A g : g \in ToSet(todo) => g = f \/ g \in ToSet(todo')
  <2>1. todo \in Seq(Fields) /\ todo # <<>>
    BY <1>1 DEF WebInv, WebShape
  <2>2. /\ f \in Fields /\ Tail(todo) \in Seq(Fields) /\ Len(Tail(todo)) = Len(todo) - 1 /\ Len(todo) \in Nat \ {0}
        /\ \A i \in 1..Len(Tail(todo)) : Tail(todo)[i] = todo[i + 1]
        /\ f = todo[1]
    BY <2>1
  <2>3. ASSUME NEW g \in ToSet(todo), g # f PROVE g \in ToSet(Tail(todo))
    <3>1. PICK i \in 1..Len(todo) : todo[i] = g
      BY <2>1, <2>3 DEF ToSet
    <3>2. i - 1 \in 1..Len(Tail(todo)) /\ Tail(todo)[i - 1] = g
      BY <2>2, <2>3, <3>1
    <3>3. DOMAIN Tail(todo) = 1..Len(Tail(todo))
      BY <2>2
    <3>. QED BY <3>2, <3>3 DEF ToSet
  <2>. QED BY <1>1, <2>2, <2>3
<1>. HIDE DEF f
<1>4. PICK g \in Fields : g = f
  BY <1>3
<1>5. PICK came \in Outcomes :
        \/ /\ came = "refused" /\ UNCHANGED <<cached, copied, counted>>
           /\ troubles' = troubles \cup {g}
           /\ at' = IF request.door = "adapter" THEN "failed" ELSE "processing"
        \/ /\ came # "refused"
           /\ UpdateField(g, Bring(g, came))
           /\ counted' = counted + 1
           /\ troubles' = IF came = "asis" THEN troubles \cup {g} ELSE troubles
           /\ at' = at
  BY <1>4 DEF ProcessPrompt, f
<1>6. came \in {"masked", "asis", "refused"}
  BY DEF Outcomes
<1>7. PICK v \in Held : v = Bring(g, came) /\ v.of = g /\ (v.masked <=> came = "masked")
  <2>1. g \in Field
    BY <1>2, RequestTypes
  <2>2. request.schema \in BOOLEAN
    BY <1>2, RequestsAssumption DEF Request
  <2>3. PICK m \in BOOLEAN, b \in BOOLEAN : m = (came = "masked") /\ b = (request.door = "adapter" /\ request.schema)
    OBVIOUS
  <2>4. PICK w : w = [of |-> g, masked |-> m, braced |-> b]
    OBVIOUS
  <2>5. w \in Held /\ w.of = g /\ w.masked = m
    BY <2>1, <2>3, <2>4 DEF Held
  <2>6. w = Bring(g, came)
    BY <2>3, <2>4 DEF Bring
  <2>. QED BY <2>3, <2>5, <2>6
<1>8. troubles' \subseteq Fields /\ troubles \subseteq troubles' /\ (came # "masked" => g \in troubles')
  BY <1>5, <1>6 DEF WebInv, WebShape
<1>9. /\ cached' \in [Fields -> Held] /\ copied' \in [Fields -> Held]
      /\ (KeepsText(cached))' /\ (KeepsText(copied))' /\ OriginalTopLevelKept'
      /\ \A h \in Fields : copied'[h] = copied[h] \/ (copied'[h] = v /\ (h = g \/ (h = "inner" /\ g = "dotted")))
      /\ Target(g) = g /\ came # "refused" => copied'[g] = v
  <2>1. CASE came = "refused"
    <3>1. UNCHANGED <<cached, copied, request>>
      BY <1>1, <1>5, <2>1
    <3>. QED BY <2>1, <3>1, SameRequest DEF WebInv, WebShape, Bodies, KeepsText, OriginalTopLevelKept
  <2>2. CASE came # "refused"
    <3>1. UpdateField(g, v) /\ UNCHANGED request
      BY <1>1, <1>5, <1>7, <2>2
    <3>. QED BY <1>2, <1>7, <3>1, UpdateKeeps
  <2>. QED BY <2>1, <2>2
<1>10. at' = "processing" \/ (at' = "failed" /\ request.door = "adapter" /\ g \in troubles')
  BY <1>1, <1>5
<1>11. WebShape'
  <2>1. counted' \in Nat /\ counted' <= counted + 1 /\ counted \in Nat /\ counted + Len(todo) <= 2 * Len(request.fields) /\ Len(request.fields) \in Nat
    BY <1>2, <1>5, RequestTypes DEF WebInv, WebShape
  <2>2. counted' + Len(todo') <= 2 * Len(request.fields)
    BY <1>3, <2>1
  <2>3. at' \in WebStage /\ request' \in Requests /\ left' \in BOOLEAN
    BY <1>1, <1>10 DEF WebInv, WebShape, WebStage
  <2>4. runs' \in Seq(Run) /\ Len(runs') <= 2
    BY <1>1 DEF WebInv, WebShape
  <2>5. Fields' = Fields /\ Run' = Run /\ request' = request
    BY <1>1, SameRequest
  <2>. QED BY <1>3, <1>8, <1>9, <2>1, <2>2, <2>3, <2>4, <2>5 DEF WebShape
<1>12. Bodies'
  BY <1>1, <1>2, <1>9, SameRequest DEF Bodies
<1>13. Phases'
  BY <1>1, <1>2, <1>10, SameRequest DEF WebInv, Phases, RerunsOnlyAfterRaise
<1>14. Prompts'
  <2>1. ASSUME NEW h \in Reachable PROVE h \in ToSet(todo') \/ Accounted(copied, h)'
    <3>1. h \in Fields /\ Target(h) = h
      BY <1>2, Reaches DEF Reachable
    <3>2. h \in ToSet(todo) \/ Accounted(copied, h)
      BY <1>1, <2>1 DEF WebInv, Prompts
    <3>3. copied'[h] = copied[h] \/ (copied'[h] = v /\ (h = g \/ (h = "inner" /\ g = "dotted")))
      BY <1>9, <3>1
    <3>4. CASE h = g
      BY <1>1, <1>7, <1>8, <1>9, <3>1, <3>4 DEF Accounted
    <3>5. CASE h # g
      <4>1. CASE h \in ToSet(todo)
        BY <1>3, <1>4, <3>5, <4>1
      <4>2. CASE Accounted(copied, h)
        BY <1>1, <1>7, <1>8, <3>3, <3>5, <4>2 DEF Accounted
      <4>. QED BY <3>2, <4>1, <4>2
    <3>. QED BY <3>4, <3>5
  <2>. QED BY <1>1, <1>2, <1>10, <2>1, SameRequest DEF Prompts, FoundPromptsAreMasked
<1>. QED BY <1>11, <1>12, <1>13, <1>14 DEF WebInv

(* Running the endpoint keeps it.                                          *)
LEMMA CallKeeps ==
  ASSUME WebInv, CallEndpoint
  PROVE  WebInv'
<1>1. /\ UNCHANGED <<request, cached, copied, todo, counted, troubles, left>>
      /\ at \in {"forwarding", "falling"}
  BY DEF CallEndpoint
<1>2. PICK raises \in BOOLEAN : /\ runs' = Append(runs, [saw |-> Seen, raised |-> raises])
                                /\ at' = IF raises THEN AfterRaise ELSE "answered"
  BY DEF CallEndpoint
<1>3. request \in Requests /\ cached \in [Fields -> Held] /\ copied \in [Fields -> Held] /\ left \in BOOLEAN /\ runs \in Seq(Run)
  BY DEF WebInv, WebShape
<1>4. Seen \in {RawBody, NoFields, copied, cached}
  BY DEF Seen, FastapiSees, FlaskSees, DjangoSees, DecoratedSees, AdapterSees, Original
<1>5. Seen \in WebBody /\ KeepsText(Seen) /\ (Decorated => Wholly(Seen))
  <2>1. Seen \in WebBody /\ KeepsText(Seen)
    BY <1>3, <1>4, RawIsBody DEF WebInv, Bodies, WebBody
  <2>2. Decorated => Seen \in {RawBody, copied}
    BY DEF Decorated, Seen, DecoratedSees
  <2>. QED BY <1>3, <2>1, <2>2, RawIsBody DEF WebInv, Bodies
<1>6. PICK r \in Run : r = [saw |-> Seen, raised |-> raises] /\ r.saw = Seen /\ r.raised = raises
  <2>1. PICK s \in WebBody : s = Seen
    BY <1>5
  <2>2. [saw |-> s, raised |-> raises] \in Run
    BY DEF Run
  <2>. QED BY <2>1, <2>2
<1>7. Len(runs) \in {0, 1} /\ (at = "forwarding" => runs = <<>> /\ Len(runs) = 0)
  <2>1. Len(runs) <= 1 /\ (at = "forwarding" => runs = <<>>)
    BY <1>1 DEF WebInv, Phases
  <2>2. Len(runs) \in Nat
    BY <1>3
  <2>3. runs = <<>> => Len(runs) = 0
    OBVIOUS
  <2>4. PICK n \in Nat : n = Len(runs)
    BY <2>2
  <2>5. n \in {0, 1} /\ (at = "forwarding" => runs = <<>>)
    BY <2>1, <2>4
  <2>. QED BY <2>3, <2>4, <2>5
<1>8. /\ runs' \in Seq(Run) /\ Len(runs') = Len(runs) + 1
      /\ \A i \in 1..Len(runs) : runs'[i] = runs[i]
      /\ runs'[Len(runs) + 1] = r
  <2>1. runs' = Append(runs, r)
    BY <1>2, <1>6
  <2>. HIDE DEF Run
  <2>. QED BY <1>3, <2>1
<1>9. at' \in {"answered", "raised", "failed"}
      /\ (at' = "failed" => raises /\ at = "forwarding" /\ request.door \in {"fastapi", "adapter"})
  BY <1>1, <1>2 DEF AfterRaise
<1>11. WebShape'
  <2>1. at' \in WebStage /\ Len(runs') <= 2
    BY <1>7, <1>8, <1>9 DEF WebStage
  <2>. QED BY <1>1, <1>8, <2>1, SameRequest DEF WebInv, WebShape
<1>12. Bodies'
  <2>1. \A b : (KeepsText(b) => (\A f \in DOMAIN b : b[f].of = f \/ (f = "inner" /\ b[f].of = "dotted" /\ request'.door \in {"fastapi", "flask", "django"})))
               /\ (Wholly(b) => (b = RawBody' \/ \A f \in Fields' : b[f].masked))
    BY <1>1, SameRequest DEF KeepsText, Wholly
  <2>2. \A i \in 1..Len(runs') : KeepsText(runs'[i].saw) /\ (Decorated => Wholly(runs'[i].saw))
    <3>1. \A i \in 1..Len(runs) : KeepsText(runs[i].saw) /\ (Decorated => Wholly(runs[i].saw))
      BY DEF WebInv, Bodies
    <3>2. \A i \in 1..Len(runs') : i \in 1..Len(runs) \/ i = Len(runs) + 1
      BY <1>7, <1>8
    <3>. QED BY <1>5, <1>6, <1>8, <3>1, <3>2
  <2>3. (\A i \in 1..Len(runs) : KeepsText(runs[i].saw) /\ (Decorated => Wholly(runs[i].saw)))'
    BY <1>1, <2>1, <2>2, SameRequest DEF KeepsText, Wholly
  <2>. QED BY <1>1, <2>3, SameRequest DEF WebInv, Bodies, KeepsText, Wholly, OriginalTopLevelKept
<1>13. Phases'
  <2>1. RerunsOnlyAfterRaise'
    <3>. SUFFICES ASSUME Len(runs') = 2
         PROVE request.door \in {"fastapi", "adapter"} /\ runs'[1].raised /\ runs'[2].saw = NoFields
      BY <1>1, SameRequest DEF RerunsOnlyAfterRaise
    <3>1. Len(runs) = 1 /\ at = "falling" /\ runs'[1] = runs[1] /\ runs'[2] = r
      BY <1>1, <1>7, <1>8
    <3>2. /\ request.door \in {"fastapi", "adapter"} /\ runs[1].raised
          /\ request.door = "fastapi" => ~left
      BY <3>1 DEF WebInv, Phases
    <3>3. runs # <<>>
      BY <3>1
    <3>4. Seen = NoFields
      BY <3>2, <3>3 DEF Seen, FastapiSees, AdapterSees, Original
    <3>. QED BY <1>6, <3>1, <3>2, <3>4
  <2>2. at' = "failed" => Len(runs') = 1 /\ runs'[1] = r /\ ~Decorated
    BY <1>7, <1>8, <1>9 DEF Decorated
  <2>3. at' = "failed" => Len(runs') <= 1 /\ runs'[1].raised /\ ~Decorated' /\ request'.door \in {"fastapi", "adapter"}
    <3>1. Decorated' = Decorated /\ request' = request
      BY <1>1, SameRequest
    <3>2. at' = "failed" => r.raised
      BY <1>6, <1>9
    <3>. SUFFICES ASSUME at' = "failed"
         PROVE Len(runs') <= 1 /\ runs'[1].raised /\ ~Decorated' /\ request'.door \in {"fastapi", "adapter"}
      OBVIOUS
    <3>3. Len(runs') = 1 /\ runs'[1] = r /\ ~Decorated /\ r.raised /\ request.door \in {"fastapi", "adapter"}
      BY <1>9, <2>2, <3>2
    <3>4. Len(runs') <= 1
      BY <3>3
    <3>5. runs'[1].raised
      BY <3>3
    <3>. QED BY <3>1, <3>3, <3>4, <3>5
  <2>. QED BY <1>9, <2>1, <2>3 DEF Phases
<1>14. Prompts'
  <2>1. FoundPromptsAreMasked'
    <3>1. CASE Len(runs) = 1
      <4>1. runs'[1] = runs[1] /\ Len(runs') > 0 /\ Len(runs) > 0
        BY <1>8, <3>1
      <4>. QED BY <1>1, <4>1, SameRequest DEF WebInv, Prompts, FoundPromptsAreMasked, Delivered
    <3>2. CASE Len(runs) = 0
      <4>1. runs'[1] = r /\ runs = <<>>
        BY <1>3, <1>8, <3>2
      <4>. SUFFICES ASSUME Looked, Delivered,
                           NEW f \in Reachable, f \in DOMAIN Seen
           PROVE  Accounted(Seen, f)
        BY <1>1, <1>6, <4>1, SameRequest DEF FoundPromptsAreMasked, Accounted, Looked, Delivered
      <4>2. CASE at = "forwarding"
        <5>1. left /\ Accounted(copied, f)
          BY <4>2 DEF WebInv, Prompts
        <5>2. Seen = copied \/ Seen = NoFields
          <6>1. request.door \in Door
            BY <1>3, RequestTypes
          <6>2. request.relays \in BOOLEAN
            BY <1>3, RequestsAssumption DEF Request
          <6>. QED BY <4>1, <5>1, <6>1, <6>2 DEF Looked, Door, Decorated, Delivered, Seen, FastapiSees, FlaskSees, DjangoSees,
                                                AdapterSees, Asked
        <5>3. Seen # NoFields
          BY DEF NoFields
        <5>. QED BY <5>1, <5>2, <5>3
      <4>3. CASE at = "falling"
        BY <4>1, <4>3 DEF WebInv, Prompts, Accounted
      <4>. QED BY <1>1, <4>2, <4>3
    <3>. QED BY <1>7, <3>1, <3>2
  <2>2. runs' # <<>>
    BY <1>7, <1>8
  <2>. QED BY <1>9, <2>1, <2>2 DEF Prompts
<1>. QED BY <1>11, <1>12, <1>13, <1>14 DEF WebInv

(* EndpointsGetTheirPrompts for any requests and fields: where the         *)
(* processed body is delivered, each of the prompts looked for reaches the *)
(* endpoint masked, or processing it failed; every text stays in its own   *)
(* field, but for a key spelled like a path.                               *)
THEOREM PromptsArrive == WebSpec => []EndpointsGetTheirPrompts
<1>1. WebInv /\ [WebNext]_webvars => WebInv'
  <2>. SUFFICES ASSUME WebInv, [WebNext]_webvars PROVE WebInv'
    OBVIOUS
  <2>1. CASE FastapiDispatch \/ FlaskBeforeRequest \/ DjangoProcessRequest \/ AdapterDispatch
    <3>1. \E door \in Door \ {"flask_decorator", "django_decorator"}, fails \in BOOLEAN :
            (fails => request.content = "array") /\ Take(door, fails)
      <4>1. (request.content = "array") \in BOOLEAN
        OBVIOUS
      <4>. QED BY <2>1, <4>1 DEF Door, FastapiDispatch, FlaskBeforeRequest, DjangoProcessRequest, AdapterDispatch
    <3>. QED BY <3>1, TakeKeeps
  <2>2. CASE FastapiProcessPrompts \/ FlaskProcessPrompts \/ DjangoProcessPrompts \/ AdapterProcessData
    <3>1. \E door \in Door : ProcessPrompt(door)
      BY <2>2 DEF Door, FastapiProcessPrompts, FlaskProcessPrompts, DjangoProcessPrompts, AdapterProcessData
    <3>. QED BY <3>1, ProcessKeeps
  <2>3. CASE CreateProcessedRequest \/ FlaskReplaceData \/ DjangoReplaceData \/ AdapterSetsBody
    <3>1. \E door \in Door : Leave(door)
      BY <2>3 DEF Door, CreateProcessedRequest, FlaskReplaceData, DjangoReplaceData, AdapterSetsBody
    <3>. QED BY <3>1, LeaveKeeps
  <2>. QED BY <2>1, <2>2, <2>3, PassOnKeeps, DecorateKeeps, CallKeeps, FailOpenKeeps, StutterKeeps DEF WebNext
<1>. QED BY <1>1, WebStarts, WebImplies, PTL DEF WebSpec

-----------------------------------------------------------------------------
(* FrameworkPipelines                                                      *)

(* What a behaviour is, but for its passes.                                *)
IsKind(k, n) == k.passes = n /\ k.keeps \in BOOLEAN /\ k.reply \in BOOLEAN

(* How often a wrapper has a text processed.                               *)
LEMMA Behaviours ==
  ASSUME NEW u \in Uses
  PROVE  /\ Behaviour(u).passes \in 0..(IF u.wrapper = "lc_chain" THEN 2 ELSE 1)
         /\ Behaviour(u).keeps \in BOOLEAN /\ Behaviour(u).reply \in BOOLEAN
         /\ Behaviour(u).passes = 0 => ~u.optimize /\ (u.wrapper = "li_query" \/ ~u.privacy)
<1>. USE DEF Kind
<1>1. u \in Use
  BY UsesAssumption
<1>2. u.wrapper \in Wrapper /\ u.privacy \in BOOLEAN /\ u.optimize \in BOOLEAN /\ u.check \in BOOLEAN
  BY <1>1 DEF Use
<1>3. /\ u.wrapper = "lc_template" => Behaviour(u) = LangchainTemplate
      /\ u.wrapper = "lc_llm" => Behaviour(u) = LangchainLlm
      /\ u.wrapper = "lc_runnable" => Behaviour(u) = LangchainRunnable
      /\ u.wrapper = "li_template" => Behaviour(u) = LlamaindexTemplate
      /\ u.wrapper = "li_llm" => Behaviour(u) = LlamaindexLlm
      /\ u.wrapper = "li_retriever" => Behaviour(u) = LlamaindexRetriever
      /\ u.wrapper = "li_nodes" => Behaviour(u) = LlamaindexNodes
      /\ u.wrapper = "fw_decorator" => Behaviour(u) = AshaProcess
      /\ u.wrapper = "composer" => Behaviour(u) = UniversalCompose
      /\ u.wrapper = "composed_api" => Behaviour(u) = EnhanceApiCall
      /\ u.wrapper = "lc_chain" => Behaviour(u) = LangchainChain
      /\ u.wrapper = "li_query" => Behaviour(u) = LlamaindexQuery(u)
      /\ u.wrapper = "fw_template" => Behaviour(u) = AdapterTemplate(u)
      /\ u.wrapper = "fw_llm" => Behaviour(u) = AdapterLlm(u)
      /\ u.wrapper = "fw_instructor" => Behaviour(u) = AdapterInstructor(u)
      /\ u.wrapper = "fw_openai" => Behaviour(u) = AdapterOpenAI(u)
  BY DEF Behaviour
<1>4. /\ IsKind(LangchainTemplate, 1)
      /\ IsKind(LangchainLlm, 1)
      /\ IsKind(LangchainRunnable, 1)
      /\ IsKind(LlamaindexTemplate, 1)
      /\ IsKind(LlamaindexLlm, 1)
      /\ IsKind(LlamaindexRetriever, 1)
      /\ IsKind(LlamaindexNodes, 1)
      /\ IsKind(AshaProcess, 1)
      /\ IsKind(UniversalCompose, 1)
      /\ IsKind(EnhanceApiCall, 1)
  BY DEF IsKind, LangchainTemplate, LangchainLlm, LangchainRunnable, LlamaindexTemplate, LlamaindexLlm, LlamaindexRetriever, LlamaindexNodes, AshaProcess, UniversalCompose, EnhanceApiCall
<1>5. LangchainChain.passes = 2 /\ LangchainChain.keeps \in BOOLEAN /\ LangchainChain.reply \in BOOLEAN
  BY DEF LangchainChain, LangchainLlm, LangchainTemplate
<1>6. /\ LlamaindexQuery(u).passes = (IF u.optimize THEN 1 ELSE 0)
      /\ LlamaindexQuery(u).keeps \in BOOLEAN /\ LlamaindexQuery(u).reply \in BOOLEAN
  BY DEF LlamaindexQuery
<1>7. /\ IsKind(AdapterTemplate(u), AdapterPasses(u))
      /\ IsKind(AdapterLlm(u), AdapterPasses(u))
      /\ IsKind(AdapterInstructor(u), AdapterPasses(u))
      /\ IsKind(AdapterOpenAI(u), AdapterPasses(u))
  BY <1>2 DEF IsKind, AdapterTemplate, AdapterLlm, AdapterInstructor, AdapterOpenAI
<1>8. AdapterPasses(u) = IF u.privacy \/ u.optimize THEN 1 ELSE 0
  BY DEF AdapterPasses
<1>9. CASE u.wrapper \in {"lc_template", "lc_llm", "lc_runnable", "li_template", "li_llm", "li_retriever", "li_nodes", "fw_decorator", "composer", "composed_api"}
  BY <1>3, <1>4, <1>9 DEF IsKind
<1>10. CASE u.wrapper = "lc_chain"
  BY <1>3, <1>5, <1>10
<1>11. CASE u.wrapper = "li_query"
  BY <1>2, <1>3, <1>6, <1>11
<1>12. CASE u.wrapper \in {"fw_template", "fw_llm", "fw_instructor", "fw_openai"}
  BY <1>2, <1>3, <1>7, <1>8, <1>12 DEF IsKind
<1>. QED BY <1>2, <1>9, <1>10, <1>11, <1>12 DEF Wrapper

-----------------------------------------------------------------------------

(* Items keep their place and their kind, and none has been processed more *)
(* often than its wrapper does.                                            *)
HeldItem == [item : {"text", "opaque"}, masked : BOOLEAN, passes : Nat]

(* Every caller holds as many items as it was given, opaque ones never     *)
(* processed.                                                              *)
ItemsHeld ==
  \A c \in Callers :
    /\ DOMAIN held[c] = DOMAIN use[c].items
    /\ \A i \in DOMAIN held[c] : held[c][i] \in HeldItem /\ held[c][i].passes <= Behaviour(use[c]).passes
    /\ step[c] = "idle" => \A i \in DOMAIN held[c] : held[c][i].passes = 0

(* What was sent is what was held when nothing was left to process.        *)
SentIsHeld ==
  \A c \in Callers :
    \/ sent[c] = <<>>
    \/ /\ step[c] \notin {"idle", "processing"} /\ sent[c] = held[c]
       /\ Pending(c, Behaviour(use[c]).passes) = {}

(* Whoever has the wrapper to itself is the only one inside, and what is   *)
(* in the metrics once it has processed is its own.                        *)
AloneInside ==
  \A c \in met :
    /\ \A d \in Callers \ {c} : ~Busy(d)
    /\ KeepsMetrics(use[c]) /\ (\E i \in DOMAIN held[c] : held[c][i].passes > 0) => metrics = c

PipeInv ==
  /\ PipeTypeOK
  /\ DOMAIN held = Callers /\ DOMAIN sent = Callers /\ DOMAIN reply = Callers
  /\ ItemsHeld /\ SentIsHeld /\ AloneInside

(* The invariant holds before any caller begins.                           *)
LEMMA PipeInitInvariant == PipeInit => PipeInv
<1>. SUFFICES ASSUME PipeInit PROVE PipeInv
  OBVIOUS
<1>1. PipeTypeOK /\ DOMAIN held = Callers /\ DOMAIN sent = Callers /\ DOMAIN reply = Callers
  BY DEF PipeInit, PipeTypeOK
<1>2. ItemsHeld
  <2>. SUFFICES ASSUME NEW c \in Callers
       PROVE  /\ DOMAIN held[c] = DOMAIN use[c].items
              /\ \A i \in DOMAIN held[c] : held[c][i] \in HeldItem /\ held[c][i].passes = 0
              /\ Behaviour(use[c]).passes >= 0
    BY DEF ItemsHeld
  <2>1. use[c] \in Uses /\ use[c] \in Use
    BY UsesAssumption DEF PipeInit
  <2>2. \A i \in DOMAIN use[c].items : use[c].items[i] \in {"text", "opaque"}
    BY <2>1 DEF Use
  <2>3. held[c] = [i \in DOMAIN use[c].items |-> Plain(use[c].items[i])]
    BY DEF PipeInit
  <2>. QED BY <2>1, <2>2, <2>3, Behaviours DEF Plain, HeldItem
<1>3. SentIsHeld /\ AloneInside
  BY DEF PipeInit, SentIsHeld, AloneInside
<1>. QED BY <1>1, <1>2, <1>3 DEF PipeInv

(* The first of the items that have been processed least often.            *)
LEMMA NextPending ==
  ASSUME PipeInv, NEW c \in Callers, NEW n \in Nat, Pending(c, n) # {}
  PROVE  \E i \in Pending(c, n) : \A j \in Pending(c, n) :
            \/ held[c][i].passes < held[c][j].passes
            \/ held[c][i].passes = held[c][j].passes /\ i <= j
<1>. DEFINE S == Pending(c, n)
<1>1. S \subseteq Nat
  <2>1. use[c].items \in Seq({"text", "opaque"})
    BY UsesAssumption DEF PipeInv, PipeTypeOK, Use
  <2>. QED BY <2>1 DEF Pending, PipeInv, ItemsHeld
<1>2. \A i \in S : held[c][i].passes \in Nat
  BY DEF Pending, PipeInv, ItemsHeld, HeldItem
<1>3. S # {}
  OBVIOUS
<1>. DEFINE P == {held[c][i].passes : i \in S}
<1>4. P \subseteq Nat /\ P # {}
  BY <1>2, <1>3
<1>. HIDE DEF P
<1>5. PICK p \in P : \A q \in P : p <= q
  BY <1>4, LeastNat
<1>. DEFINE M == {i \in S : held[c][i].passes = p}
<1>6. M \subseteq Nat /\ M # {}
  BY <1>1, <1>5 DEF P
<1>. HIDE DEF M
<1>7. PICK m \in M : \A k \in M : m <= k
  BY <1>6, LeastNat
<1>8. m \in S /\ held[c][m].passes = p
  BY <1>7 DEF M
<1>9. ASSUME NEW j \in S
      PROVE  p < held[c][j].passes \/ (p = held[c][j].passes /\ m <= j)
  <2>1. p <= held[c][j].passes /\ p \in Nat /\ held[c][j].passes \in Nat
    BY <1>2, <1>4, <1>5, <1>9 DEF P
  <2>2. p = held[c][j].passes => m <= j
    BY <1>7, <1>9 DEF M
  <2>. QED BY <2>1, <2>2
<1>. QED BY <1>8, <1>9

(* Beginning a use keeps it.                                               *)
LEMMA StartsUse ==
  ASSUME PipeInv, NEW c \in Callers, StartUse(c)
  PROVE  PipeInv'
<1>. USE DEF PipeInv, PipeTypeOK
<1>1. /\ step[c] = "idle" /\ step' = [step EXCEPT ![c] = "processing"]
      /\ UNCHANGED <<use, held, sent, reply, metrics>>
      /\ \/ met' = {}
         \/ met' = {c} /\ \A d \in Callers \ {c} : ~Busy(d)
  BY DEF StartUse
<1>2. PipeTypeOK' /\ DOMAIN held' = Callers /\ DOMAIN sent' = Callers /\ DOMAIN reply' = Callers
  BY <1>1
<1>3. ItemsHeld'
  BY <1>1 DEF ItemsHeld
<1>4. SentIsHeld'
  BY <1>1 DEF SentIsHeld, Pending
<1>5. \A i \in DOMAIN held[c] : held[c][i].passes = 0
  BY <1>1 DEF ItemsHeld
<1>6. AloneInside'
  BY <1>1, <1>5 DEF AloneInside, Busy
<1>. QED BY <1>2, <1>3, <1>4, <1>6

(* Of a caller that is inside, only it may have the wrapper to itself.     *)
LEMMA OnlyWho ==
  ASSUME PipeInv, NEW c \in Callers, Busy(c)
  PROVE  met \subseteq {c}
BY DEF PipeInv, PipeTypeOK, AloneInside

(* Processing an item keeps it.                                            *)
LEMMA ProcessesItem ==
  ASSUME PipeInv, NEW c \in Callers, ProcessItem(c)
  PROVE  PipeInv'
<1>. USE DEF PipeInv, PipeTypeOK
<1>. DEFINE n == Behaviour(use[c]).passes
<1>1. n \in Nat
  BY Behaviours
<1>2. /\ step[c] = "processing" /\ Pending(c, n) # {}
      /\ metrics' = Recorded(c) /\ UNCHANGED <<use, step, sent, reply, met>>
  BY DEF ProcessItem
<1>3. PICK i \in Pending(c, n) : \E v \in Made(c, held[c][i]) : held' = [held EXCEPT ![c][i] = v]
  <2>. DEFINE f == CHOOSE i \in Pending(c, n) :
                \A j \in Pending(c, n) : held[c][i].passes < held[c][j].passes
                                          \/ (held[c][i].passes = held[c][j].passes /\ i <= j)
  <2>1. f \in Pending(c, n)
    BY <1>1, <1>2, NextPending
  <2>2. \E v \in Made(c, held[c][f]) : held' = [held EXCEPT ![c][f] = v]
    BY DEF ProcessItem
  <2>. HIDE DEF f
  <2>. QED BY <2>1, <2>2
<1>3a. PICK v \in Made(c, held[c][i]) : held' = [held EXCEPT ![c][i] = v]
  BY <1>3
<1>4. /\ i \in DOMAIN held[c] /\ held[c][i] \in HeldItem /\ held[c][i].passes < n
  BY <1>3 DEF Pending, ItemsHeld
<1>5. v \in HeldItem /\ v.passes <= n
  <2>1. use[c] \in Use
    BY UsesAssumption
  <2>2. PICK m \in BOOLEAN : v = [held[c][i] EXCEPT !.masked = @ \/ m, !.passes = @ + 1]
    BY <1>3a DEF Made
  <2>3. v.item = held[c][i].item /\ v.masked \in BOOLEAN /\ v.passes = held[c][i].passes + 1
        /\ v = [item |-> v.item, masked |-> v.masked, passes |-> v.passes]
    BY <1>4, <2>2 DEF HeldItem
  <2>. QED BY <1>1, <1>4, <2>3 DEF HeldItem
<1>6. /\ DOMAIN held' = Callers /\ DOMAIN held'[c] = DOMAIN held[c] /\ held'[c][i] = v
      /\ \A j \in DOMAIN held[c] : j # i => held'[c][j] = held[c][j]
      /\ \A d \in Callers : d # c => held'[d] = held[d]
  BY <1>3a, <1>4
<1>7. PipeTypeOK' /\ DOMAIN sent' = Callers /\ DOMAIN reply' = Callers
  BY <1>2 DEF Recorded
<1>8. ItemsHeld'
  BY <1>2, <1>5, <1>6 DEF ItemsHeld
<1>9. SentIsHeld'
  BY <1>2, <1>6 DEF SentIsHeld, Pending
<1>10. AloneInside'
  <2>1. met \subseteq {c}
    BY <1>2, OnlyWho DEF Busy
  <2>2. KeepsMetrics(use[c]) => metrics' = c
    BY <1>2 DEF Recorded
  <2>. QED BY <1>2, <2>1, <2>2 DEF AloneInside, Busy, KeepsMetrics
<1>. QED BY <1>6, <1>7, <1>8, <1>9, <1>10

(* Steps that leave the items and the metrics as they are.                 *)
LEMMA GoesFurther ==
  ASSUME PipeInv, NEW c \in Callers, Busy(c),
         NEW l \in {"model", "reply", "done", "raised"}, step' = [step EXCEPT ![c] = l],
         UNCHANGED <<use, held, metrics, met>>, DOMAIN reply' = Callers,
         \/ sent' = sent
         \/ sent' = [sent EXCEPT ![c] = held[c]] /\ Pending(c, Behaviour(use[c]).passes) = {}
  PROVE  PipeInv'
<1>. USE DEF PipeInv, PipeTypeOK
<1>1. PipeTypeOK' /\ DOMAIN held' = Callers /\ DOMAIN sent' = Callers
  OBVIOUS
<1>2. ItemsHeld'
  BY DEF ItemsHeld
<1>3. SentIsHeld'
  BY DEF SentIsHeld, Pending
<1>4. AloneInside'
  <2>1. met \subseteq {c}
    BY OnlyWho
  <2>. QED BY <2>1 DEF AloneInside, Busy, KeepsMetrics
<1>. QED BY <1>1, <1>2, <1>3, <1>4

(* So does every step.                                                     *)
LEMMA PipeStep == PipeInv /\ [PipeNext]_pipevars => PipeInv'
<1>. SUFFICES ASSUME PipeInv, [PipeNext]_pipevars PROVE PipeInv'
  OBVIOUS
<1>1. CASE UNCHANGED pipevars
  <2>. USE <1>1 DEF pipevars
  <2>1. PipeTypeOK' /\ DOMAIN held' = Callers /\ DOMAIN sent' = Callers /\ DOMAIN reply' = Callers
    BY DEF PipeInv, PipeTypeOK
  <2>2. ItemsHeld' /\ SentIsHeld' /\ AloneInside'
    BY DEF PipeInv, ItemsHeld, SentIsHeld, AloneInside, Pending, Busy, KeepsMetrics
  <2>. QED BY <2>1, <2>2 DEF PipeInv
<1>2. ASSUME NEW c \in Callers, Caller(c) PROVE PipeInv'
  <2>1. CASE StartUse(c)
    BY <2>1, StartsUse
  <2>2. CASE ProcessItem(c)
    BY <2>2, ProcessesItem
  <2>3. CASE ProcessRaises(c)
    <3>1. /\ Busy(c) /\ step' = [step EXCEPT ![c] = "raised"] /\ UNCHANGED <<use, held, sent, reply, metrics, met>>
      BY <2>3 DEF ProcessRaises, Busy
    <3>. QED BY <3>1, GoesFurther DEF PipeInv
  <2>4. CASE HandOn(c)
    <3>1. /\ Busy(c) /\ step' = [step EXCEPT ![c] = "model"] /\ UNCHANGED <<use, held, reply, metrics, met>>
          /\ sent' = [sent EXCEPT ![c] = held[c]] /\ Pending(c, Behaviour(use[c]).passes) = {}
      BY <2>4 DEF HandOn, Busy
    <3>. QED BY <3>1, GoesFurther DEF PipeInv
  <2>5. CASE ModelReplies(c) \/ ModelRaises(c)
    <3>1. /\ Busy(c) /\ UNCHANGED <<use, held, sent, reply, metrics, met>>
          /\ \E l \in {"reply", "done", "raised"} : step' = [step EXCEPT ![c] = l]
      BY <2>5 DEF ModelReplies, ModelRaises, Busy
    <3>. QED BY <3>1, GoesFurther DEF PipeInv
  <2>6. CASE ProcessReply(c)
    <3>1. /\ Busy(c) /\ step' = [step EXCEPT ![c] = "done"] /\ UNCHANGED <<use, held, sent, metrics, met>>
          /\ \E v : reply' = [reply EXCEPT ![c] = v]
      BY <2>6 DEF ProcessReply, Busy
    <3>2. DOMAIN reply' = Callers
      BY <3>1 DEF PipeInv
    <3>. QED BY <3>1, <3>2, GoesFurther
  <2>. QED BY <1>2, <2>1, <2>2, <2>3, <2>4, <2>5, <2>6 DEF Caller
<1>. QED BY <1>1, <1>2 DEF PipeNext

(* Whatever wrappers callers share and whatever fails: no text goes on     *)
(* unprocessed unless processing is off, none is processed more often than *)
(* wrappers stand in its way, and a caller that was alone finds its own    *)
(* metrics.                                                                *)
THEOREM ProcessedByWrappers == PipeSpec => []WrappersProcessOnce
<1>1. PipeInv => WrappersProcessOnce
  <2>. SUFFICES ASSUME PipeInv PROVE WrappersProcessOnce
    OBVIOUS
  <2>. USE DEF PipeInv, PipeTypeOK
  <2>1. ASSUME NEW c \in Callers, NEW i \in DOMAIN sent[c]
        PROVE  /\ sent[c][i] \in HeldItem /\ sent[c][i].passes <= Behaviour(use[c]).passes
               /\ sent[c][i].item = "text" => ~(sent[c][i].passes < Behaviour(use[c]).passes)
    <3>1. sent[c] = held[c] /\ Pending(c, Behaviour(use[c]).passes) = {}
      BY <2>1 DEF SentIsHeld
    <3>. QED BY <2>1, <3>1 DEF ItemsHeld, Pending
  <2>2. NothingSentUnprocessed
    <3>. SUFFICES ASSUME NEW c \in Callers, NEW i \in DOMAIN sent[c],
                         sent[c][i].item = "text", sent[c][i].passes = 0
                  PROVE  ~use[c].optimize /\ (use[c].wrapper = "li_query" \/ ~use[c].privacy)
      BY DEF NothingSentUnprocessed
    <3>1. use[c] \in Uses /\ Behaviour(use[c]).passes \in Nat
      BY Behaviours
    <3>2. Behaviour(use[c]).passes = 0
      BY <2>1, <3>1
    <3>. QED BY <3>1, <3>2, Behaviours
  <2>3. ProcessedOncePerWrapper
    <3>. SUFFICES ASSUME NEW c \in Callers, NEW i \in DOMAIN sent[c]
                  PROVE  sent[c][i].passes <= IF use[c].wrapper = "lc_chain" THEN 2 ELSE 1
      BY DEF ProcessedOncePerWrapper
    <3>1. Behaviour(use[c]).passes \in 0..(IF use[c].wrapper = "lc_chain" THEN 2 ELSE 1)
      BY Behaviours
    <3>2. sent[c][i].passes \in Nat
      BY <2>1 DEF HeldItem
    <3>. QED BY <2>1, <3>1, <3>2
  <2>4. MetricsAreOwnWhenAlone
    BY DEF AloneInside, MetricsAreOwnWhenAlone
  <2>. QED BY <2>2, <2>3, <2>4 DEF WrappersProcessOnce
<1>. QED BY <1>1, PipeInitInvariant, PipeStep, PTL DEF PipeSpec

-----------------------------------------------------------------------------
(* ToolChain                                                               *)

(* The names of the first tools of a chain.                                *)
NamesIn(k) == {chain.names[j] : j \in 1..k}

(* A text that process() has not had comes before every success.           *)
Unsucceeded(d) ==
  d.kind = "text" /\ ~d.processed => \A n \in DOMAIN results : results[n] # "success"

(* What goes from tool to tool, and what is noted of a tool that ran.      *)
Datum == [kind : {"text", "object"}, processed : BOOLEAN]

ToolRun == [tool : Nat, got : Datum, was : Datum]

(* Types, and which tools have results.                                    *)
ChainShape ==
  /\ chain \in Chains
  /\ toolAt \in 1..(Len(chain.names) + 1)
  /\ phase \in {"before", "tool", "after", "failed"} /\ (phase # "before" => ~Ended)
  /\ data \in Datum /\ given \in Seq(ToolRun)
  /\ DOMAIN results = {chain.names[i] : i \in DOMAIN chain.names}

(* What a tool was given, and what the next one will be.                   *)
ProcessedBefore ==
  /\ ToolsGivenProcessed
  /\ chain.mode = "preprocess" /\ phase = "tool" /\ data.kind = "text" => data.processed

(* The data of a chain that postprocesses, or what it falls back to.       *)
ProcessedAfter ==
  chain.mode = "postprocess" =>
    IF phase = "after" THEN given # <<>> /\ Unsucceeded(given[Len(given)].was) ELSE Unsucceeded(data)

(* How far a chain is: no tool after the one that is next has run or has a *)
(* result, save under a name that came before.                             *)
NoneAhead ==
  /\ \A g \in DOMAIN given : given[g].tool <= toolAt
  /\ \A i \in toolAt..Len(chain.names) :
       chain.names[i] \in NamesIn(toolAt - 1) \/ results[chain.names[i]] = Missing

ChainInv == ChainShape /\ ProcessedBefore /\ ProcessedAfter /\ NoneAhead /\ StoppedAtFirstFailure

(* A sequence and one more.                                                *)
LEMMA OneMore ==
  ASSUME NEW T, NEW s \in Seq(T), NEW e \in T
  PROVE  /\ Append(s, e) \in Seq(T) /\ Append(s, e) # <<>>
         /\ Append(s, e)[Len(Append(s, e))] = e
         /\ \A g \in DOMAIN Append(s, e) : (g \in DOMAIN s /\ Append(s, e)[g] = s[g]) \/ Append(s, e)[g] = e
OBVIOUS

(* What a chain says of itself.                                            *)
LEMMA RunsOfChain ==
  ASSUME ChainShape
  PROVE  /\ \A g \in DOMAIN given : given[g] \in ToolRun
         /\ given # <<>> => given[Len(given)] \in ToolRun
BY DEF ChainShape

(* Names of some tools are names of more of them.                          *)
LEMMA NamesOfChain ==
  ASSUME ChainShape
  PROVE  /\ chain.names \in Seq(STRING) /\ Len(chain.names) \in Nat \ {0}
         /\ DOMAIN chain.names = 1..Len(chain.names)
         /\ \A i \in 1..Len(chain.names) : chain.names[i] \in DOMAIN results
BY ChainsAssumption DEF ChainShape

(* The invariant holds before a chain begins.                              *)
LEMMA ChainInitInvariant == ChainInit => ChainInv
<1>. SUFFICES ASSUME ChainInit PROVE ChainInv
  OBVIOUS
<1>. USE DEF ChainInit
<1>0. chain.names \in Seq(STRING) /\ Len(chain.names) \in Nat \ {0}
  BY ChainsAssumption
<1>1. ChainShape
  BY <1>0 DEF ChainShape, Datum
<1>2. ProcessedBefore /\ ProcessedAfter
  BY DEF ProcessedBefore, ToolsGivenProcessed, ProcessedAfter, Unsucceeded, Missing
<1>3. NoneAhead /\ StoppedAtFirstFailure
  BY <1>0 DEF NoneAhead, StoppedAtFirstFailure, Missing
<1>. QED BY <1>1, <1>2, <1>3 DEF ChainInv

(* Texts are processed where the mode says.                                *)
LEMMA Preprocesses ==
  ASSUME ChainInv, Preprocess
  PROVE  ChainInv'
<1>. USE DEF ChainInv
<1>1. /\ phase = "before" /\ ~Ended /\ UNCHANGED <<chain, toolAt, given, results>>
      /\ phase' \in {"tool", "failed"}
      /\ data' = data \/ data' = ProcessedAs(data)
      /\ chain.mode = "preprocess" /\ phase' = "tool" => data' = ProcessedAs(data)
  BY DEF Preprocess
<1>2. /\ data' \in Datum
      /\ data' = ProcessedAs(data) => (data'.kind = "text" => data'.processed)
      /\ data' = data \/ (data'.kind = "text" => data'.processed)
  BY <1>1 DEF ChainShape, Datum, ProcessedAs
<1>3. ChainShape'
  BY <1>1, <1>2 DEF ChainShape, Ended
<1>4. ProcessedBefore'
  BY <1>1, <1>2 DEF ProcessedBefore, ToolsGivenProcessed
<1>5. ProcessedAfter'
  BY <1>1, <1>2 DEF ProcessedAfter, Unsucceeded
<1>6. NoneAhead' /\ StoppedAtFirstFailure'
  BY <1>1 DEF NoneAhead, NamesIn, StoppedAtFirstFailure, Ended
<1>. QED BY <1>3, <1>4, <1>5, <1>6

(* Running a tool keeps it.                                                *)
LEMMA RunsTool ==
  ASSUME ChainInv, RunTool
  PROVE  ChainInv'
<1>. USE DEF ChainInv
<1>. DEFINE argument == IF chain.composed THEN ProcessedAs(data) ELSE data
            entry == [tool |-> toolAt, got |-> argument, was |-> data]
<1>1. /\ phase = "tool" /\ UNCHANGED <<chain, toolAt, results>>
      /\ given' = given \/ given' = Append(given, entry)
      /\ \/ phase' = "failed" /\ data' = data
         \/ phase' = "after" /\ data' \in Outputs(argument) /\ given' = Append(given, entry)
  BY DEF RunTool
<1>2. /\ data \in Datum /\ argument \in Datum /\ data' \in Datum
      /\ chain.composed \/ chain.mode = "preprocess" => (argument.kind = "text" => argument.processed)
  <2>1. ProcessedAs(data) \in Datum /\ (ProcessedAs(data).kind = "text" => ProcessedAs(data).processed)
    BY DEF ChainShape, Datum, ProcessedAs
  <2>. QED BY <1>1, <2>1 DEF ChainShape, Datum, ProcessedBefore, Outputs
<1>3. /\ entry \in ToolRun /\ entry.tool = toolAt /\ entry.got = argument /\ entry.was = data
  BY <1>2, NamesOfChain DEF ChainShape, ToolRun
<1>. HIDE DEF entry, argument
<1>4. /\ given' \in Seq(ToolRun)
      /\ \A g \in DOMAIN given' : (g \in DOMAIN given /\ given'[g] = given[g]) \/ given'[g] = entry
      /\ given' = Append(given, entry) => given' # <<>> /\ given'[Len(given')] = entry
  <2>1. given \in Seq(ToolRun)
    BY DEF ChainShape
  <2>. QED BY <1>1, <1>3, <2>1, OneMore
<1>5. ChainShape'
  BY <1>1, <1>2, <1>4 DEF ChainShape, Ended
<1>6. ProcessedBefore'
  BY <1>1, <1>2, <1>3, <1>4 DEF ProcessedBefore, ToolsGivenProcessed
<1>7. ProcessedAfter'
  BY <1>1, <1>3, <1>4 DEF ProcessedAfter, Unsucceeded
<1>8. NoneAhead'
  <2>1. toolAt \in Nat
    BY NamesOfChain DEF ChainShape
  <2>. QED BY <1>1, <1>3, <1>4, <2>1 DEF NoneAhead, NamesIn
<1>9. StoppedAtFirstFailure'
  BY <1>1 DEF StoppedAtFirstFailure, ChainShape, Ended
<1>. QED BY <1>5, <1>6, <1>7, <1>8, <1>9

(* What a step that settles the tool's result does to what lies ahead.     *)
LEMMA SettlesResult ==
  ASSUME ChainInv, ~Ended, UNCHANGED <<chain, given>>, phase' = "before",
         NEW r, results' = [results EXCEPT ![Name] = r]
  PROVE  /\ DOMAIN results' = DOMAIN results /\ results'[Name] = r
         /\ \A g \in DOMAIN given' : given'[g].tool <= toolAt
         /\ \A i \in (toolAt + 1)..Len(chain.names) :
              chain.names[i] \in NamesIn(toolAt) \/ results'[chain.names[i]] = Missing
<1>. USE DEF ChainInv
<1>1. toolAt \in 1..Len(chain.names) /\ Len(chain.names) \in Nat /\ Name \in DOMAIN results
      /\ Name \in NamesIn(toolAt)
  BY NamesOfChain DEF ChainShape, Ended, Name, NamesIn
<1>2. DOMAIN results' = DOMAIN results /\ results'[Name] = r
      /\ \A n \in DOMAIN results : n # Name => results'[n] = results[n]
  BY <1>1
<1>3. ASSUME NEW i \in (toolAt + 1)..Len(chain.names)
      PROVE  chain.names[i] \in NamesIn(toolAt) \/ results'[chain.names[i]] = Missing
  <2>1. chain.names[i] \in DOMAIN results /\ i \in toolAt..Len(chain.names)
    BY <1>1, <1>3, NamesOfChain
  <2>2. chain.names[i] \in NamesIn(toolAt - 1) \/ results[chain.names[i]] = Missing
    BY <2>1 DEF NoneAhead
  <2>3. NamesIn(toolAt - 1) \subseteq NamesIn(toolAt)
    BY <1>1 DEF NamesIn
  <2>. QED BY <1>1, <1>2, <2>1, <2>2, <2>3
<1>. QED BY <1>2, <1>3 DEF NoneAhead

(* What goes on to the next tool keeps it.                                 *)
LEMMA Keeps ==
  ASSUME ChainInv, Keep
  PROVE  ChainInv'
<1>. USE DEF ChainInv
<1>1. /\ phase = "after" /\ ~Ended /\ UNCHANGED <<chain, given>> /\ toolAt' = toolAt + 1 /\ phase' = "before"
      /\ data' = (IF chain.mode = "postprocess" THEN ProcessedAs(data) ELSE data)
      /\ results' = [results EXCEPT ![Name] = "success"]
  BY DEF Keep, ChainShape
<1>2. /\ data' \in Datum
      /\ chain.mode = "postprocess" /\ data'.kind = "text" => data'.processed
  BY <1>1 DEF ChainShape, Datum, ProcessedAs
<1>3a. toolAt \in 1..Len(chain.names) /\ Len(chain.names) \in Nat
  BY <1>1, NamesOfChain DEF ChainShape, Ended
<1>3. /\ toolAt \in 1..Len(chain.names) /\ Len(chain.names) \in Nat
      /\ DOMAIN results' = DOMAIN results
      /\ \A g \in DOMAIN given' : given'[g].tool <= toolAt
      /\ \A i \in (toolAt + 1)..Len(chain.names) :
           chain.names[i] \in NamesIn(toolAt) \/ results'[chain.names[i]] = Missing
  BY <1>1, <1>3a, SettlesResult
<1>4. ChainShape'
  BY <1>1, <1>2, <1>3 DEF ChainShape
<1>5. ProcessedBefore' /\ ProcessedAfter'
  BY <1>1, <1>2 DEF ProcessedBefore, ToolsGivenProcessed, ProcessedAfter, Unsucceeded
<1>6. NoneAhead'
  <2>1. \A g \in DOMAIN given' : given'[g].tool \in Nat
    BY <1>1, RunsOfChain DEF ToolRun
  <2>2. (toolAt + 1) - 1 = toolAt
    BY <1>3
  <2>. QED BY <1>1, <1>3, <2>1, <2>2 DEF NoneAhead, NamesIn
<1>7. StoppedAtFirstFailure'
  <2>1. chain.handling = "stop" => \A n \in DOMAIN results : results[n] # "error"
    BY <1>1 DEF StoppedAtFirstFailure
  <2>2. \A n \in DOMAIN results' : results'[n] = "success" \/ results'[n] = results[n]
    BY <1>1
  <2>. QED BY <1>1, <1>3, <2>1, <2>2 DEF StoppedAtFirstFailure
<1>. QED BY <1>4, <1>5, <1>6, <1>7

(* So does a result that processing refuses,                               *)
LEMMA RefusesResult ==
  ASSUME ChainInv, RefuseResult
  PROVE  ChainInv'
<1>. USE DEF ChainInv
<1>1. /\ phase = "after" /\ chain.mode = "postprocess" /\ phase' = "failed"
      /\ data' = given[Len(given)].was /\ UNCHANGED <<chain, toolAt, given, results>>
  BY DEF RefuseResult
<1>2. given # <<>> /\ Unsucceeded(given[Len(given)].was)
  BY <1>1 DEF ProcessedAfter
<1>3. data' \in Datum
  BY <1>1, <1>2, RunsOfChain DEF ToolRun
<1>4. ChainShape'
  BY <1>1, <1>3 DEF ChainShape, Ended
<1>5. ProcessedBefore' /\ ProcessedAfter'
  BY <1>1, <1>2 DEF ProcessedBefore, ToolsGivenProcessed, ProcessedAfter, Unsucceeded
<1>6. NoneAhead' /\ StoppedAtFirstFailure'
  BY <1>1 DEF NoneAhead, NamesIn, StoppedAtFirstFailure, Ended
<1>. QED BY <1>4, <1>5, <1>6

(* and a tool that fails.                                                  *)
LEMMA Fails ==
  ASSUME ChainInv, Fail
  PROVE  ChainInv'
<1>. USE DEF ChainInv
<1>1. /\ phase = "failed" /\ ~Ended /\ UNCHANGED <<chain, given, data>> /\ phase' = "before"
      /\ results' = [results EXCEPT ![Name] = "error"]
      /\ toolAt' = IF chain.handling = "stop" THEN Len(chain.names) + 1 ELSE toolAt + 1
  BY DEF Fail, ChainShape
<1>3a. toolAt \in 1..Len(chain.names) /\ Len(chain.names) \in Nat
  BY <1>1, NamesOfChain DEF ChainShape, Ended
<1>3. /\ toolAt \in 1..Len(chain.names) /\ Len(chain.names) \in Nat
      /\ DOMAIN results' = DOMAIN results /\ results'[Name] = "error"
      /\ \A g \in DOMAIN given' : given'[g].tool <= toolAt
      /\ \A i \in (toolAt + 1)..Len(chain.names) :
           chain.names[i] \in NamesIn(toolAt) \/ results'[chain.names[i]] = Missing
  BY <1>1, <1>3a, SettlesResult
<1>4. ChainShape'
  BY <1>1, <1>3 DEF ChainShape
<1>5. ProcessedBefore' /\ ProcessedAfter'
  <2>1. \A n \in DOMAIN results' : results'[n] = "error" \/ results'[n] = results[n]
    BY <1>1
  <2>. QED BY <1>1, <1>3, <2>1 DEF ProcessedBefore, ToolsGivenProcessed, ProcessedAfter, Unsucceeded
<1>6. NoneAhead'
  <2>1. \A g \in DOMAIN given' : given'[g].tool \in Nat
    BY <1>1, RunsOfChain DEF ToolRun
  <2>2. (toolAt + 1) - 1 = toolAt
    BY <1>3
  <2>3. CASE chain.handling = "stop"
    BY <1>1, <1>3, <2>1, <2>3 DEF NoneAhead
  <2>4. CASE chain.handling # "stop"
    BY <1>1, <1>3, <2>1, <2>2, <2>4 DEF NoneAhead, NamesIn
  <2>. QED BY <2>3, <2>4
<1>7. StoppedAtFirstFailure'
  <2>. SUFFICES ASSUME chain.handling = "stop"
       PROVE  /\ Ended' /\ phase' = "before"
              /\ \E last \in DOMAIN chain.names :
                   /\ results'[chain.names[last]] = "error"
                   /\ \A g \in DOMAIN given' : given'[g].tool <= last
                   /\ \A i \in (last + 1)..Len(chain.names) :
                        chain.names[i] \in {chain.names[j] : j \in 1..last} \/ results'[chain.names[i]] = Missing
    BY <1>1 DEF StoppedAtFirstFailure
  <2>1. Ended'
    BY <1>1, <1>3 DEF Ended
  <2>2. toolAt \in DOMAIN chain.names /\ Name = chain.names[toolAt]
    BY <1>3, NamesOfChain DEF Name
  <2>. QED BY <1>1, <1>3, <2>1, <2>2 DEF NamesIn
<1>. QED BY <1>4, <1>5, <1>6, <1>7

(* However the tools of a chain fail and are handled: none that processing *)
(* comes before is given a text that has not had it, a result that         *)
(* processing refused goes no further, and a chain told to stop stops.     *)
THEOREM ChainModesHold == ChainSpec => []ChainsKeepTheirMode
<1>1. ChainInv /\ [ChainNext]_chainvars => ChainInv'
  <2>1. ASSUME ChainInv, UNCHANGED chainvars PROVE ChainInv'
    <3>. USE <2>1 DEF chainvars, ChainInv
    <3>1. ChainShape'
      BY DEF ChainShape, Ended
    <3>2. ProcessedBefore' /\ ProcessedAfter'
      BY DEF ProcessedBefore, ToolsGivenProcessed, ProcessedAfter, Unsucceeded
    <3>3. NoneAhead' /\ StoppedAtFirstFailure'
      BY DEF NoneAhead, NamesIn, StoppedAtFirstFailure, Ended
    <3>. QED BY <3>1, <3>2, <3>3
  <2>. QED BY <2>1, Preprocesses, RunsTool, Keeps, RefusesResult, Fails DEF ChainNext
<1>2. ChainInv => ChainsKeepTheirMode
  <2>. SUFFICES ASSUME ChainInv PROVE ChainsKeepTheirMode
    OBVIOUS
  <2>1. Ended => phase # "after"
    BY DEF ChainInv, ChainShape
  <2>2. PostprocessedUnlessAllFailed
    BY <2>1 DEF ChainInv, ProcessedAfter, Unsucceeded, PostprocessedUnlessAllFailed
  <2>. QED BY <2>2 DEF ChainInv, ProcessedBefore, ChainsKeepTheirMode
<1>. QED BY <1>1, <1>2, ChainInitInvariant, PTL DEF ChainSpec

-----------------------------------------------------------------------------
(* AnchorAdapters                                                          *)

-----------------------------------------------------------------------------
(* Tools by name                                                           *)

HeldTool == [name : STRING, base : BOOLEAN, wraps : Nat]

OneOfEachName(s) == \A i, j \in DOMAIN s : s[i].name = s[j].name => i = j

LEMMA NamesAre == ASSUME NEW s \in Seq(HeldTool) PROVE NamesOf(s) = {t.name : t \in ToSet(s)}
BY DEF NamesOf, ToSet

LEMMA NamesJoined ==
  ASSUME NEW s \in Seq(HeldTool), NEW t \in Seq(HeldTool)
  PROVE  s \o t \in Seq(HeldTool) /\ NamesOf(s \o t) = NamesOf(s) \cup NamesOf(t)
<1>1. s \o t \in Seq(HeldTool)
  OBVIOUS
<1>2. \A y : y \in ToSet(s \o t) <=> y \in ToSet(s) \/ y \in ToSet(t)
  BY JoinedMembers
<1>3. /\ NamesOf(s) = {y.name : y \in ToSet(s)} /\ NamesOf(t) = {y.name : y \in ToSet(t)}
      /\ NamesOf(s \o t) = {y.name : y \in ToSet(s \o t)}
  BY <1>1, NamesAre
<1>. QED BY <1>1, <1>2, <1>3

(* What FirstOfName joins.                                                 *)
Firsts(s) == [i \in DOMAIN s |-> IF \E j \in 1..(i - 1) : s[j].name = s[i].name THEN <<>> ELSE <<s[i]>>]

LEMMA FirstsAre ==
  ASSUME NEW s \in Seq(HeldTool)
  PROVE  /\ FirstOfName(s) = FlattenSeq(Firsts(s))
         /\ Firsts(s) \in Seq(Seq(HeldTool)) /\ Len(Firsts(s)) = Len(s)
         /\ \A i \in 1..Len(s) : Firsts(s)[i] = IF \E j \in 1..(i - 1) : s[j].name = s[i].name THEN <<>> ELSE <<s[i]>>
<1>1. /\ DOMAIN s = 1..Len(s) /\ Len(s) \in Nat /\ \A i \in 1..Len(s) : s[i] \in HeldTool
  OBVIOUS
<1>2. \A i \in 1..Len(s) : (IF \E j \in 1..(i - 1) : s[j].name = s[i].name THEN <<>> ELSE <<s[i]>>) \in Seq(HeldTool)
  BY <1>1
<1>. QED BY <1>1, <1>2 DEF FirstOfName, Firsts

(* Of the first n tools it keeps one of each name.                         *)
LEMMA FirstsDiffer ==
  ASSUME NEW s \in Seq(HeldTool)
  PROVE  OneOfEachName(FirstOfName(s))
<1>0. /\ FirstOfName(s) = FlattenSeq(Firsts(s)) /\ Firsts(s) \in Seq(Seq(HeldTool))
           /\ Len(Firsts(s)) = Len(s) /\ Len(s) \in Nat
      /\ \A i \in 1..Len(s) : Firsts(s)[i] = IF \E j \in 1..(i - 1) : s[j].name = s[i].name THEN <<>> ELSE <<s[i]>>
  BY FirstsAre
<1>. DEFINE u == Firsts(s)
            m == Len(s)
<1>. DEFINE Joined(n) == FlattenSeq(SubSeq(u, 1, n))
            Good(n) == OneOfEachName(Joined(n)) /\ \A x \in ToSet(Joined(n)) : \E j \in 1..n : x = s[j]
            B == {n \in 0..m : ~Good(n)}
<1>1. /\ FirstOfName(s) = FlattenSeq(u) /\ u \in Seq(Seq(HeldTool)) /\ Len(u) = m /\ m \in Nat
      /\ \A i \in 1..m : u[i] = IF \E j \in 1..(i - 1) : s[j].name = s[i].name THEN <<>> ELSE <<s[i]>>
  BY <1>0
<1>2. \A i \in 1..m : s[i] \in HeldTool
  OBVIOUS
<1>. HIDE DEF u, m
<1>3. B = {}
  <2>. SUFFICES ASSUME B # {} PROVE FALSE
    OBVIOUS
  <2>1. PICK n \in B : \A j \in B : n <= j
    <3>1. B \subseteq Nat
      BY <1>1
    <3>. HIDE DEF B
    <3>. QED BY <3>1, LeastNat
  <2>2. n \in Nat /\ n <= m /\ ~Good(n)
    BY <1>1, <2>1
  <2>3. n # 0
    <3>1. SubSeq(u, 1, 0) = <<>>
      BY SubSeqEmpty
    <3>2. Joined(0) = <<>>
      BY <3>1, FlatEmpty
    <3>3. Good(0)
      BY <3>2 DEF OneOfEachName, ToSet
    <3>. QED BY <2>2, <3>3
  <2>. DEFINE k == n - 1
  <2>4. k \in Nat /\ n = k + 1 /\ k < m /\ ~(n <= k) /\ n \in 1..m
    BY <1>1, <2>2, <2>3
  <2>5. Good(k)
    <3>1. k \in 0..m /\ k \notin B
      <4>. HIDE DEF B, k
      <4>. QED BY <1>1, <2>1, <2>2, <2>4
    <3>. HIDE DEF Good
    <3>. QED BY <3>1
  <2>. HIDE DEF B, k
  <2>6. SubSeq(u, 1, k) \in Seq(Seq(HeldTool)) /\ u[n] \in Seq(HeldTool)
          /\ SubSeq(u, 1, n) = Append(SubSeq(u, 1, k), u[n])
    BY <1>1, <2>4, FirstOnes
  <2>7. Joined(n) = Joined(k) \o u[n] /\ Joined(k) \in Seq(HeldTool)
    BY <2>6, FlatAppend, FlatType
  <2>8. OneOfEachName(Joined(k)) /\ \A x \in ToSet(Joined(k)) : \E j \in 1..k : x = s[j]
    BY <2>5
  <2>. HIDE DEF Joined
  <2>9. CASE u[n] = <<>>
    <3>1. Joined(n) = Joined(k)
      BY <2>7, <2>9
    <3>2. \A j \in 1..k : j \in 1..n
      BY <2>4
    <3>. QED BY <2>2, <2>8, <3>1, <3>2
  <2>10. CASE u[n] # <<>>
    <3>1. u[n] = <<s[n]>> /\ \A j \in 1..k : s[j].name # s[n].name
      <4>1. u[n] = IF \E j \in 1..(n - 1) : s[j].name = s[n].name THEN <<>> ELSE <<s[n]>>
        BY <1>1, <2>4
      <4>2. n - 1 = k
        BY <2>4
      <4>. QED BY <2>10, <4>1, <4>2
    <3>. DEFINE l == Len(Joined(k))
    <3>2. l \in Nat /\ l + 1 \in 1..(l + 1) /\ \A i \in 1..l : i \in 1..(l + 1) /\ i # l + 1
      BY <2>7
    <3>3. /\ DOMAIN Joined(n) = 1..(l + 1) /\ Joined(n)[l + 1] = s[n]
          /\ \A i \in 1..l : Joined(n)[i] = Joined(k)[i]
      BY <1>2, <2>4, <2>7, <3>1
    <3>4. DOMAIN Joined(k) = 1..l /\ \A i \in 1..l : Joined(k)[i] \in ToSet(Joined(k))
      BY <2>7 DEF ToSet
    <3>. HIDE DEF l
    <3>5. \A i \in 1..l : \E j \in 1..k : Joined(n)[i] = s[j]
      BY <2>8, <3>3, <3>4
    <3>6. \A i \in 1..l : Joined(n)[i].name # Joined(n)[l + 1].name
      BY <3>1, <3>3, <3>5
    <3>7. OneOfEachName(Joined(n))
      <4>1. \A i, j \in 1..l : Joined(n)[i].name = Joined(n)[j].name => i = j
        BY <2>8, <3>3, <3>4 DEF OneOfEachName
      <4>2. \A i \in 1..(l + 1) : i \in 1..l \/ i = l + 1
        BY <3>2
      <4>. QED BY <3>3, <3>6, <4>1, <4>2 DEF OneOfEachName
    <3>8. \A x \in ToSet(Joined(n)) : \E j \in 1..n : x = s[j]
      <4>1. (\A j \in 1..k : j \in 1..n) /\ n \in 1..n /\ \A i \in 1..(l + 1) : i \in 1..l \/ i = l + 1
        BY <2>4, <3>2
      <4>. QED BY <3>3, <3>5, <4>1 DEF ToSet
    <3>. QED BY <2>2, <3>7, <3>8
  <2>. QED BY <2>9, <2>10
<1>4. Good(m)
  <2>1. m \in 0..m
    BY <1>1
  <2>. HIDE DEF Good
  <2>. QED BY <1>3, <2>1
<1>5. SubSeq(u, 1, m) = u
  BY <1>1, SubSeqFull
<1>. QED BY <1>1, <1>4, <1>5

(* It keeps every name, of each one of its tools.                          *)
LEMMA FirstOfNameKeeps ==
  ASSUME NEW s \in Seq(HeldTool)
  PROVE  /\ FirstOfName(s) \in Seq(HeldTool) /\ ToSet(FirstOfName(s)) \subseteq ToSet(s)
         /\ NamesOf(FirstOfName(s)) = NamesOf(s) /\ OneOfEachName(FirstOfName(s))
<1>. DEFINE u == Firsts(s)
            r == FirstOfName(s)
            m == Len(s)
<1>1. /\ r = FlattenSeq(u) /\ u \in Seq(Seq(HeldTool)) /\ Len(u) = m /\ m \in Nat
      /\ \A i \in 1..m : u[i] = IF \E j \in 1..(i - 1) : s[j].name = s[i].name THEN <<>> ELSE <<s[i]>>
  BY FirstsAre
<1>2. DOMAIN s = 1..m /\ \A i \in 1..m : s[i] \in HeldTool
  OBVIOUS
<1>3. r \in Seq(HeldTool) /\ \A x : x \in ToSet(r) <=> \E i \in 1..m : x \in ToSet(u[i])
  BY <1>1, FlatType, FlatHolds
<1>. HIDE DEF u, r, m
<1>4. ToSet(r) \subseteq ToSet(s)
  <2>1. \A i \in 1..m : ToSet(u[i]) \subseteq {s[i]}
    BY <1>1, SMTT(30) DEF ToSet
  <2>2. \A i \in 1..m : s[i] \in ToSet(s)
    BY <1>2 DEF ToSet
  <2>3. ASSUME NEW x \in ToSet(r) PROVE x \in ToSet(s)
    <3>1. PICK i \in 1..m : x \in ToSet(u[i])
      BY <1>3
    <3>. QED BY <2>1, <2>2, <3>1
  <2>. QED BY <2>3
<1>5. ASSUME NEW i \in 1..m PROVE \E x \in ToSet(r) : x.name = s[i].name
  <2>. DEFINE S == {j \in 1..m : s[j].name = s[i].name}
  <2>1. S \subseteq Nat /\ S # {}
    BY <1>1
  <2>. HIDE DEF S
  <2>2. PICK j \in S : \A k \in S : j <= k
    BY <2>1, LeastNat
  <2>3. j \in 1..m /\ s[j].name = s[i].name
    BY <2>2 DEF S
  <2>4. ~ \E k \in 1..(j - 1) : s[k].name = s[j].name
    <3>1. \A k \in 1..(j - 1) : k \in 1..m /\ ~(j <= k)
      BY <1>1, <2>3
    <3>. QED BY <2>2, <2>3, <3>1 DEF S
  <2>5. s[j] \in ToSet(u[j])
    BY <1>1, <2>3, <2>4, SMTT(30) DEF ToSet
  <2>. QED BY <1>3, <2>3, <2>5
<1>6. NamesOf(r) = {x.name : x \in ToSet(r)} /\ NamesOf(s) = {x.name : x \in ToSet(s)}
  BY <1>3, NamesAre
<1>7. ToSet(s) = {s[i] : i \in 1..m}
  BY <1>2 DEF ToSet
<1>8. NamesOf(r) = NamesOf(s)
  BY <1>4, <1>5, <1>6, <1>7
<1>. QED BY <1>3, <1>4, <1>8, FirstsDiffer DEF r

-----------------------------------------------------------------------------
(* What a part and the first of its links yield, link by link: a visit     *)
(* goes through n of the links.                                            *)
Follows(part, links, seen, from, n, a) ==
  a = [i \in 0..n |->
        IF i = 0 THEN [found |-> ToolsAt(part), seen |-> seen \cup {part}]
        ELSE LET so    == a[i - 1]
                 below == from[so.seen][links[i].to]
             IN [found |-> so.found \o below.found, seen |-> below.seen]]

(* What it is after a link.                                                *)
After(so, below) == [found |-> so.found \o below.found, seen |-> below.seen]

LinkByLink(p, links, seen, f, n, a) ==
  /\ DOMAIN a = 0..n /\ a[0] = [found |-> ToolsAt(p), seen |-> seen \cup {p}]
  /\ \A i \in 1..n : a[i] = After(a[i - 1], f[a[i - 1].seen][links[i].to])

LEMMA FollowsStep ==
  ASSUME NEW p, NEW links, NEW seen, NEW f, NEW n \in Nat, NEW a, Follows(p, links, seen, f, n, a)
  PROVE  LinkByLink(p, links, seen, f, n, a)
<1>1. 0 \in 0..n /\ \A i \in 1..n : i \in 0..n /\ i # 0
  OBVIOUS
<1>2. DOMAIN a = 0..n /\ \A i \in 0..n :
        a[i] = IF i = 0 THEN [found |-> ToolsAt(p), seen |-> seen \cup {p}]
               ELSE After(a[i - 1], f[a[i - 1].seen][links[i].to])
  BY DEF Follows, After
<1>. QED BY <1>1, <1>2 DEF LinkByLink

(* Any number of links can be followed.                                    *)
LEMMA FollowsExist ==
  ASSUME NEW p, NEW links, NEW seen, NEW f, NEW n \in Nat
  PROVE  \E a : Follows(p, links, seen, f, n, a)
<1>. DEFINE B == {k \in Nat : ~ \E a : Follows(p, links, seen, f, k, a)}
<1>. SUFFICES ASSUME B # {} PROVE FALSE
  OBVIOUS
<1>1. PICK m \in B : \A k \in B : m <= k
  <2>1. B \subseteq Nat
    OBVIOUS
  <2>. HIDE DEF B
  <2>. QED BY <2>1, LeastNat
<1>2. m # 0
  <2>. DEFINE a == [i \in {0} |-> [found |-> ToolsAt(p), seen |-> seen \cup {p}]]
  <2>1. Follows(p, links, seen, f, 0, a)
    <3>1. 0..0 = {0}
      OBVIOUS
    <3>. QED BY <3>1 DEF Follows
  <2>. QED BY <1>1, <2>1
<1>. DEFINE j == m - 1
<1>3. j \in Nat /\ m = j + 1 /\ m \in Nat /\ ~(m <= j)
  BY <1>1, <1>2
<1>4. PICK a : Follows(p, links, seen, f, j, a)
  BY <1>1, <1>3
<1>. HIDE DEF j, B
<1>9. LinkByLink(p, links, seen, f, j, a)
  BY <1>3, <1>4, FollowsStep
<1>5. /\ DOMAIN a = 0..j /\ a[0] = [found |-> ToolsAt(p), seen |-> seen \cup {p}]
      /\ \A i \in 1..j : a[i] = After(a[i - 1], f[a[i - 1].seen][links[i].to])
  BY <1>9 DEF LinkByLink
<1>. DEFINE c == [i \in 0..m |-> IF i <= j THEN a[i] ELSE After(a[j], f[a[j].seen][links[m].to])]
<1>6. /\ DOMAIN c = 0..m /\ c = [i \in 0..m |-> c[i]]
      /\ \A i \in 0..j : c[i] = a[i]
      /\ c[m] = After(a[j], f[a[j].seen][links[m].to])
  <2>1. \A i \in 0..j : i \in 0..m /\ i <= j
    BY <1>3
  <2>2. m \in 0..m /\ ~(m <= j)
    BY <1>3
  <2>. QED BY <2>1, <2>2
<1>. HIDE DEF c
<1>7. \A i \in 0..m : c[i] = IF i = 0 THEN [found |-> ToolsAt(p), seen |-> seen \cup {p}]
                             ELSE After(c[i - 1], f[c[i - 1].seen][links[i].to])
  <2>. TAKE i \in 0..m
  <2>1. CASE i = 0
    <3>1. 0 \in 0..j
      BY <1>3
    <3>. QED BY <1>5, <1>6, <2>1, <3>1
  <2>2. CASE i = m
    <3>1. i - 1 = j /\ j \in 0..j /\ i # 0
      BY <1>3, <2>2
    <3>. QED BY <1>6, <2>2, <3>1
  <2>3. CASE i # 0 /\ i # m
    <3>1. i \in 1..j /\ i \in 0..j /\ i - 1 \in 0..j
      BY <1>3, <2>3
    <3>. QED BY <1>5, <1>6, <2>3, <3>1
  <2>. QED BY <2>1, <2>2, <2>3
<1>8. Follows(p, links, seen, f, m, c)
  <2>1. \A i \in 0..m : After(c[i - 1], f[c[i - 1].seen][links[i].to]) =
          LET so    == c[i - 1]
              below == f[so.seen][links[i].to]
          IN [found |-> so.found \o below.found, seen |-> below.seen]
    BY DEF After
  <2>. QED BY <1>6, <1>7, <2>1 DEF Follows
<1>. QED BY <1>1, <1>8 DEF B

LEMMA VisitFollows ==
  ASSUME NEW p, NEW links, Len(links) \in Nat, NEW seen, NEW f
  PROVE  Follows(p, links, seen, f, Len(links), Visit(p, links, seen, f))
<1>. DEFINE n == Len(links)
<1>1. \E a : Follows(p, links, seen, f, n, a)
  BY FollowsExist
<1>. QED BY <1>1 DEF Visit, Follows

(* A visit, link by link.                                                  *)
LEMMA VisitIs ==
  ASSUME NEW p, NEW links, Len(links) \in Nat, NEW seen, NEW f
  PROVE  LinkByLink(p, links, seen, f, Len(links), Visit(p, links, seen, f))
BY VisitFollows, FollowsStep

-----------------------------------------------------------------------------
(* From u on, what discovering from a part adds to the parts seen.         *)
Grows(f, u) ==
  \A q \in Part, t \in SUBSET Part : u \subseteq t => f[t][q].seen \in SUBSET Part /\ t \subseteq f[t][q].seen

(* A visit has seen the part, and forgets no part it saw.                  *)
LEMMA VisitGrows ==
  ASSUME NEW p \in Part, NEW links \in Seq(Link), NEW seen \in SUBSET Part, NEW f, Grows(f, seen \cup {p}),
         NEW a, LinkByLink(p, links, seen, f, Len(links), a)
  PROVE  \A i \in 0..Len(links) : a[i].seen \in SUBSET Part /\ seen \cup {p} \subseteq a[i].seen
<1>. DEFINE u == seen \cup {p}
            n == Len(links)
            B == {i \in 0..n : ~(a[i].seen \in SUBSET Part /\ u \subseteq a[i].seen)}
<1>. SUFFICES ASSUME B # {} PROVE FALSE
  OBVIOUS
<1>1. /\ a[0].seen = u /\ u \in SUBSET Part /\ n \in Nat /\ Grows(f, u) /\ \A i \in 1..n : links[i].to \in Part
      /\ \A i \in 1..n : a[i].seen = f[a[i - 1].seen][links[i].to].seen
  <2>1. LinkByLink(p, links, seen, f, n, a) /\ Grows(f, u) /\ u \in SUBSET Part
    OBVIOUS
  <2>2. n \in Nat /\ \A i \in 1..n : links[i] \in Link
    OBVIOUS
  <2>. HIDE DEF n
  <2>3. \A i \in 1..n : links[i].to \in Part
    BY <2>2 DEF Link
  <2>4. a[0].seen = u
    BY <2>1 DEF LinkByLink
  <2>5. \A i \in 1..n : a[i].seen = f[a[i - 1].seen][links[i].to].seen
    <3>1. \A i \in 1..n : a[i] = After(a[i - 1], f[a[i - 1].seen][links[i].to])
      BY <2>1 DEF LinkByLink
    <3>2. \A x, y : After(x, y).seen = y.seen
      BY DEF After
    <3>. QED BY <3>1, <3>2
  <2>. QED BY <2>1, <2>2, <2>3, <2>4, <2>5
<1>2. PICK i \in B : \A k \in B : i <= k
  <2>1. B \subseteq Nat
    OBVIOUS
  <2>. HIDE DEF B
  <2>. QED BY <2>1, LeastNat
<1>3. i \in 0..n /\ ~(a[i].seen \in SUBSET Part /\ u \subseteq a[i].seen)
  BY <1>2
<1>. HIDE DEF u, n
<1>4. i # 0
  BY <1>1, <1>3
<1>5. i \in 1..n /\ i - 1 \in 0..n /\ ~(i <= i - 1)
  BY <1>1, <1>3, <1>4
<1>6. a[i - 1].seen \in SUBSET Part /\ u \subseteq a[i - 1].seen
  BY <1>2, <1>5
<1>. HIDE DEF B
<1>7. links[i].to \in Part /\ a[i].seen = f[a[i - 1].seen][links[i].to].seen
  BY <1>1, <1>5
<1>8. a[i].seen \in SUBSET Part /\ u \subseteq a[i].seen
  BY <1>1, <1>6, <1>7, SMTT(30) DEF Grows
<1>. QED BY <1>3, <1>8

AgreeFrom(f, g, u) == \A q \in Part, t \in SUBSET Part : u \subseteq t => f[t][q] = g[t][q]

(* A visit reads no more of what can be discovered than lies above what it *)
(* has seen.                                                               *)
LEMMA VisitsAgree ==
  ASSUME NEW p \in Part, NEW links \in Seq(Link), NEW seen \in SUBSET Part, NEW f, Grows(f, seen \cup {p}), NEW g,
         AgreeFrom(f, g, seen \cup {p}),
         NEW a, LinkByLink(p, links, seen, f, Len(links), a), NEW c, LinkByLink(p, links, seen, g, Len(links), c)
  PROVE  a[Len(links)] = c[Len(links)]
<1>. DEFINE u == seen \cup {p}
            n == Len(links)
            B == {i \in 0..n : a[i] # c[i]}
<1>1. /\ \A i \in 0..n : a[i].seen \in SUBSET Part /\ u \subseteq a[i].seen
      /\ n \in Nat /\ \A i \in 1..n : links[i].to \in Part
  <2>1. \A i \in 0..n : a[i].seen \in SUBSET Part /\ u \subseteq a[i].seen
    BY VisitGrows
  <2>2. n \in Nat /\ \A i \in 1..n : links[i] \in Link
    OBVIOUS
  <2>. HIDE DEF n
  <2>3. \A i \in 1..n : links[i].to \in Part
    BY <2>2 DEF Link
  <2>. QED BY <2>1, <2>2, <2>3
<1>2. /\ a[0] = c[0]
      /\ \A i \in 1..n : a[i] = After(a[i - 1], f[a[i - 1].seen][links[i].to])
      /\ \A i \in 1..n : c[i] = After(c[i - 1], g[c[i - 1].seen][links[i].to])
  BY DEF LinkByLink
<1>3. \A q \in Part, t \in SUBSET Part : u \subseteq t => f[t][q] = g[t][q]
  BY DEF AgreeFrom
<1>4. ASSUME B # {} PROVE FALSE
  <2>1. PICK i \in B : \A k \in B : i <= k
    <3>1. B \subseteq Nat
      OBVIOUS
    <3>. HIDE DEF B
    <3>. QED BY <1>4, <3>1, LeastNat
  <2>2. i \in 0..n /\ a[i] # c[i]
    BY <2>1
  <2>. HIDE DEF n, u
  <2>3. i # 0
    BY <1>2, <2>2
  <2>4. i \in 1..n /\ i - 1 \in 0..n /\ ~(i <= i - 1)
    BY <1>1, <2>2, <2>3
  <2>5. a[i - 1] = c[i - 1]
    BY <2>1, <2>4
  <2>. HIDE DEF B
  <2>6. f[a[i - 1].seen][links[i].to] = g[a[i - 1].seen][links[i].to]
    BY <1>1, <1>3, <2>4
  <2>7. a[i] = c[i]
    BY <1>2, <2>4, <2>5, <2>6
  <2>. QED BY <2>2, <2>7
<1>5. n \in 0..n
  BY <1>1
<1>. HIDE DEF n
<1>6. a[n] = c[n]
  BY <1>4, <1>5
<1>. QED BY <1>6 DEF n

-----------------------------------------------------------------------------
(* One more round of discovery.                                            *)
Round(f) ==
  [seen \in SUBSET Part |->
     [p \in Part |->
        IF p \in seen THEN [found |-> <<>>, seen |-> seen]
        ELSE LET all == Visit(p, agent.links[p], seen, f)[Len(agent.links[p])]
             IN [found |-> FirstOfName(all.found), seen |-> all.seen]]]

LinksAreLinks == agent.links \in [Part -> Seq(Link)]

RoundAt(f, p, t) ==
  /\ p \in t => Round(f)[t][p] = [found |-> <<>>, seen |-> t]
  /\ p \notin t => \E a : /\ LinkByLink(p, agent.links[p], t, f, Len(agent.links[p]), a)
                          /\ Round(f)[t][p] = [found |-> FirstOfName(a[Len(agent.links[p])].found),
                                              seen  |-> a[Len(agent.links[p])].seen]

LEMMA RoundIs ==
  ASSUME LinksAreLinks, NEW f, NEW p \in Part, NEW t \in SUBSET Part
  PROVE  RoundAt(f, p, t)
<1>1. CASE p \in t
  <2>1. Round(f)[t][p] = [found |-> <<>>, seen |-> t]
    BY <1>1 DEF Round
  <2>. QED BY <1>1, <2>1 DEF RoundAt
<1>2. CASE p \notin t
  <2>. DEFINE l == agent.links[p]
              a == Visit(p, l, t, f)
  <2>1. Round(f)[t][p] = [found |-> FirstOfName(a[Len(l)].found), seen |-> a[Len(l)].seen]
    BY <1>2 DEF Round
  <2>2. Len(l) \in Nat
    BY DEF LinksAreLinks
  <2>3. LinkByLink(p, l, t, f, Len(l), a)
    <3>. HIDE DEF l
    <3>. QED BY <2>2, VisitIs
  <2>. HIDE DEF a
  <2>. QED BY <1>2, <2>1, <2>3 DEF RoundAt
<1>. QED BY <1>1, <1>2

-----------------------------------------------------------------------------
(* A round from what grows grows.                                          *)
LEMMA RoundGrows ==
  ASSUME LinksAreLinks, NEW f, Grows(f, {})
  PROVE  Grows(Round(f), {})
<1>. SUFFICES ASSUME NEW p \in Part, NEW t \in SUBSET Part
              PROVE  Round(f)[t][p].seen \in SUBSET Part /\ t \subseteq Round(f)[t][p].seen
  BY DEF Grows
<1>1. RoundAt(f, p, t)
  BY RoundIs
<1>2. CASE p \in t
  BY <1>1, <1>2 DEF RoundAt
<1>3. CASE p \notin t
  <2>. DEFINE l == agent.links[p]
  <2>1. PICK a : /\ LinkByLink(p, l, t, f, Len(l), a)
                 /\ Round(f)[t][p] = [found |-> FirstOfName(a[Len(l)].found), seen |-> a[Len(l)].seen]
    BY <1>1, <1>3 DEF RoundAt
  <2>2. l \in Seq(Link) /\ Len(l) \in 0..Len(l)
    <3>1. l \in Seq(Link)
      BY DEF LinksAreLinks
    <3>. QED BY <3>1
  <2>3. Grows(f, t \cup {p})
    BY DEF Grows
  <2>. HIDE DEF l
  <2>4. a[Len(l)].seen \in SUBSET Part /\ t \cup {p} \subseteq a[Len(l)].seen
    BY <2>1, <2>2, <2>3, VisitGrows
  <2>. QED BY <2>1, <2>4
<1>. QED BY <1>2, <1>3

(* The same wherever fewer than k parts are left to see.                   *)
SameFor(f, g, k) == \A q \in Part, t \in SUBSET Part : Cardinality(Part \ t) < k => f[t][q] = g[t][q]

LEMMA FewerLeft ==
  ASSUME NEW p \in Part, NEW t \in SUBSET Part, p \notin t, NEW w \in SUBSET Part, t \cup {p} \subseteq w
  PROVE  /\ Cardinality(Part \ t) \in Nat /\ Cardinality(Part \ w) \in Nat
         /\ Cardinality(Part \ w) < Cardinality(Part \ t)
<1>1. IsFiniteSet(Part)
  <2>1. IsFiniteSet({"root"}) /\ IsFiniteSet({"child"}) /\ IsFiniteSet({"node"})
    BY FS_Singleton
  <2>2. Part = ({"root"} \cup {"child"}) \cup {"node"}
    BY DEF Part
  <2>. QED BY <2>1, <2>2, FS_Union
<1>2. IsFiniteSet(Part \ t)
  BY <1>1, FS_Subset
<1>3. Part \ w \in SUBSET (Part \ t) /\ Part \ w # Part \ t
  OBVIOUS
<1>. QED BY <1>2, <1>3, FS_Subset, FS_CardinalityType

LEMMA RoundsAgree ==
  ASSUME LinksAreLinks, NEW f, Grows(f, {}), NEW g, NEW k \in Nat, SameFor(f, g, k)
  PROVE  SameFor(Round(f), Round(g), k + 1)
<1>. SUFFICES ASSUME NEW p \in Part, NEW t \in SUBSET Part, Cardinality(Part \ t) < k + 1
              PROVE  Round(f)[t][p] = Round(g)[t][p]
  BY DEF SameFor
<1>1. RoundAt(f, p, t) /\ RoundAt(g, p, t)
  BY RoundIs
<1>2. CASE p \in t
  BY <1>1, <1>2 DEF RoundAt
<1>3. CASE p \notin t
  <2>. DEFINE l == agent.links[p]
  <2>1. PICK a : /\ LinkByLink(p, l, t, f, Len(l), a)
                 /\ Round(f)[t][p] = [found |-> FirstOfName(a[Len(l)].found), seen |-> a[Len(l)].seen]
    BY <1>1, <1>3 DEF RoundAt
  <2>2. PICK c : /\ LinkByLink(p, l, t, g, Len(l), c)
                 /\ Round(g)[t][p] = [found |-> FirstOfName(c[Len(l)].found), seen |-> c[Len(l)].seen]
    BY <1>1, <1>3 DEF RoundAt
  <2>3. l \in Seq(Link)
    BY DEF LinksAreLinks
  <2>4. Grows(f, t \cup {p})
    BY DEF Grows
  <2>5. ASSUME NEW q \in Part, NEW w \in SUBSET Part, t \cup {p} \subseteq w PROVE f[w][q] = g[w][q]
    <3>1. Cardinality(Part \ w) < k
      <4>1. /\ Cardinality(Part \ t) \in Nat /\ Cardinality(Part \ w) \in Nat
            /\ Cardinality(Part \ w) < Cardinality(Part \ t)
        BY <1>3, <2>5, FewerLeft
      <4>. QED BY <4>1
    <3>. QED BY <3>1 DEF SameFor
  <2>. HIDE DEF l
  <2>6. AgreeFrom(f, g, t \cup {p})
    BY <2>5 DEF AgreeFrom
  <2>7. a[Len(l)] = c[Len(l)]
    BY <2>1, <2>2, <2>3, <2>4, <2>6, VisitsAgree
  <2>. QED BY <2>1, <2>2, <2>7
<1>. QED BY <1>2, <1>3

LEMMA RoundTable ==
  ASSUME NEW f
  PROVE  Round(f) = [t \in SUBSET Part |-> [q \in Part |-> Round(f)[t][q]]]
<1>. DEFINE e(t, q) == IF q \in t THEN [found |-> <<>>, seen |-> t]
                      ELSE LET all == Visit(q, agent.links[q], t, f)[Len(agent.links[q])]
                           IN [found |-> FirstOfName(all.found), seen |-> all.seen]
<1>1. Round(f) = [t \in SUBSET Part |-> [q \in Part |-> e(t, q)]]
  BY DEF Round
<1>. HIDE DEF e
<1>2. \A t \in SUBSET Part : [q \in Part |-> e(t, q)] = [q \in Part |-> Round(f)[t][q]]
  BY <1>1
<1>. QED BY <1>1, <1>2

(* Discovery comes to an end: as there are three parts, four rounds        *)
(* discover all there is.                                                  *)
LEMMA DiscoverFromIs ==
  ASSUME LinksAreLinks
  PROVE  DiscoverFrom = Round(DiscoverFrom)
<1>1. \E f : f = Round(f)
  <2>. DEFINE f0 == [t \in SUBSET Part |-> [q \in Part |-> [found |-> <<>>, seen |-> t]]]
              f1 == Round(f0)
              f2 == Round(f1)
              f3 == Round(f2)
              f4 == Round(f3)
              f5 == Round(f4)
  <2>1. Grows(f0, {})
    BY DEF Grows
  <2>2. SameFor(f0, f1, 0)
    <3>1. \A t \in SUBSET Part : Cardinality(Part \ t) \in Nat
      <4>1. IsFiniteSet(Part)
        <5>1. IsFiniteSet({"root"}) /\ IsFiniteSet({"child"}) /\ IsFiniteSet({"node"})
          BY FS_Singleton
        <5>2. Part = ({"root"} \cup {"child"}) \cup {"node"}
          BY DEF Part
        <5>. QED BY <5>1, <5>2, FS_Union
      <4>. QED BY <4>1, FS_Subset, FS_CardinalityType
    <3>2. \A t \in SUBSET Part : ~(Cardinality(Part \ t) < 0)
      BY <3>1
    <3>. QED BY <3>2 DEF SameFor
  <2>. HIDE DEF f0
  <2>3. Grows(f1, {}) /\ SameFor(f1, f2, 1)
    <3>1. Grows(f1, {})
      BY <2>1, RoundGrows
    <3>2. SameFor(f1, f2, 0 + 1)
      <4>. HIDE DEF f1
      <4>1. SameFor(Round(f0), Round(f1), 0 + 1)
        BY <2>1, <2>2, RoundsAgree
      <4>. QED BY <4>1 DEF f1
    <3>. QED BY <3>1, <3>2
  <2>. HIDE DEF f1
  <2>4. Grows(f2, {}) /\ SameFor(f2, f3, 2)
    <3>1. Grows(f2, {})
      BY <2>3, RoundGrows
    <3>2. SameFor(f2, f3, 1 + 1)
      <4>. HIDE DEF f2
      <4>1. SameFor(Round(f1), Round(f2), 1 + 1)
        BY <2>3, RoundsAgree
      <4>. QED BY <4>1 DEF f2
    <3>. QED BY <3>1, <3>2
  <2>. HIDE DEF f2
  <2>5. Grows(f3, {}) /\ SameFor(f3, f4, 3)
    <3>1. Grows(f3, {})
      BY <2>4, RoundGrows
    <3>2. SameFor(f3, f4, 2 + 1)
      <4>. HIDE DEF f3
      <4>1. SameFor(Round(f2), Round(f3), 2 + 1)
        BY <2>4, RoundsAgree
      <4>. QED BY <4>1 DEF f3
    <3>. QED BY <3>1, <3>2
  <2>. HIDE DEF f3
  <2>6. SameFor(f4, f5, 4)
    <3>. HIDE DEF f4
    <3>1. SameFor(Round(f3), Round(f4), 3 + 1)
      BY <2>5, RoundsAgree
    <3>. QED BY <3>1 DEF f4
  <2>. HIDE DEF f4
  <2>7. f4 = Round(f4)
    <3>1. \A t \in SUBSET Part : Cardinality(Part \ t) < 4
      <4>1. Cardinality(Part) <= 3 /\ IsFiniteSet(Part)
        <5>1. /\ IsFiniteSet({"root"}) /\ IsFiniteSet({"child"}) /\ IsFiniteSet({"node"})
              /\ Cardinality({"root"}) = 1 /\ Cardinality({"child"}) = 1 /\ Cardinality({"node"}) = 1
          BY FS_Singleton
        <5>. DEFINE S == {"root"} \cup {"child"}
        <5>2. /\ IsFiniteSet(S)
                   /\ Cardinality(S) = Cardinality({"root"}) + Cardinality({"child"}) - Cardinality({"root"} \cap {"child"})
              /\ Part = S \cup {"node"}
          BY <5>1, FS_Union DEF Part
        <5>3. Cardinality({"root"} \cap {"child"}) = 0
          BY FS_EmptySet
        <5>4. Cardinality(S) = 2
          BY <5>1, <5>2, <5>3
        <5>5. Cardinality(S \cap {"node"}) = 0
          BY FS_EmptySet
        <5>. HIDE DEF S
        <5>6. /\ IsFiniteSet(S \cup {"node"})
              /\ Cardinality(S \cup {"node"}) = Cardinality(S) + Cardinality({"node"}) - Cardinality(S \cap {"node"})
          BY <5>1, <5>2, FS_Union
        <5>. QED BY <5>1, <5>2, <5>4, <5>5, <5>6
      <4>2. \A t \in SUBSET Part : Cardinality(Part \ t) <= Cardinality(Part)
              /\ Cardinality(Part \ t) \in Nat /\ Cardinality(Part) \in Nat
        BY <4>1, FS_Subset, FS_CardinalityType
      <4>. QED BY <4>1, <4>2
    <3>2. \A t \in SUBSET Part : \A q \in Part : f4[t][q] = f5[t][q]
      BY <2>6, <3>1 DEF SameFor
    <3>3. /\ f4 = [t \in SUBSET Part |-> [q \in Part |-> f4[t][q]]]
          /\ f5 = [t \in SUBSET Part |-> [q \in Part |-> f5[t][q]]]
      BY RoundTable DEF f4
    <3>. HIDE DEF f5
    <3>4. \A t \in SUBSET Part : [q \in Part |-> f4[t][q]] = [q \in Part |-> f5[t][q]]
      BY <3>2
    <3>5. [t \in SUBSET Part |-> [q \in Part |-> f4[t][q]]] = [t \in SUBSET Part |-> [q \in Part |-> f5[t][q]]]
      BY <3>4
    <3>6. f4 = f5
      BY <3>3, <3>5
    <3>. QED BY <3>6 DEF f5
  <2>. QED BY <2>7
<1>. QED BY <1>1 DEF DiscoverFrom, Round

-----------------------------------------------------------------------------
(* What is found                                                           *)

Linked(S) == \A q \in S : \A i \in DOMAIN agent.links[q] : agent.links[q][i].to \in S
Reached(p) == {q \in Part : \A S \in SUBSET Part : p \in S /\ Linked(S) => q \in S}
AllTools == UNION {ToSet(ToolsAt(q)) : q \in Part}
NamesAt(S) == UNION {NamesOf(ToolsAt(q)) : q \in S}

ToolsTyped == \A q \in Part : ToolsAt(q) \in Seq(HeldTool)

(* What is found from p, of what is not in t: the parts that can be        *)
(* reached, and one of their tools of each name.                           *)
FoundFrom(p, t, r) ==
  /\ r.seen \in SUBSET Part /\ t \cup {p} \subseteq r.seen
  /\ \A q \in r.seen \ t : \A i \in DOMAIN agent.links[q] : agent.links[q][i].to \in r.seen
  /\ r.seen \ t \subseteq Reached(p)
  /\ r.found \in Seq(HeldTool) /\ OneOfEachName(r.found) /\ ToSet(r.found) \subseteq AllTools
  /\ NamesOf(r.found) = NamesAt(r.seen \ t)

FindsFrom(f, u) == \A q \in Part, w \in SUBSET Part : u \subseteq w => FoundFrom(q, w, f[w][q])

(* A visit that went through i links.                                      *)
Visited(p, t, i, x) ==
  /\ x.seen \in SUBSET Part /\ t \cup {p} \subseteq x.seen
  /\ \A j \in 1..i : agent.links[p][j].to \in x.seen
  /\ \A q \in x.seen \ (t \cup {p}) : \A j \in DOMAIN agent.links[q] : agent.links[q][j].to \in x.seen
  /\ x.seen \ t \subseteq Reached(p)
  /\ x.found \in Seq(HeldTool) /\ ToSet(x.found) \subseteq AllTools
  /\ NamesOf(x.found) = NamesAt(x.seen \ t)

LEMMA ReachedOn ==
  ASSUME LinksAreLinks, NEW p \in Part, NEW i \in DOMAIN agent.links[p], NEW l \in Part, l = agent.links[p][i].to
  PROVE  Reached(l) \subseteq Reached(p)
BY DEF Reached, Linked

LEMMA VisitBegins ==
  ASSUME ToolsTyped, NEW p \in Part, NEW t \in SUBSET Part, p \notin t, NEW x,
         x = [found |-> ToolsAt(p), seen |-> t \cup {p}]
  PROVE  Visited(p, t, 0, x)
<1>1. x.seen \in SUBSET Part /\ t \cup {p} \subseteq x.seen /\ x.seen \ t = {p} /\ x.found = ToolsAt(p)
        /\ x.seen = t \cup {p}
  OBVIOUS
<1>2. ToolsAt(p) \in Seq(HeldTool) /\ ToSet(ToolsAt(p)) \subseteq AllTools
  BY DEF ToolsTyped, AllTools
<1>3. NamesAt({p}) = NamesOf(ToolsAt(p))
  BY DEF NamesAt
<1>4. p \in Reached(p)
  BY DEF Reached
<1>5. 1..0 = {}
  OBVIOUS
<1>. HIDE DEF HeldTool
<1>. QED BY <1>1, <1>2, <1>3, <1>4, <1>5 DEF Visited

LEMMA VisitGoesOn ==
  ASSUME LinksAreLinks, NEW p \in Part, NEW t \in SUBSET Part, NEW i \in 1..Len(agent.links[p]),
         NEW x, Visited(p, t, i - 1, x), NEW l \in Part, l = agent.links[p][i].to, NEW r, FoundFrom(l, x.seen, r),
         NEW y, y = After(x, r)
  PROVE  Visited(p, t, i, y)
<1>1. y.found = x.found \o r.found /\ y.seen = r.seen
  BY DEF After
<1>2. x.seen \subseteq r.seen /\ r.seen \in SUBSET Part /\ t \cup {p} \subseteq x.seen /\ l \in r.seen
  BY DEF FoundFrom, Visited
<1>3. \A j \in 1..i : agent.links[p][j].to \in y.seen
  <2>1. \A j \in 1..i : j = i \/ j \in 1..(i - 1)
    <3>1. Len(agent.links[p]) \in Nat
      BY DEF LinksAreLinks
    <3>. QED BY <3>1
  <2>2. \A j \in 1..(i - 1) : agent.links[p][j].to \in x.seen
    BY DEF Visited
  <2>. QED BY <1>1, <1>2, <2>1, <2>2
<1>4. ASSUME NEW q \in y.seen \ (t \cup {p}), NEW j \in DOMAIN agent.links[q]
      PROVE agent.links[q][j].to \in y.seen
  <2>1. CASE q \in x.seen
    <3>1. agent.links[q][j].to \in x.seen
      BY <1>4, <2>1 DEF Visited
    <3>. QED BY <1>1, <1>2, <3>1
  <2>2. CASE q \notin x.seen
    <3>1. q \in r.seen \ x.seen
      BY <1>1, <1>4, <2>2
    <3>2. agent.links[q][j].to \in r.seen
      BY <1>4, <3>1 DEF FoundFrom
    <3>. QED BY <1>1, <3>2
  <2>. QED BY <2>1, <2>2
<1>5. y.seen \ t \subseteq Reached(p)
  <2>1. Reached(l) \subseteq Reached(p)
    <3>1. i \in DOMAIN agent.links[p]
      BY DEF LinksAreLinks
    <3>. QED BY <3>1, ReachedOn
  <2>2. r.seen \ x.seen \subseteq Reached(l) /\ x.seen \ t \subseteq Reached(p)
    BY DEF FoundFrom, Visited
  <2>. QED BY <1>1, <2>1, <2>2
<1>6. x.found \in Seq(HeldTool) /\ r.found \in Seq(HeldTool) /\ ToSet(x.found) \subseteq AllTools
        /\ ToSet(r.found) \subseteq AllTools
  BY DEF FoundFrom, Visited
<1>7. y.found \in Seq(HeldTool) /\ NamesOf(y.found) = NamesOf(x.found) \cup NamesOf(r.found)
  BY <1>1, <1>6, NamesJoined
<1>8. ToSet(y.found) \subseteq AllTools
  BY <1>1, <1>6, JoinedMembers
<1>9. NamesOf(y.found) = NamesAt(y.seen \ t)
  <2>1. NamesOf(x.found) = NamesAt(x.seen \ t) /\ NamesOf(r.found) = NamesAt(r.seen \ x.seen)
    BY DEF FoundFrom, Visited
  <2>2. y.seen \ t = (x.seen \ t) \cup (r.seen \ x.seen)
    BY <1>1, <1>2
  <2>3. \A S, T : NamesAt(S \cup T) = NamesAt(S) \cup NamesAt(T)
    BY DEF NamesAt
  <2>. QED BY <1>7, <2>1, <2>2, <2>3
<1>10. y.seen \in SUBSET Part /\ t \cup {p} \subseteq y.seen
  BY <1>1, <1>2
<1>. QED BY <1>3, <1>4, <1>5, <1>7, <1>8, <1>9, <1>10 DEF Visited

(* A visit finds what it goes through.                                     *)
LEMMA VisitFinds ==
  ASSUME LinksAreLinks, ToolsTyped, NEW p \in Part, NEW t \in SUBSET Part, p \notin t,
         NEW f, FindsFrom(f, t \cup {p}), NEW a, LinkByLink(p, agent.links[p], t, f, Len(agent.links[p]), a)
  PROVE  \A i \in 0..Len(agent.links[p]) : Visited(p, t, i, a[i])
<1>. DEFINE l == agent.links[p]
            n == Len(l)
            B == {i \in 0..n : ~Visited(p, t, i, a[i])}
<1>. SUFFICES ASSUME B # {} PROVE FALSE
  OBVIOUS
<1>1. n \in Nat /\ \A i \in 1..n : l[i].to \in Part
  <2>1. l \in Seq(Link)
    BY DEF LinksAreLinks
  <2>. HIDE DEF l
  <2>2. n \in Nat /\ \A i \in 1..n : l[i] \in Link
    BY <2>1
  <2>. QED BY <2>2 DEF Link
<1>2. /\ a[0] = [found |-> ToolsAt(p), seen |-> t \cup {p}]
      /\ \A i \in 1..n : a[i] = After(a[i - 1], f[a[i - 1].seen][l[i].to])
  BY DEF LinkByLink
<1>3. PICK i \in B : \A k \in B : i <= k
  <2>1. B \subseteq Nat
    OBVIOUS
  <2>. HIDE DEF B
  <2>. QED BY <2>1, LeastNat
<1>4. i \in 0..n /\ ~Visited(p, t, i, a[i])
  BY <1>3
<1>5. i # 0
  BY <1>2, <1>4, VisitBegins
<1>. HIDE DEF n
<1>6. i \in 1..n /\ i - 1 \in 0..n /\ ~(i <= i - 1)
  BY <1>1, <1>4, <1>5
<1>7. Visited(p, t, i - 1, a[i - 1])
  BY <1>3, <1>6
<1>. HIDE DEF B
<1>8. l[i].to \in Part /\ a[i] = After(a[i - 1], f[a[i - 1].seen][l[i].to])
  BY <1>1, <1>2, <1>6
<1>9. FoundFrom(l[i].to, a[i - 1].seen, f[a[i - 1].seen][l[i].to])
  <2>1. a[i - 1].seen \in SUBSET Part /\ t \cup {p} \subseteq a[i - 1].seen
    BY <1>7 DEF Visited
  <2>. QED BY <1>8, <2>1 DEF FindsFrom
<1>10. Visited(p, t, i, a[i])
  BY <1>6, <1>7, <1>8, <1>9, VisitGoesOn DEF n
<1>. QED BY <1>4, <1>10

(* So discovery finds, whatever was seen before.                           *)
LEMMA DiscoverFinds ==
  ASSUME LinksAreLinks, ToolsTyped
  PROVE  FindsFrom(DiscoverFrom, {})
<1>. DEFINE f == DiscoverFrom
            B == {k \in Nat : \E q \in Part, t \in SUBSET Part : Cardinality(Part \ t) = k /\ ~FoundFrom(q, t, f[t][q])}
<1>1. f = Round(f)
  BY DiscoverFromIs
<1>2. ASSUME B # {} PROVE FALSE
  <2>1. PICK k \in B : \A j \in B : k <= j
    <3>1. B \subseteq Nat
      OBVIOUS
    <3>. HIDE DEF B
    <3>. QED BY <1>2, <3>1, LeastNat
  <2>2. k \in Nat
    BY <2>1
  <2>3. PICK p \in Part, t \in SUBSET Part : Cardinality(Part \ t) = k /\ ~FoundFrom(p, t, f[t][p])
    BY <2>1
  <2>4. RoundAt(f, p, t)
    BY RoundIs
  <2>5. CASE p \in t
    <3>1. f[t][p] = [found |-> <<>>, seen |-> t]
      BY <1>1, <2>4, <2>5 DEF RoundAt
    <3>2. NamesOf(<<>>) = {} /\ NamesAt({}) = {} /\ ToSet(<<>>) = {} /\ OneOfEachName(<<>>)
            /\ <<>> \in Seq(HeldTool)
      BY DEF NamesOf, NamesAt, ToSet, OneOfEachName
    <3>3. t \ t = {} /\ t \cup {p} \subseteq t
      BY <2>5
    <3>. HIDE DEF f, HeldTool
    <3>4. PICK y : y = f[t][p]
      OBVIOUS
    <3>5. y.found = <<>> /\ y.seen = t
      BY <3>1, <3>4
    <3>6. y.seen \ t = {}
      BY <3>5
    <3>7. FoundFrom(p, t, y)
      BY <3>2, <3>3, <3>5, <3>6 DEF FoundFrom
    <3>. QED BY <2>3, <3>4, <3>7
  <2>6. CASE p \notin t
    <3>. DEFINE l == agent.links[p]
    <3>1. PICK a : /\ LinkByLink(p, l, t, f, Len(l), a)
                   /\ Round(f)[t][p] = [found |-> FirstOfName(a[Len(l)].found), seen |-> a[Len(l)].seen]
      BY <2>4, <2>6 DEF RoundAt
    <3>2. FindsFrom(f, t \cup {p})
      <4>1. SUFFICES ASSUME NEW q \in Part, NEW w \in SUBSET Part, t \cup {p} \subseteq w PROVE FoundFrom(q, w, f[w][q])
        BY DEF FindsFrom
      <4>2. Cardinality(Part \ w) \in Nat /\ Cardinality(Part \ w) < k
        <5>1. Cardinality(Part \ t) = k
          BY <2>3
        <5>. HIDE DEF f, B
        <5>2. Cardinality(Part \ w) \in Nat /\ Cardinality(Part \ w) < Cardinality(Part \ t)
          BY <2>6, <4>1, FewerLeft
        <5>. QED BY <5>1, <5>2
      <4>3. Cardinality(Part \ w) \notin B
        <5>. HIDE DEF B
        <5>. QED BY <2>1, <2>2, <4>2
      <4>. HIDE DEF f
      <4>. QED BY <4>2, <4>3
    <3>3. Len(l) \in Nat /\ Len(l) \in 0..Len(l) /\ DOMAIN l = 1..Len(l)
      <4>1. l \in Seq(Link)
        BY DEF LinksAreLinks
      <4>. QED BY <4>1
    <3>. HIDE DEF f
    <3>4. Visited(p, t, Len(l), a[Len(l)])
      BY <2>6, <3>1, <3>2, <3>3, VisitFinds
    <3>. HIDE DEF l
    <3>5. PICK x : x = a[Len(l)]
      OBVIOUS
    <3>6. f[t][p] = [found |-> FirstOfName(x.found), seen |-> x.seen]
      BY <1>1, <3>1, <3>5
    <3>7. Visited(p, t, Len(l), x)
      BY <3>4, <3>5
    <3>8. \A j \in DOMAIN agent.links[p] : agent.links[p][j].to \in x.seen
      BY <3>3, <3>7 DEF Visited, l
    <3>9. \A q \in x.seen \ t : \A j \in DOMAIN agent.links[q] : agent.links[q][j].to \in x.seen
      BY <3>7, <3>8 DEF Visited
    <3>10. /\ FirstOfName(x.found) \in Seq(HeldTool) /\ OneOfEachName(FirstOfName(x.found))
           /\ ToSet(FirstOfName(x.found)) \subseteq AllTools
                /\ NamesOf(FirstOfName(x.found)) = NamesAt(x.seen \ t)
      BY <3>7, FirstOfNameKeeps DEF Visited
    <3>11. x.seen \in SUBSET Part /\ t \cup {p} \subseteq x.seen /\ x.seen \ t \subseteq Reached(p)
      BY <3>7 DEF Visited
    <3>12. FoundFrom(p, t, f[t][p])
      BY <3>6, <3>9, <3>10, <3>11 DEF FoundFrom
    <3>. QED BY <2>3, <3>12
  <2>. QED BY <2>5, <2>6
<1>3. \A t \in SUBSET Part : Cardinality(Part \ t) \in Nat
  <2>1. IsFiniteSet(Part)
    <3>1. IsFiniteSet({"root"}) /\ IsFiniteSet({"child"}) /\ IsFiniteSet({"node"})
      BY FS_Singleton
    <3>2. Part = ({"root"} \cup {"child"}) \cup {"node"}
      BY DEF Part
    <3>. QED BY <3>1, <3>2, FS_Union
  <2>. QED BY <2>1, FS_Subset, FS_CardinalityType
<1>. HIDE DEF f
<1>4. \A q \in Part, t \in SUBSET Part : FoundFrom(q, t, f[t][q])
  BY <1>2, <1>3
<1>5. FindsFrom(f, {})
  BY <1>4 DEF FindsFrom
<1>. QED BY <1>5 DEF f

(* discover_tools finds one tool of each name that can be reached.         *)
LEMMA DiscoveryFinds ==
  ASSUME LinksAreLinks, ToolsTyped
  PROVE  /\ DiscoveryIsComplete
         /\ DiscoverTools \in Seq(HeldTool) /\ ToSet(DiscoverTools) \subseteq AllTools
         /\ \A q \in ReachableParts : NamesOf(ToolsAt(q)) \subseteq NamesOf(DiscoverTools)
<1>1. PICK r : r = DiscoverFrom[{}]["root"]
  OBVIOUS
<1>2. "root" \in Part /\ {} \in SUBSET Part
  BY DEF Part
<1>3. FoundFrom("root", {}, r)
  BY <1>1, <1>2, DiscoverFinds DEF FindsFrom
<1>4. r.seen \in SUBSET Part /\ "root" \in r.seen /\ Linked(r.seen) /\ r.seen \subseteq Reached("root")
  BY <1>3 DEF FoundFrom, Linked
<1>5. ReachableParts = Reached("root")
  BY DEF ReachableParts, ReachableFrom, Reached, Linked
<1>6. Reached("root") \subseteq r.seen
  BY <1>4 DEF Reached
<1>7. r.seen = ReachableParts
  BY <1>4, <1>5, <1>6
<1>8. /\ DiscoverTools = r.found /\ r.found \in Seq(HeldTool) /\ OneOfEachName(r.found)
           /\ ToSet(r.found) \subseteq AllTools
      /\ NamesOf(r.found) = NamesAt(r.seen)
  BY <1>1, <1>3 DEF FoundFrom, DiscoverTools
<1>. HIDE DEF HeldTool
<1>9. NamesOf(DiscoverTools) = UNION {NamesOf(ToolsAt(p)) : p \in ReachableParts}
  BY <1>7, <1>8 DEF NamesAt
<1>10. \A q \in ReachableParts : NamesOf(ToolsAt(q)) \subseteq NamesOf(DiscoverTools)
  BY <1>9
<1>. QED BY <1>8, <1>9, <1>10 DEF DiscoveryIsComplete, OneOfEachName

(* The entry points by name, and what their table says of them.            *)
EntryName ==
  {"langchain.invoke", "langchain.ainvoke", "langchain.stream", "graph.invoke", "graph.stream", "graph.astream",
   "llamaindex.query", "llamaindex.aquery", "llamaindex.stream_events", "generic.run", "generic.ainvoke", "asha.run",
   "autogen.generate_reply", "autogen.initiate_chat", "group.initiate_chat", "crewai.kickoff", "crewai.task",
   "crewai.execute_task", "crewai.llm", "mcp.call_tool", "mcp.acall_tool"}

EntryFits(e) ==
  /\ Entries[e].begins = IF e \in {"langchain.invoke", "langchain.ainvoke", "langchain.stream", "graph.invoke", "graph.stream",
                                   "graph.astream", "llamaindex.stream_events", "autogen.initiate_chat",
                                   "group.initiate_chat", "crewai.kickoff"}
                         THEN "initialize" ELSE IF e = "crewai.llm" THEN "none" ELSE "refresh"
  /\ Entries[e].governs \in {"result", "last", "unreceipted", "nothing"}
  /\ Entries[e].within = CASE e = "graph.astream" -> {"graph.stream"}
                           [] e \in {"autogen.initiate_chat", "group.initiate_chat"} -> {"autogen.generate_reply"}
                           [] e = "crewai.kickoff" -> {"crewai.task"}
                           [] e = "crewai.task" -> {"crewai.execute_task"}
                           [] e \in {"crewai.execute_task", "crewai.llm"} -> {"crewai.llm"}
                           [] OTHER -> {}

LEMMA EntriesAre == DOMAIN Entries = EntryName /\ \A e \in EntryName : EntryFits(e)
<1>1. /\ DOMAIN LangchainEntries = {"langchain.invoke", "langchain.ainvoke", "langchain.stream"}
      /\ DOMAIN GraphEntries = {"graph.invoke", "graph.stream", "graph.astream"}
      /\ DOMAIN LlamaindexEntries = {"llamaindex.query", "llamaindex.aquery", "llamaindex.stream_events"}
      /\ DOMAIN GenericEntries = {"generic.run", "generic.ainvoke"}
      /\ DOMAIN AshaEntries = {"asha.run"}
      /\ DOMAIN AutogenEntries = {"autogen.generate_reply", "autogen.initiate_chat"}
      /\ DOMAIN GroupEntries = {"group.initiate_chat"}
      /\ DOMAIN CrewEntries = {"crewai.kickoff", "crewai.task", "crewai.execute_task", "crewai.llm"}
      /\ DOMAIN McpEntries = {"mcp.call_tool", "mcp.acall_tool"}
  BY DEF LangchainEntries, GraphEntries, LlamaindexEntries, GenericEntries, AshaEntries, AutogenEntries,
         GroupEntries, CrewEntries, McpEntries
<1>2. DOMAIN Entries = EntryName
  BY <1>1 DEF Entries, EntryName
<1>3. ASSUME NEW e \in {"langchain.invoke", "langchain.ainvoke", "langchain.stream"}
      PROVE Entries[e] = LangchainEntries[e] /\ EntryFits(e)
  <2>1. Entries[e] = LangchainEntries[e]
    BY <1>1, <1>3 DEF Entries
  <2>. QED BY <2>1 DEF EntryFits, LangchainEntries, Entry
<1>4. ASSUME NEW e \in {"graph.invoke", "graph.stream", "graph.astream"}
      PROVE Entries[e] = GraphEntries[e] /\ EntryFits(e)
  <2>1. Entries[e] = GraphEntries[e]
    BY <1>1, <1>4 DEF Entries
  <2>. QED BY <2>1 DEF EntryFits, GraphEntries, Entry
<1>5. ASSUME NEW e \in {"llamaindex.query", "llamaindex.aquery", "llamaindex.stream_events"}
      PROVE Entries[e] = LlamaindexEntries[e] /\ EntryFits(e)
  <2>1. Entries[e] = LlamaindexEntries[e]
    BY <1>1, <1>5 DEF Entries
  <2>. QED BY <2>1 DEF EntryFits, LlamaindexEntries, Entry
<1>6. ASSUME NEW e \in {"generic.run", "generic.ainvoke"} PROVE Entries[e] = GenericEntries[e] /\ EntryFits(e)
  <2>1. Entries[e] = GenericEntries[e]
    BY <1>1, <1>6 DEF Entries
  <2>. QED BY <2>1 DEF EntryFits, GenericEntries, Entry
<1>7. ASSUME NEW e \in {"asha.run"} PROVE Entries[e] = AshaEntries[e] /\ EntryFits(e)
  <2>1. Entries[e] = AshaEntries[e]
    BY <1>1, <1>7 DEF Entries
  <2>. QED BY <2>1 DEF EntryFits, AshaEntries, Entry
<1>8. ASSUME NEW e \in {"autogen.generate_reply", "autogen.initiate_chat"}
      PROVE Entries[e] = AutogenEntries[e] /\ EntryFits(e)
  <2>1. Entries[e] = AutogenEntries[e]
    BY <1>1, <1>8 DEF Entries
  <2>. QED BY <2>1 DEF EntryFits, AutogenEntries, Entry
<1>9. ASSUME NEW e \in {"group.initiate_chat"} PROVE Entries[e] = GroupEntries[e] /\ EntryFits(e)
  <2>1. Entries[e] = GroupEntries[e]
    BY <1>1, <1>9 DEF Entries
  <2>. QED BY <2>1 DEF EntryFits, GroupEntries, Entry
<1>10. ASSUME NEW e \in {"crewai.kickoff", "crewai.task", "crewai.execute_task", "crewai.llm"}
       PROVE Entries[e] = CrewEntries[e] /\ EntryFits(e)
  <2>1. Entries[e] = CrewEntries[e]
    BY <1>1, <1>10 DEF Entries
  <2>. QED BY <2>1 DEF EntryFits, CrewEntries, Entry
<1>11. ASSUME NEW e \in {"mcp.call_tool", "mcp.acall_tool"} PROVE Entries[e] = McpEntries[e] /\ EntryFits(e)
  <2>1. Entries[e] = McpEntries[e]
    BY <1>1, <1>11 DEF Entries
  <2>. QED BY <2>1 DEF EntryFits, McpEntries, Entry
<1>. QED BY <1>2, <1>3, <1>4, <1>5, <1>6, <1>7, <1>8, <1>9, <1>10, <1>11 DEF EntryName

(* The entry points of a call, and how the innermost changes.              *)
Frame ==
  [ entry : EntryName, at : {"begin", "inner", "suspended", "govern", "leave"}, raised : BOOLEAN, governed : BOOLEAN,
    blocked : BOOLEAN, chunks : BOOLEAN, before : BOOLEAN, saved : Nat, phaseOf : EntryName \cup {NotSet} ]

LEMMA DoorsBegin ==
  \A e \in Doors : e \in EntryName => Entries[e].begins # "none" /\ e # "crewai.task"
<1>1. ASSUME NEW e \in Doors, e \in EntryName PROVE e \notin {"crewai.task", "crewai.llm"}
  BY <1>1 DEF Doors, Adapter, AdapterFor, LangchainEntries, GraphEntries, LlamaindexEntries, GenericEntries, AshaEntries,
              AutogenEntries, GroupEntries, McpEntries
<1>2. \A e \in EntryName : e # "crewai.llm" => Entries[e].begins # "none"
  BY EntriesAre DEF EntryFits
<1>. QED BY <1>1, <1>2

(* Only a graph that streams to itself initialises within another call.    *)
LEMMA InnerRefresh ==
  \A e \in EntryName : \A w \in Entries[e].within : w \in EntryName
    /\ (Entries[w].begins = "initialize" => w = "graph.stream")
<1>1. \A e \in EntryName : \A w \in Entries[e].within :
        w \in {"graph.stream", "autogen.generate_reply", "crewai.task", "crewai.execute_task", "crewai.llm"}
  BY EntriesAre DEF EntryFits
<1>2. \A w \in {"autogen.generate_reply", "crewai.task", "crewai.execute_task", "crewai.llm"} : Entries[w].begins # "initialize"
  <2>1. \A w \in EntryName : EntryFits(w)
    BY EntriesAre
  <2>. QED BY <2>1 DEF EntryFits, EntryName
<1>. QED BY <1>1, <1>2 DEF EntryName

LEMMA TopIs ==
  ASSUME NEW F, NEW s \in Seq(F), s # <<>>, NEW f \in F
  PROVE  /\ Len(s) \in Nat \ {0} /\ s[Len(s)] \in F
         /\ [s EXCEPT ![Len(s)] = f] \in Seq(F) /\ Len([s EXCEPT ![Len(s)] = f]) = Len(s)
         /\ [s EXCEPT ![Len(s)] = f][Len(s)] = f
         /\ \A i \in 1..(Len(s) - 1) : [s EXCEPT ![Len(s)] = f][i] = s[i]
<1>1. Len(s) \in Nat \ {0} /\ DOMAIN s = 1..Len(s) /\ \A i \in 1..Len(s) : s[i] \in F
  OBVIOUS
<1>. DEFINE n == Len(s)
            t == [s EXCEPT ![n] = f]
<1>0. n = Len(s) /\ t = [s EXCEPT ![Len(s)] = f]
  OBVIOUS
<1>2. t = [i \in 1..n |-> IF i = n THEN f ELSE s[i]] /\ n \in Nat \ {0} /\ \A i \in 1..n : s[i] \in F
  BY <1>1
<1>. HIDE DEF n, t
<1>3. \A i \in 1..n : (IF i = n THEN f ELSE s[i]) \in F
  BY <1>2
<1>4. t \in Seq(F) /\ Len(t) = n /\ \A i \in 1..n : t[i] = IF i = n THEN f ELSE s[i]
  BY <1>2, <1>3
<1>5. t[n] = f /\ \A i \in 1..(n - 1) : t[i] = s[i]
  <2>1. n \in 1..n /\ \A i \in 1..(n - 1) : i \in 1..n /\ i # n
    BY <1>2
  <2>. QED BY <1>4, <2>1
<1>. QED BY <1>0, <1>1, <1>4, <1>5

-----------------------------------------------------------------------------
(* What litellm.completion is while the first i entry points run.          *)
InForce(s, i) ==
  IF i = 0 THEN 0 ELSE IF s[i].entry = "crewai.llm" /\ s[i].at \in {"inner", "suspended"} THEN i ELSE s[i].saved

(* Every entry point found the context as the one around it left it.       *)
FrameFits(s, i, gone) ==
  /\ i = 1 => /\ s[i].before => gone
              /\ Entries[s[i].entry].begins # "none" /\ s[i].entry # "crewai.task"
  /\ i > 1 => s[i].before /\ s[i - 1].at = "inner" /\ s[i].entry \in Entries[s[i - 1].entry].within
  /\ s[i].saved = InForce(s, i - 1)
  /\ s[i].at = "suspended" => s[i].entry = "graph.astream"
  /\ s[i].at # "leave" => ~s[i].blocked
  /\ s[i].at = "leave" /\ ~s[i].raised =>
       /\ s[i].blocked => ~Entries[s[i].entry].holds
       /\ s[i].governed \/ Entries[s[i].entry].governs \in {"nothing", "last"} \/ s[i].entry = "mcp.acall_tool"

(* What the innermost one has left of the context.                         *)
InContext(s, here, gone, patch) ==
  /\ patch = InForce(s, Len(s))
  /\ s = <<>> /\ here => gone
  /\ s # <<>> =>
       LET f == s[Len(s)] IN
         /\ f.at \in {"inner", "suspended"} => here
         /\ f.at = "begin" => here = f.before
         /\ f.at \in {"govern", "leave"} => here = f.before \/ (gone /\ here)

(* The mission of the outermost one stands.                                *)
OuterStands(s, base) ==
  s # <<>> =>
    /\ s[1].at = "begin" => base = s[1].phaseOf
    /\ s[1].at # "begin" =>
         \/ base \in {s[1].entry, "graph.stream"}
         \/ Entries[s[1].entry].begins = "refresh" /\ s[1].phaseOf # NotSet /\ base = s[1].phaseOf

RunInv ==
  /\ stack \in Seq(Frame) /\ bound \in BOOLEAN /\ leaked \in BOOLEAN /\ baseline \in EntryName \cup {NotSet}
  /\ \A i \in 1..Len(stack) : FrameFits(stack, i, leaked)
  /\ InContext(stack, bound, leaked, completion)
  /\ OuterStands(stack, baseline)
  /\ \A r \in ran : r.bound
  /\ BlockedOutputsAreHeld

(* A step that changes the innermost entry point only.                     *)
LEMMA TopMoves ==
  ASSUME RunInv, stack # <<>>, NEW f \in Frame, stack' = [stack EXCEPT ![Len(stack)] = f],
         f.entry = Top.entry, f.before = Top.before, f.saved = Top.saved, f.phaseOf = Top.phaseOf,
         NEW g \in BOOLEAN, leaked => g,
         f.at = "suspended" => f.entry = "graph.astream",
         f.at # "leave" => ~f.blocked,
         f.at = "leave" /\ ~f.raised =>
           /\ f.blocked => ~Entries[f.entry].holds
           /\ f.governed \/ Entries[f.entry].governs \in {"nothing", "last"} \/ f.entry = "mcp.acall_tool"
  PROVE  /\ stack' \in Seq(Frame) /\ stack' # <<>> /\ Len(stack') = Len(stack) /\ stack'[Len(stack)] = f
         /\ \A i \in 1..Len(stack') : FrameFits(stack', i, g)
         /\ Len(stack) # 1 => stack'[1] = stack[1]
         /\ Len(stack) > 1 => f.before
<1>1. /\ stack \in Seq(Frame) /\ Top \in Frame /\ Len(stack) \in Nat \ {0}
           /\ \A i \in 1..Len(stack) : FrameFits(stack, i, leaked)
  BY TopIs DEF RunInv, Top, Depth
<1>. DEFINE n == Len(stack)
<1>2. /\ stack' \in Seq(Frame) /\ Len(stack') = n /\ stack'[n] = f /\ n \in Nat \ {0} /\ Top = stack[n]
      /\ \A i \in 1..(n - 1) : stack'[i] = stack[i]
  BY <1>1, TopIs DEF Top, Depth
<1>. HIDE DEF n
<1>3. \A i \in 0..(n - 1) : InForce(stack', i) = InForce(stack, i)
  BY <1>2 DEF InForce
<1>4. \A i \in 1..n : FrameFits(stack, i, leaked)
  BY <1>1 DEF n
<1>5. ASSUME NEW i \in 1..n PROVE FrameFits(stack', i, g)
  <2>1. CASE i = n
    <3>0. n \in 1..n /\ n - 1 \in 0..(n - 1) /\ (n > 1 => n - 1 \in 1..(n - 1))
      BY <1>2
    <3>1. FrameFits(stack, n, leaked) /\ InForce(stack', n - 1) = InForce(stack, n - 1)
            /\ (n > 1 => stack'[n - 1] = stack[n - 1])
      BY <1>2, <1>3, <1>4, <3>0
    <3>. QED BY <1>2, <2>1, <3>1 DEF FrameFits
  <2>2. CASE i # n
    <3>0. i \in 1..(n - 1) /\ i - 1 \in 0..(n - 1) /\ (i > 1 => i - 1 \in 1..(n - 1))
      BY <1>2, <2>2
    <3>1. /\ FrameFits(stack, i, leaked) /\ i \in 1..(n - 1) /\ InForce(stack', i - 1) = InForce(stack, i - 1)
          /\ stack'[i] = stack[i] /\ (i > 1 => stack'[i - 1] = stack[i - 1])
      BY <1>2, <1>3, <1>4, <3>0
    <3>. QED BY <3>1 DEF FrameFits
  <2>. QED BY <2>1, <2>2
<1>6. n > 1 => f.before
  <2>1. n \in 1..n
    BY <1>2
  <2>. QED BY <1>2, <1>4, <2>1 DEF FrameFits
<1>7. n # 1 => stack'[1] = stack[1]
  <2>1. n # 1 => 1 \in 1..(n - 1)
    BY <1>2
  <2>. QED BY <1>2, <2>1
<1>8. stack' # <<>>
  BY <1>2
<1>. QED BY <1>2, <1>5, <1>6, <1>7, <1>8 DEF n

(* The invariant of the state after a step that changes the innermost.     *)
LEMMA TopKeeps ==
  ASSUME RunInv, stack # <<>>, NEW f \in Frame, stack' = [stack EXCEPT ![Len(stack)] = f],
         f.entry = Top.entry, f.before = Top.before, f.saved = Top.saved, f.phaseOf = Top.phaseOf,
         bound' \in BOOLEAN, leaked' \in BOOLEAN, leaked
           => leaked', baseline' = baseline, Top.at # "begin", f.at # "begin",
         f.at = "suspended" => f.entry = "graph.astream",
         f.at # "leave" => ~f.blocked,
         f.at = "leave" /\ ~f.raised =>
           /\ f.blocked => ~Entries[f.entry].holds
           /\ f.governed \/ Entries[f.entry].governs \in {"nothing", "last"} \/ f.entry = "mcp.acall_tool",
         completion' = IF f.entry = "crewai.llm" /\ f.at \in {"inner", "suspended"} THEN completion ELSE f.saved,
         f.entry = "crewai.llm" /\ f.at \in {"inner", "suspended"} => Top.at \in {"inner", "suspended"},
         f.at \in {"inner", "suspended"} => bound',
         f.at \in {"govern", "leave"} => bound' = f.before \/ (leaked' /\ bound'),
         \A r \in ran' : r.bound,
         UNCHANGED result
  PROVE  RunInv'
<1>1. /\ stack' \in Seq(Frame) /\ stack' # <<>> /\ Len(stack') = Len(stack) /\ stack'[Len(stack)] = f
      /\ \A i \in 1..Len(stack') : FrameFits(stack', i, leaked')
      /\ Len(stack) # 1 => stack'[1] = stack[1]
      /\ Len(stack) > 1 => f.before
  BY TopMoves
<1>2. Len(stack) \in Nat \ {0} /\ Top = stack[Len(stack)] /\ InContext(stack, bound, leaked, completion)
        /\ OuterStands(stack, baseline)
  BY TopIs DEF RunInv, Top, Depth
<1>3. InContext(stack', bound', leaked', completion')
  <2>1. completion' = InForce(stack', Len(stack'))
    BY <1>1, <1>2 DEF InContext, InForce
  <2>. QED BY <1>1, <2>1 DEF InContext
<1>4. OuterStands(stack', baseline')
  <2>1. CASE Len(stack) = 1
    BY <1>1, <1>2, <2>1 DEF OuterStands
  <2>2. CASE Len(stack) # 1
    BY <1>1, <1>2, <2>2 DEF OuterStands
  <2>. QED BY <2>1, <2>2
<1>5. BlockedOutputsAreHeld'
  BY DEF RunInv, BlockedOutputsAreHeld
<1>6. baseline' \in EntryName \cup {NotSet}
  BY DEF RunInv
<1>. QED BY <1>1, <1>3, <1>4, <1>5, <1>6 DEF RunInv

LEMMA RunInit == AnchorInit => RunInv
<1>. SUFFICES ASSUME AnchorInit PROVE RunInv
  OBVIOUS
<1>1. stack = <<>> /\ bound = FALSE /\ leaked = FALSE /\ baseline = NotSet /\ completion = 0 /\ ran = {}
        /\ result.of = "nothing"
  BY DEF AnchorInit
<1>2. bound \in BOOLEAN /\ leaked \in BOOLEAN /\ ~bound
  BY <1>1
<1>3. InContext(stack, bound, leaked, completion) /\ OuterStands(stack, baseline)
  <2>1. Len(stack) = 0
    BY <1>1
  <2>. QED BY <1>1, <1>2, <2>1 DEF InContext, OuterStands, InForce
<1>4. "nothing" \notin EntryName
  BY DEF EntryName
<1>5. BlockedOutputsAreHeld
  BY <1>1, <1>4, EntriesAre DEF BlockedOutputsAreHeld
<1>6. stack \in Seq(Frame) /\ 1..Len(stack) = {}
  BY <1>1
<1>. QED BY <1>1, <1>2, <1>3, <1>5, <1>6 DEF RunInv

LEMMA EntryCallKeeps ==
  ASSUME RunInv, NEW e \in DOMAIN Entries, Call(e)
  PROVE  RunInv'
<1>. DEFINE f == [entry |-> e, at |-> "begin", raised |-> FALSE, governed |-> FALSE, blocked |-> FALSE,
                  chunks |-> FALSE, before |-> bound, saved |-> completion, phaseOf |-> baseline]
            n == Len(stack)
<1>1. /\ stack \in Seq(Frame) /\ n \in Nat /\ InContext(stack, bound, leaked, completion)
           /\ OuterStands(stack, baseline)
      /\ \A i \in 1..n : FrameFits(stack, i, leaked)
      /\ bound \in BOOLEAN /\ leaked \in BOOLEAN /\ baseline \in EntryName \cup {NotSet}
  BY DEF RunInv
<1>2. stack' = Append(stack, f) /\ UNCHANGED <<mission, baseline, bound, completion, ran, result, leaked>>
  BY DEF Call
<1>3. completion \in Nat
  <2>1. n = 0 \/ stack[n] \in Frame
    BY <1>1
  <2>. QED BY <1>1, <2>1 DEF InContext, InForce, Frame
<1>4. f \in Frame
  BY <1>1, <1>3, EntriesAre DEF Frame
<1>5. /\ f.entry = e /\ f.at = "begin" /\ ~f.blocked /\ f.before = bound /\ f.saved = completion
           /\ f.phaseOf = baseline
  OBVIOUS
<1>. HIDE DEF f, n
<1>6. /\ stack' \in Seq(Frame) /\ Len(stack') = n + 1 /\ stack'[n + 1] = f
           /\ \A i \in 1..n : stack'[i] = stack[i]
  BY <1>1, <1>2, <1>4 DEF n
<1>7. \A i \in 0..n : InForce(stack', i) = InForce(stack, i)
  BY <1>1, <1>6 DEF InForce
<1>8. CASE n = 0
  <2>1. stack = <<>>
    BY <1>1, <1>8 DEF n
  <2>2. e \in Doors /\ e \in EntryName /\ (bound => leaked) /\ completion = 0
    BY <1>1, <1>8, <2>1, EntriesAre DEF Call, InContext, InForce, n
  <2>3. Entries[e].begins # "none" /\ e # "crewai.task"
    BY <2>2, DoorsBegin
  <2>4. stack'[1] = f /\ Len(stack') = 1 /\ InForce(stack', 0) = 0 /\ InForce(stack', 1) = completion
    BY <1>5, <1>6, <1>8, <2>2 DEF InForce
  <2>5. FrameFits(stack', 1, leaked)
    BY <1>5, <2>2, <2>3, <2>4 DEF FrameFits
  <2>6. InContext(stack', bound, leaked, completion)
    <3>1. stack' # <<>>
      BY <2>4
    <3>. QED BY <1>5, <2>2, <2>4, <3>1 DEF InContext
  <2>7. OuterStands(stack', baseline)
    BY <1>5, <2>4 DEF OuterStands
  <2>. QED BY <1>1, <1>2, <1>6, <2>4, <2>5, <2>6, <2>7 DEF RunInv, BlockedOutputsAreHeld
<1>9. CASE n # 0
  <2>1. stack # <<>> /\ stack[n].at = "inner" /\ e \in Entries[stack[n].entry].within /\ n \in 1..n
    BY <1>1, <1>9 DEF Call, Is, Top, Depth, How, n
  <2>2. bound = TRUE /\ completion = InForce(stack, n)
    BY <1>1, <2>1 DEF InContext, n
  <2>3. FrameFits(stack', n + 1, leaked)
    <3>1. stack'[(n + 1) - 1] = stack[n] /\ InForce(stack', (n + 1) - 1) = completion /\ n + 1 # 1
      BY <1>1, <1>6, <1>7, <1>9, <2>1, <2>2
    <3>. QED BY <1>5, <1>6, <2>1, <2>2, <3>1 DEF FrameFits
  <2>4. ASSUME NEW i \in 1..n PROVE FrameFits(stack', i, leaked)
    <3>1. /\ FrameFits(stack, i, leaked) /\ i - 1 \in 0..n /\ InForce(stack', i - 1) = InForce(stack, i - 1)
          /\ stack'[i] = stack[i] /\ (i > 1 => stack'[i - 1] = stack[i - 1])
      BY <1>1, <1>6, <1>7 DEF n
    <3>. QED BY <3>1 DEF FrameFits
  <2>5. \A i \in 1..(n + 1) : FrameFits(stack', i, leaked)
    <3>1. \A i \in 1..(n + 1) : i = n + 1 \/ i \in 1..n
      BY <1>1
    <3>. QED BY <2>3, <2>4, <3>1
  <2>6. InContext(stack', bound, leaked, completion)
    <3>1. stack' # <<>> /\ InForce(stack', n + 1) = completion
      BY <1>1, <1>5, <1>6 DEF InForce
    <3>. QED BY <1>5, <1>6, <2>2, <3>1 DEF InContext
  <2>7. OuterStands(stack', baseline)
    <3>1. stack'[1] = stack[1] /\ stack # <<>>
      BY <1>1, <1>6, <2>1, <1>9
    <3>. QED BY <1>1, <3>1 DEF OuterStands
  <2>. QED BY <1>1, <1>2, <1>6, <2>5, <2>6, <2>7 DEF RunInv, BlockedOutputsAreHeld
<1>. QED BY <1>8, <1>9

LEMMA BeginKeeps ==
  ASSUME RunInv, Begin
  PROVE  RunInv'
<1>. DEFINE f == [Top EXCEPT !.at = "inner"]
            n == Len(stack)
<1>1. /\ stack \in Seq(Frame) /\ stack # <<>> /\ n \in Nat \ {0} /\ Top = stack[n] /\ Top \in Frame
           /\ Top.at = "begin"
      /\ InContext(stack, bound, leaked, completion) /\ OuterStands(stack, baseline)
           /\ FrameFits(stack, n, leaked)
      /\ leaked \in BOOLEAN /\ baseline \in EntryName \cup {NotSet}
  BY TopIs DEF RunInv, Begin, Is, Top, Depth
<1>2. /\ stack' = [stack EXCEPT ![n] = f] /\ f \in Frame /\ f.at = "inner"
      /\ f.entry = Top.entry /\ f.before = Top.before /\ f.saved = Top.saved /\ f.phaseOf = Top.phaseOf
      /\ f.blocked = Top.blocked
  BY <1>1 DEF Begin, Goto, Depth, Frame, Top
<1>3. /\ bound' = TRUE /\ leaked' = leaked /\ ran' = ran /\ result' = result
      /\ completion' = IF Top.entry = "crewai.llm" THEN n ELSE completion
      /\ baseline' = IF Initializes(Entries[Top.entry]) THEN Top.entry ELSE baseline
  BY DEF Begin, Depth, How
<1>4. ~f.blocked
  BY <1>1, <1>2 DEF FrameFits
<1>. HIDE DEF f
<1>5. /\ stack' \in Seq(Frame) /\ stack' # <<>> /\ Len(stack') = n /\ stack'[n] = f
      /\ \A i \in 1..Len(stack') : FrameFits(stack', i, leaked)
      /\ n # 1 => stack'[1] = stack[1]
  BY <1>1, <1>2, <1>4, TopMoves
<1>6. InContext(stack', bound', leaked', completion')
  <2>1. completion = Top.saved
    BY <1>1 DEF InContext, InForce
  <2>2. completion' = InForce(stack', n)
    BY <1>1, <1>2, <1>3, <1>5, <2>1 DEF InForce
  <2>. QED BY <1>2, <1>3, <1>5, <2>2 DEF InContext
<1>7. baseline' \in EntryName \cup {NotSet} /\ Top.entry \in EntryName /\ NotSet \notin EntryName
  BY <1>1, <1>3 DEF Frame, NotSet, EntryName
<1>8. OuterStands(stack', baseline')
  <2>1. CASE n = 1
    <3>1. stack[1] = Top /\ baseline = Top.phaseOf /\ Entries[Top.entry].begins # "none"
            /\ Top.entry # "crewai.task"
      BY <1>1, <2>1 DEF OuterStands, FrameFits
    <3>2. Entries[Top.entry].begins \in {"initialize", "refresh"}
      BY <1>7, <3>1, EntriesAre DEF EntryFits
    <3>3. baseline' = Top.entry
            \/ (Entries[Top.entry].begins = "refresh" /\ baseline # NotSet /\ baseline' = baseline)
      BY <1>3, <3>1, <3>2 DEF Initializes
    <3>. QED BY <1>2, <1>5, <2>1, <3>1, <3>3 DEF OuterStands
  <2>2. CASE n # 1
    <3>1. stack'[1] = stack[1] /\ stack[1].at = "inner" /\ stack[1] \in Frame
      <4>1. n > 1 => stack[1].at = "inner"
        <5>1. \A i \in 1..n : FrameFits(stack, i, leaked)
          BY DEF RunInv
        <5>2. 2 \in 1..n
          <6>1. n \in Nat \ {0}
            BY <1>1
          <6>. HIDE DEF n
          <6>. QED BY <2>2, <6>1
        <5>3. FrameFits(stack, 2, leaked)
          BY <5>1, <5>2
        <5>. QED BY <5>3 DEF FrameFits
      <4>. QED BY <1>1, <1>5, <2>2, <4>1
    <3>2. baseline # NotSet
      BY <1>1, <1>7, <3>1 DEF OuterStands, Frame, NotSet
    <3>3. baseline' = baseline \/ baseline' = "graph.stream"
      <4>1. Top.entry \in Entries[stack[n - 1].entry].within /\ stack[n - 1].entry \in EntryName
        <5>1. n > 1 /\ n - 1 \in 1..n
          <6>1. n \in Nat \ {0}
            BY <1>1
          <6>. HIDE DEF n
          <6>. QED BY <2>2, <6>1
        <5>2. stack[n - 1] \in Frame
          BY <1>1, <5>1
        <5>. QED BY <1>1, <5>1, <5>2 DEF FrameFits, Frame
      <4>2. Entries[Top.entry].begins = "initialize" => Top.entry = "graph.stream"
        BY <4>1, InnerRefresh
      <4>. QED BY <1>3, <3>2, <4>2 DEF Initializes
    <3>. QED BY <1>1, <3>1, <3>3 DEF OuterStands
  <2>. QED BY <2>1, <2>2
<1>9. BlockedOutputsAreHeld'
  BY <1>3 DEF RunInv, BlockedOutputsAreHeld
<1>10. \A r \in ran' : r.bound
  BY <1>3 DEF RunInv
<1>. QED BY <1>1, <1>3, <1>5, <1>6, <1>7, <1>8, <1>9, <1>10 DEF RunInv

(* What the invariant says of the innermost entry point.                   *)
LEMMA TopFacts ==
  ASSUME RunInv, stack # <<>>
  PROVE  /\ stack \in Seq(Frame) /\ Len(stack) \in Nat \ {0} /\ Top = stack[Len(stack)] /\ Top \in Frame
              /\ Depth = Len(stack)
         /\ bound \in BOOLEAN /\ leaked \in BOOLEAN
         /\ Top.at # "leave" => ~Top.blocked
         /\ Top.at \in {"inner", "suspended"} => bound
         /\ Top.at \in {"govern", "leave"} => bound = Top.before \/ (leaked /\ bound)
         /\ completion = IF Top.entry = "crewai.llm" /\ Top.at \in {"inner", "suspended"} THEN Depth ELSE Top.saved
         /\ Top.at = "suspended" => Top.entry = "graph.astream"
         /\ \A r \in ran : r.bound
<1>1. stack \in Seq(Frame) /\ Len(stack) \in Nat \ {0} /\ Top = stack[Len(stack)] /\ Top \in Frame
        /\ Depth = Len(stack)
  BY TopIs DEF RunInv, Top, Depth
<1>2. FrameFits(stack, Len(stack), leaked) /\ InContext(stack, bound, leaked, completion)
  BY <1>1 DEF RunInv
<1>3. /\ Top.at # "leave" => ~Top.blocked
      /\ Top.at = "suspended" => Top.entry = "graph.astream"
  BY <1>1, <1>2 DEF FrameFits
<1>4. /\ Top.at \in {"inner", "suspended"} => bound
      /\ Top.at \in {"govern", "leave"} => bound = Top.before \/ (leaked /\ bound)
  BY <1>1, <1>2 DEF InContext
<1>5. completion = IF Top.entry = "crewai.llm" /\ Top.at \in {"inner", "suspended"} THEN Depth ELSE Top.saved
  BY <1>1, <1>2 DEF InContext, InForce
<1>. QED BY <1>1, <1>3, <1>4, <1>5 DEF RunInv

LEMMA ToolKeeps == ASSUME RunInv, FrameworkTool PROVE RunInv'
<1>1. stack # <<>> /\ Top.at = "inner" /\ UNCHANGED <<baseline, bound, completion, stack, result, leaked>>
  BY DEF FrameworkTool, Is
<1>2. bound = TRUE
  BY <1>1, TopFacts
<1>3. \A r \in ran' : r \in ran \/ r.bound
  <2>1. PICK e : ran' = ran \cup {e} /\ \E p, j : e = [part |-> p, judged |-> j, bound |-> bound]
    BY DEF FrameworkTool
  <2>2. e.bound = bound
    BY <2>1
  <2>. QED BY <1>2, <2>1, <2>2
<1>. QED BY <1>1, <1>3 DEF RunInv, BlockedOutputsAreHeld

LEMMA McpKeeps == ASSUME RunInv, McpTool PROVE RunInv'
<1>1. stack # <<>> /\ Top.at = "inner" /\ Top.entry \in {"mcp.call_tool", "mcp.acall_tool"}
  BY DEF McpTool, Is, ToolEntries
<1>2. PICK allowed \in BOOLEAN, raises \in BOOLEAN :
        /\ ran' = ran \cup IF allowed THEN {[part |-> "server", judged |-> TRUE, bound |-> bound]} ELSE {}
        /\ bound' = Top.before
        /\ stack' = [stack EXCEPT
             ![Depth].raised = raises,
             ![Depth].at = IF raises \/ (~allowed /\ Top.entry = "mcp.acall_tool") THEN "leave" ELSE "govern"]
  BY DEF McpTool
<1>3. UNCHANGED <<baseline, completion, result, leaked>>
  BY DEF McpTool
<1>4. /\ stack \in Seq(Frame) /\ Len(stack) \in Nat \ {0} /\ Top = stack[Len(stack)] /\ Top \in Frame
           /\ Depth = Len(stack)
      /\ bound = TRUE /\ leaked \in BOOLEAN /\ ~Top.blocked /\ completion = Top.saved /\ \A r \in ran : r.bound
  BY <1>1, TopFacts
<1>. DEFINE l == IF raises \/ (~allowed /\ Top.entry = "mcp.acall_tool") THEN "leave" ELSE "govern"
            f == [Top EXCEPT !.raised = raises, !.at = l]
<1>5. stack' = [stack EXCEPT ![Len(stack)] = f]
  BY <1>2, <1>4
<1>6. /\ f \in Frame /\ f.at = l /\ f.raised = raises /\ f.entry = Top.entry /\ f.before = Top.before
      /\ f.saved = Top.saved /\ f.phaseOf = Top.phaseOf /\ f.blocked = Top.blocked
  BY <1>4 DEF Frame
<1>7. \A r \in ran' : r.bound
  <2>. DEFINE e == [part |-> "server", judged |-> TRUE, bound |-> bound]
  <2>1. e.bound = TRUE
    BY <1>4
  <2>. HIDE DEF e
  <2>2. \A r \in ran' : r \in ran \/ r = e
    BY <1>2 DEF e
  <2>. QED BY <1>4, <2>1, <2>2
<1>8. bound' \in BOOLEAN
  BY <1>2, <1>4 DEF Frame
<1>9. l = "leave" /\ ~raises => f.entry = "mcp.acall_tool"
  BY <1>6
<1>10. l \in {"leave", "govern"}
  OBVIOUS
<1>. HIDE DEF f, l
<1>. QED BY <1>1, <1>2, <1>3, <1>4, <1>5, <1>6, <1>7, <1>8, <1>9, <1>10, TopKeeps

(* The entry point is over: its context and its patch are put back.        *)
LEMMA OverKeeps ==
  ASSUME RunInv, stack # <<>>, Top.at = "inner", PutBack, UNCHANGED <<baseline, ran, result, leaked>>,
         NEW f \in Frame, stack' = [stack EXCEPT ![Depth] = f],
         f.entry = Top.entry, f.before = Top.before, f.saved = Top.saved, f.phaseOf = Top.phaseOf, f.blocked = Top.blocked,
         f.at \in {"govern", "leave"},
         f.at = "leave" /\ ~f.raised => Entries[f.entry].governs \in {"nothing", "last"}
  PROVE  RunInv'
<1>1. /\ Top \in Frame /\ Depth = Len(stack) /\ leaked \in BOOLEAN /\ ~Top.blocked /\ \A r \in ran : r.bound
      /\ completion = IF Top.entry = "crewai.llm" THEN Depth ELSE Top.saved
  BY TopFacts
<1>2. bound' = f.before /\ completion' = f.saved
  BY <1>1 DEF PutBack
<1>3. bound' \in BOOLEAN
  BY <1>1 DEF PutBack, Frame
<1>. QED BY <1>1, <1>2, <1>3, TopKeeps

LEMMA ReturnsKeep == ASSUME RunInv, InnerReturns PROVE RunInv'
<1>1. stack # <<>> /\ Top.at = "inner" /\ PutBack /\ UNCHANGED <<baseline, ran, result, leaked>>
  BY DEF InnerReturns, Is
<1>2. PICK some \in BOOLEAN : /\ How.governs = "last" \/ some = (How.governs # "nothing")
                              /\ stack' = Goto(IF some THEN "govern" ELSE "leave")
  BY DEF InnerReturns
<1>. DEFINE l == IF some THEN "govern" ELSE "leave"
            f == [Top EXCEPT !.at = l]
<1>3. Top \in Frame /\ Top = stack[Len(stack)] /\ Depth = Len(stack) /\ stack \in Seq(Frame)
  BY <1>1, TopFacts
<1>4. stack' = [stack EXCEPT ![Depth] = f]
  BY <1>2, <1>3 DEF Goto
<1>5. /\ f \in Frame /\ f.at = l /\ f.entry = Top.entry /\ f.before = Top.before /\ l \in {"govern", "leave"}
      /\ f.saved = Top.saved /\ f.phaseOf = Top.phaseOf /\ f.blocked = Top.blocked
  BY <1>3 DEF Frame
<1>6. l = "leave" => Entries[f.entry].governs \in {"nothing", "last"}
  BY <1>2, <1>5 DEF How
<1>. HIDE DEF f, l
<1>. QED BY <1>1, <1>4, <1>5, <1>6, OverKeeps

LEMMA RaisesKeep == ASSUME RunInv, InnerRaises PROVE RunInv'
<1>1. stack # <<>> /\ Top.at = "inner" /\ PutBack /\ UNCHANGED <<baseline, ran, result, leaked>>
      /\ stack' = [stack EXCEPT ![Depth].raised = TRUE, ![Depth].at = "leave"]
  BY DEF InnerRaises, Is
<1>. DEFINE f == [Top EXCEPT !.raised = TRUE, !.at = "leave"]
<1>3. Top \in Frame /\ Top = stack[Len(stack)] /\ Depth = Len(stack) /\ stack \in Seq(Frame)
  BY <1>1, TopFacts
<1>4. stack' = [stack EXCEPT ![Depth] = f]
  BY <1>1, <1>3
<1>5. /\ f \in Frame /\ f.at = "leave" /\ f.raised = TRUE /\ f.entry = Top.entry /\ f.before = Top.before
      /\ f.saved = Top.saved /\ f.phaseOf = Top.phaseOf /\ f.blocked = Top.blocked
  BY <1>3 DEF Frame
<1>. HIDE DEF f
<1>. QED BY <1>1, <1>4, <1>5, OverKeeps

LEMMA YieldKeeps == ASSUME RunInv, YieldChunk \/ Resume PROVE RunInv'
<1>1. /\ stack # <<>> /\ Top.at \in {"inner", "suspended"}
           /\ UNCHANGED <<baseline, bound, completion, ran, result, leaked>>
      /\ Top.entry = "graph.astream" \/ Top.at = "suspended"
  BY DEF YieldChunk, Resume, Is
<1>2. /\ Top \in Frame /\ Top = stack[Len(stack)] /\ Depth = Len(stack) /\ stack \in Seq(Frame)
      /\ bound = TRUE /\ leaked \in BOOLEAN /\ ~Top.blocked /\ \A r \in ran : r.bound
      /\ Top.entry = "graph.astream" /\ completion = Top.saved
  BY <1>1, TopFacts
<1>3. PICK f \in Frame :
        /\ stack' = [stack EXCEPT ![Len(stack)] = f] /\ f.at \in {"inner", "suspended"}
        /\ f.entry = Top.entry /\ f.before = Top.before
        /\ f.saved = Top.saved /\ f.phaseOf = Top.phaseOf /\ f.blocked = Top.blocked
  <2>1. CASE YieldChunk
    <3>. DEFINE f == [Top EXCEPT !.chunks = TRUE, !.at = "suspended"]
    <3>1. stack' = [stack EXCEPT ![Len(stack)] = f]
      BY <1>2, <2>1 DEF YieldChunk
    <3>2. /\ f \in Frame /\ f.at = "suspended" /\ f.entry = Top.entry /\ f.before = Top.before
          /\ f.saved = Top.saved /\ f.phaseOf = Top.phaseOf /\ f.blocked = Top.blocked
      BY <1>2 DEF Frame
    <3>. HIDE DEF f
    <3>. QED BY <3>1, <3>2
  <2>2. CASE Resume
    <3>. DEFINE f == [Top EXCEPT !.at = "inner"]
    <3>1. stack' = [stack EXCEPT ![Len(stack)] = f]
      BY <1>2, <2>2 DEF Resume, Goto
    <3>2. /\ f \in Frame /\ f.at = "inner" /\ f.entry = Top.entry /\ f.before = Top.before
          /\ f.saved = Top.saved /\ f.phaseOf = Top.phaseOf /\ f.blocked = Top.blocked
      BY <1>2 DEF Frame
    <3>. HIDE DEF f
    <3>. QED BY <3>1, <3>2
  <2>. QED BY <2>1, <2>2
<1>4. bound' = TRUE /\ bound' \in BOOLEAN /\ leaked' \in BOOLEAN /\ (leaked => leaked')
        /\ completion' = completion
  BY <1>1, <1>2
<1>. QED BY <1>1, <1>2, <1>3, <1>4, TopKeeps

LEMMA AbandonKeeps == ASSUME RunInv, Abandon PROVE RunInv'
<1>1. /\ stack # <<>> /\ Top.at = "suspended" /\ UNCHANGED <<baseline, completion, ran, result>>
      /\ stack' = [stack EXCEPT ![Depth].raised = TRUE, ![Depth].at = "leave"]
      /\ bound' \in {Top.before, bound} /\ leaked' = (leaked \/ bound' # Top.before)
  BY DEF Abandon, Is
<1>. DEFINE f == [Top EXCEPT !.raised = TRUE, !.at = "leave"]
<1>2. /\ Top \in Frame /\ Top = stack[Len(stack)] /\ Depth = Len(stack) /\ stack \in Seq(Frame)
      /\ bound = TRUE /\ leaked \in BOOLEAN /\ ~Top.blocked /\ \A r \in ran : r.bound
      /\ Top.entry = "graph.astream" /\ completion = Top.saved
  BY <1>1, TopFacts
<1>3. stack' = [stack EXCEPT ![Len(stack)] = f]
  BY <1>1, <1>2
<1>4. /\ f \in Frame /\ f.at = "leave" /\ f.raised = TRUE /\ f.entry = Top.entry /\ f.before = Top.before
      /\ f.saved = Top.saved /\ f.phaseOf = Top.phaseOf /\ f.blocked = Top.blocked
  BY <1>2 DEF Frame
<1>. HIDE DEF f
<1>5. bound' \in BOOLEAN /\ leaked' \in BOOLEAN /\ (leaked => leaked') /\ completion' = f.saved
  BY <1>1, <1>2, <1>4 DEF Frame
<1>6. bound' = f.before \/ (leaked' /\ bound')
  BY <1>1, <1>2, <1>4
<1>7. \A r \in ran' : r.bound
  BY <1>1, <1>2
<1>. QED BY <1>1, <1>2, <1>3, <1>4, <1>5, <1>6, <1>7, TopKeeps

LEMMA GovernKeeps == ASSUME RunInv, Govern PROVE RunInv'
<1>1. /\ stack # <<>> /\ Top.at = "govern" /\ UNCHANGED <<baseline, bound, completion, ran, result, leaked>>
  BY DEF Govern, Is
<1>2. PICK blocked \in BOOLEAN :
       stack' = [stack EXCEPT ![Depth].governed = TRUE, ![Depth].blocked = blocked,
                              ![Depth].raised = blocked /\ How.holds, ![Depth].at = "leave"]
  BY DEF Govern
<1>. DEFINE w == (blocked /\ How.holds)
            f == [Top EXCEPT !.governed = TRUE, !.blocked = blocked, !.raised = w, !.at = "leave"]
<1>3. /\ Top \in Frame /\ Top = stack[Len(stack)] /\ Depth = Len(stack) /\ stack \in Seq(Frame)
      /\ bound \in BOOLEAN /\ leaked \in BOOLEAN /\ \A r \in ran : r.bound
      /\ completion = Top.saved /\ (bound = Top.before \/ (leaked /\ bound))
  BY <1>1, TopFacts
<1>4. stack' = [stack EXCEPT ![Len(stack)] = f]
  BY <1>2, <1>3
<1>5. w \in BOOLEAN
  OBVIOUS
<1>6. /\ f \in Frame /\ f.at = "leave" /\ f.raised = w /\ f.entry = Top.entry /\ f.before = Top.before
      /\ f.saved = Top.saved /\ f.phaseOf = Top.phaseOf /\ f.blocked = blocked /\ f.governed = TRUE
  <2>. HIDE DEF w
  <2>. QED BY <1>3, <1>5 DEF Frame
<1>7. ~f.raised => (f.blocked => ~Entries[f.entry].holds)
  BY <1>6 DEF How
<1>. HIDE DEF f, w
<1>. QED BY <1>1, <1>3, <1>4, <1>6, <1>7, TopKeeps

LEMMA AllButLast ==
  ASSUME NEW F, NEW s \in Seq(F), s # <<>>
  PROVE  /\ Front(s) \in Seq(F) /\ Len(Front(s)) = Len(s) - 1 /\ Len(s) - 1 \in Nat
         /\ \A i \in 1..(Len(s) - 1) : Front(s)[i] = s[i]
BY TakenApart DEF Front

LEMMA EntryLeaveKeeps == ASSUME RunInv, LeaveEntry PROVE RunInv'
<1>. DEFINE n == Len(stack)
            m == n - 1
<1>1. /\ stack # <<>> /\ Top.at = "leave" /\ UNCHANGED <<baseline, bound, completion, ran, leaked>>
           /\ stack' = Front(stack)
      /\ result' = [of |-> Top.entry, raised |-> Top.raised, governed |-> Top.governed, blocked |-> Top.blocked]
  BY DEF LeaveEntry, Is
<1>2. /\ Top \in Frame /\ Top = stack[n] /\ stack \in Seq(Frame) /\ n \in Nat \ {0}
      /\ bound \in BOOLEAN /\ leaked \in BOOLEAN /\ \A r \in ran : r.bound
      /\ completion = Top.saved /\ (bound = Top.before \/ (leaked /\ bound))
  BY <1>1, TopFacts
<1>3. /\ \A i \in 1..n : FrameFits(stack, i, leaked)
      /\ OuterStands(stack, baseline)
  BY DEF RunInv
<1>4. /\ stack' \in Seq(Frame) /\ Len(stack') = m /\ m \in Nat /\ n = m + 1
      /\ \A i \in 1..m : stack'[i] = stack[i]
  BY <1>1, <1>2, AllButLast
<1>. HIDE DEF n, m
<1>5. \A i \in 0..m : InForce(stack', i) = InForce(stack, i)
  BY <1>4 DEF InForce
<1>6. ASSUME NEW i \in 1..m PROVE FrameFits(stack', i, leaked)
  <2>1. i \in 1..n /\ i - 1 \in 0..m /\ (i > 1 => i - 1 \in 1..m)
    BY <1>4
  <2>2. /\ FrameFits(stack, i, leaked) /\ InForce(stack', i - 1) = InForce(stack, i - 1)
        /\ stack'[i] = stack[i] /\ (i > 1 => stack'[i - 1] = stack[i - 1])
    BY <1>3, <1>4, <1>5, <2>1
  <2>. QED BY <2>2 DEF FrameFits
<1>7. FrameFits(stack, n, leaked)
  BY <1>2, <1>3
<1>8. InContext(stack', bound, leaked, completion)
  <2>1. completion = InForce(stack', m)
    <3>1. completion = InForce(stack, n - 1) /\ n - 1 = m /\ m \in 0..m
      BY <1>2, <1>4, <1>7 DEF FrameFits
    <3>. QED BY <1>5, <3>1
  <2>2. CASE m = 0
    <3>1. stack' = <<>> /\ n = 1
      BY <1>4, <2>2
    <3>2. bound => leaked
      BY <1>2, <1>7, <3>1 DEF FrameFits
    <3>. QED BY <1>4, <2>1, <3>1, <3>2 DEF InContext
  <2>3. CASE m # 0
    <3>1. stack' # <<>> /\ m \in 1..m /\ n > 1 /\ n - 1 = m
      BY <1>4, <2>3
    <3>2. stack'[m].at = "inner" /\ bound = TRUE
      BY <1>2, <1>4, <1>7, <3>1 DEF FrameFits
    <3>. QED BY <1>4, <2>1, <3>1, <3>2 DEF InContext
  <2>. QED BY <2>2, <2>3
<1>9. OuterStands(stack', baseline)
  <2>1. CASE m = 0
    <3>1. stack' = <<>>
      BY <1>4, <2>1
    <3>. QED BY <3>1 DEF OuterStands
  <2>2. CASE m # 0
    <3>1. stack'[1] = stack[1]
      BY <1>4, <2>2
    <3>. QED BY <1>1, <1>3, <3>1 DEF OuterStands
  <2>. QED BY <2>1, <2>2
<1>10. BlockedOutputsAreHeld'
  <2>1. ~Top.raised => /\ Top.blocked => ~Entries[Top.entry].holds
                       /\ Top.governed \/ Entries[Top.entry].governs \in {"nothing", "last"}
                            \/ Top.entry = "mcp.acall_tool"
    BY <1>1, <1>2, <1>7 DEF FrameFits
  <2>2. result'.of = Top.entry /\ result'.raised = Top.raised /\ result'.governed = Top.governed
          /\ result'.blocked = Top.blocked
    BY <1>1
  <2>. QED BY <2>1, <2>2 DEF BlockedOutputsAreHeld
<1>11. baseline \in EntryName \cup {NotSet}
  BY DEF RunInv
<1>. QED BY <1>1, <1>2, <1>4, <1>6, <1>8, <1>9, <1>10, <1>11 DEF RunInv

LEMMA RunStep == RunInv /\ [AnchorNext]_anchorvars => RunInv'
<1>. SUFFICES ASSUME RunInv, [AnchorNext]_anchorvars PROVE RunInv'
  OBVIOUS
<1>1. CASE UNCHANGED <<baseline, bound, completion, stack, ran, result, leaked>>
  BY <1>1 DEF RunInv, BlockedOutputsAreHeld
<1>2. CASE Anchor
  BY <1>1, <1>2 DEF Anchor
<1>3. CASE UNCHANGED anchorvars
  BY <1>1, <1>3 DEF anchorvars
<1>. QED BY <1>2, <1>3, EntryCallKeeps, BeginKeeps, ToolKeeps, McpKeeps, ReturnsKeep, RaisesKeep, YieldKeeps, AbandonKeeps,
            GovernKeeps, EntryLeaveKeeps DEF AnchorNext

(* However the entry points of an anchored agent nest, return, raise or     *)
(* stream, the framework's tools run with the runtime bound, the mission of *)
(* the outermost stands, and no blocked output comes back where a block     *)
(* raises; when the last one is left litellm's functions are put back, and  *)
(* the context too unless a stream was abandoned: for any agents and depth. *)
THEOREM RunsKeepContext == AnchorSpec => []RunsKeepTheirContext
<1>1. RunInv => RunsKeepTheirContext
  <2>. SUFFICES ASSUME RunInv PROVE RunsKeepTheirContext
    OBVIOUS
  <2>1. ContextComesBack
    <3>1. InContext(stack, bound, leaked, completion) /\ \A r \in ran : r.bound
      BY DEF RunInv
    <3>2. stack = <<>> => completion = 0
      <4>1. stack = <<>> => Len(stack) = 0
        OBVIOUS
      <4>. QED BY <3>1, <4>1 DEF InContext, InForce
    <3>. QED BY <3>1, <3>2 DEF ContextComesBack, InContext
  <2>2. OuterMissionStands
    BY DEF RunInv, OuterStands, OuterMissionStands
  <2>. QED BY <2>1, <2>2 DEF RunInv, RunsKeepTheirContext
<1>. QED BY <1>1, RunInit, RunStep, PTL DEF AnchorSpec

-----------------------------------------------------------------------------
(* Anchoring: what is wrapped, and what stays callable.                    *)

Handed == GivenOwn \cup GivenAll

AnchoredWell ==
  /\ agent \in Agents /\ anchored \in Nat
  /\ DOMAIN lists = DOMAIN agent.tools /\ lists = [p \in DOMAIN lists |-> lists[p]]
  /\ \A p \in DOMAIN lists : lists[p] \in Seq(HeldTool)
  /\ ToolsStayCallable /\ WrappedOnce
  /\ anchored > 0 => \A p \in DOMAIN lists : p \in Handed => \A i \in DOMAIN lists[p] : lists[p][i].wraps > 0

ToolInv ==
  /\ AnchoredWell
  /\ stack # <<>> => anchored > 0 /\ stack[1].entry \in Doors
  /\ ListedToolsAreJudged

LEMMA AnchoredTypes ==
  ASSUME AnchoredWell
  PROVE  LinksAreLinks /\ ToolsTyped /\ DOMAIN lists \subseteq Part
<1>1. LinksAreLinks /\ DOMAIN lists \subseteq Part
  BY AgentsAssumption DEF AnchoredWell, LinksAreLinks
<1>2. ToolsTyped
  <2>1. <<>> \in Seq(HeldTool)
    OBVIOUS
  <2>. HIDE DEF HeldTool
  <2>. QED BY <2>1 DEF AnchoredWell, ToolsTyped, ToolsAt
<1>. QED BY <1>1, <1>2

(* wrap_tool_list keeps the tools, wraps each, and twice only LangChain's. *)
LEMMA WrapListKeeps ==
  ASSUME NEW s \in Seq(HeldTool)
  PROVE  /\ WrapList(s) \in Seq(HeldTool) /\ NamesOf(WrapList(s)) = NamesOf(s)
         /\ \A i \in DOMAIN WrapList(s) : WrapList(s)[i].wraps > 0
         /\ (\A i \in DOMAIN s : s[i].wraps <= 1 \/ s[i].base) =>
              \A i \in DOMAIN WrapList(s) : WrapList(s)[i].wraps <= 1 \/ WrapList(s)[i].base
<1>. DEFINE n == Len(s)
            w == WrapList(s)
<1>1. n \in Nat /\ DOMAIN s = 1..n /\ \A i \in 1..n : s[i] \in HeldTool
  OBVIOUS
<1>2. DOMAIN w = 1..n /\ w = [i \in 1..n |-> w[i]]
      /\ \A i \in 1..n : w[i] = IF s[i].wraps > 0 /\ ~s[i].base THEN s[i] ELSE [s[i] EXCEPT !.wraps = @ + 1]
  BY <1>1 DEF WrapList
<1>. HIDE DEF n, w
<1>3. \A i \in 1..n : /\ w[i] \in HeldTool /\ w[i].name = s[i].name /\ w[i].wraps > 0
                      /\ s[i].wraps <= 1 \/ s[i].base => w[i].wraps <= 1 \/ w[i].base
  <2>. TAKE i \in 1..n
  <2>1. PICK t \in HeldTool : t = s[i]
    BY <1>1
  <2>2. w[i] = IF t.wraps > 0 /\ ~t.base THEN t ELSE [t EXCEPT !.wraps = @ + 1]
    BY <1>2, <2>1
  <2>3. CASE t.wraps > 0 /\ ~t.base
    BY <2>1, <2>2, <2>3
  <2>4. CASE ~(t.wraps > 0 /\ ~t.base)
    <3>1. w[i] = [name |-> t.name, base |-> t.base, wraps |-> t.wraps + 1] /\ t.wraps \in Nat
      BY <2>2, <2>4 DEF HeldTool
    <3>2. w[i] \in HeldTool /\ w[i].name = t.name /\ w[i].wraps = t.wraps + 1
      BY <3>1 DEF HeldTool
    <3>3. t.wraps <= 1 \/ t.base => w[i].wraps <= 1 \/ w[i].base
      <4>1. t.base => w[i].base
        BY <3>1
      <4>2. ~t.base => t.wraps = 0
        BY <2>4, <3>1
      <4>. QED BY <3>2, <4>1, <4>2
    <3>. QED BY <2>1, <3>1, <3>2, <3>3
  <2>. QED BY <2>3, <2>4
<1>4. w \in Seq(HeldTool)
  BY <1>1, <1>2, <1>3
<1>5. NamesOf(w) = NamesOf(s)
  BY <1>1, <1>2, <1>3 DEF NamesOf
<1>6. (\A i \in 1..n : s[i].wraps <= 1 \/ s[i].base) => \A i \in 1..n : w[i].wraps <= 1 \/ w[i].base
  BY <1>3
<1>7. \A i \in 1..n : w[i].wraps > 0
  BY <1>3
<1>. QED BY <1>1, <1>2, <1>4, <1>5, <1>6, <1>7 DEF w

(* What is handed a list of tools can be reached.                          *)
LEMMA HandedReached ==
  ASSUME AnchoredWell
  PROVE  GivenAll \subseteq ReachableParts
<1>1. "root" \in ReachableParts
  BY DEF ReachableParts, ReachableFrom, Part
<1>2. \A v : Members(v) \subseteq ReachableParts
  <2>. SUFFICES ASSUME NEW v, NEW q \in Members(v) PROVE q \in ReachableParts
    OBVIOUS
  <2>1. PICK i \in DOMAIN agent.links["root"] : q = agent.links["root"][i].to
    BY DEF Members
  <2>2. q \in Part
    <3>1. agent.links["root"] \in Seq(Link)
      BY AnchoredTypes DEF LinksAreLinks, Part
    <3>2. agent.links["root"][i] \in Link
      BY <3>1
    <3>. QED BY <2>1, <3>2 DEF Link
  <2>. QED BY <2>1, <2>2 DEF ReachableParts, ReachableFrom
<1>. QED BY <1>1, <1>2 DEF GivenAll

LEMMA AdapterIs ==
  Adapter \in {"asha", "crewai", "graph", "mcp", "langchain", "group", "autogen", "llamaindex", "generic"}
BY DEF Adapter, AdapterFor

LEMMA ToolInit == AnchorInit => ToolInv
<1>. SUFFICES ASSUME AnchorInit PROVE ToolInv
  OBVIOUS
<1>1. /\ agent \in Agents /\ anchored = 0 /\ stack = <<>> /\ ran = {}
      /\ lists = [p \in DOMAIN agent.tools |-> [i \in DOMAIN agent.tools[p] |->
                    [name |-> agent.tools[p][i].name, base |-> agent.tools[p][i].base, wraps |-> 0]]]
  BY DEF AnchorInit
<1>2. ASSUME NEW p \in DOMAIN lists
      PROVE  /\ lists[p] \in Seq(HeldTool) /\ NamesOf(lists[p]) = NamesOf(agent.tools[p])
             /\ \A i \in DOMAIN lists[p] : lists[p][i].wraps = 0
  <2>. DEFINE s == agent.tools[p]
              n == Len(s)
              w == lists[p]
  <2>1. s \in Seq(ToolObj)
    BY <1>1, AgentsAssumption
  <2>2. w = [i \in DOMAIN s |-> [name |-> s[i].name, base |-> s[i].base, wraps |-> 0]]
    BY <1>1
  <2>. HIDE DEF s, w
  <2>3. n \in Nat /\ DOMAIN s = 1..n /\ \A i \in 1..n : s[i] \in ToolObj
    BY <2>1
  <2>. HIDE DEF n
  <2>4. \A i \in 1..n : [name |-> s[i].name, base |-> s[i].base, wraps |-> 0] \in HeldTool
    BY <2>3 DEF ToolObj, HeldTool
  <2>5. w \in Seq(HeldTool)
    BY <2>2, <2>3, <2>4
  <2>6. DOMAIN w = DOMAIN s /\ \A i \in DOMAIN w : w[i].name = s[i].name /\ w[i].wraps = 0
    BY <2>2
  <2>7. NamesOf(w) = NamesOf(s)
    BY <2>6 DEF NamesOf
  <2>. QED BY <2>5, <2>6, <2>7 DEF s, w
<1>3. DOMAIN lists = DOMAIN agent.tools /\ lists = [p \in DOMAIN lists |-> lists[p]]
  BY <1>1
<1>4. ToolsStayCallable /\ WrappedOnce
  BY <1>2 DEF ToolsStayCallable, WrappedOnce
<1>5. AnchoredWell
  BY <1>1, <1>2, <1>3, <1>4 DEF AnchoredWell
<1>. QED BY <1>1, <1>5 DEF ToolInv, ListedToolsAreJudged

(* What is discovered is wrapped once too.                                 *)
LEMMA DiscoveredOnce ==
  ASSUME AnchoredWell
  PROVE  \A i \in DOMAIN DiscoverTools : DiscoverTools[i].wraps <= 1 \/ DiscoverTools[i].base
<1>1. ToSet(DiscoverTools) \subseteq AllTools
  BY AnchoredTypes, DiscoveryFinds
<1>2. \A x \in AllTools : x.wraps <= 1 \/ x.base
  <2>1. ASSUME NEW q \in Part, NEW x \in ToSet(ToolsAt(q)) PROVE x.wraps <= 1 \/ x.base
    <3>1. q \in DOMAIN lists /\ ToolsAt(q) = lists[q]
      BY <2>1 DEF ToolsAt, ToSet
    <3>2. PICK i \in DOMAIN lists[q] : x = lists[q][i]
      BY <2>1, <3>1 DEF ToSet
    <3>. QED BY <3>1, <3>2 DEF AnchoredWell, WrappedOnce
  <2>. QED BY <2>1 DEF AllTools
<1>3. \A i \in DOMAIN DiscoverTools : DiscoverTools[i] \in ToSet(DiscoverTools)
  BY DEF ToSet
<1>. QED BY <1>1, <1>2, <1>3

LEMMA AnchorWraps ==
  ASSUME AnchoredWell, Anchor
  PROVE  AnchoredWell'
<1>1. anchored' = anchored + 1 /\ lists' = WrapTools /\ agent' = agent /\ agent \in Agents /\ anchored \in Nat
  BY DEF Anchor, AnchoredWell
<1>2. DOMAIN lists' = DOMAIN lists /\ lists' = [p \in DOMAIN lists |-> lists'[p]]
      /\ \A p \in DOMAIN lists : lists'[p] = IF p \in GivenOwn THEN WrapList(lists[p])
                                             ELSE IF p \in GivenAll
                                               /\ DiscoverTools # <<>> THEN WrapList(DiscoverTools)
                                             ELSE lists[p]
  BY <1>1 DEF WrapTools
<1>3. /\ DOMAIN lists = DOMAIN agent.tools
      /\ \A p \in DOMAIN lists : lists[p] \in Seq(HeldTool)
           /\ NamesOf(agent.tools[p]) \subseteq NamesOf(lists[p])
      /\ \A p \in DOMAIN lists : \A i \in DOMAIN lists[p] : lists[p][i].wraps <= 1 \/ lists[p][i].base
  BY DEF AnchoredWell, ToolsStayCallable, WrappedOnce
<1>4. /\ DiscoverTools \in Seq(HeldTool)
      /\ \A q \in ReachableParts : NamesOf(ToolsAt(q)) \subseteq NamesOf(DiscoverTools)
  BY AnchoredTypes, DiscoveryFinds
<1>5. ASSUME NEW p \in DOMAIN lists
      PROVE  /\ lists'[p] \in Seq(HeldTool) /\ NamesOf(lists[p]) \subseteq NamesOf(lists'[p])
             /\ \A i \in DOMAIN lists'[p] : lists'[p][i].wraps <= 1 \/ lists'[p][i].base
             /\ p \in Handed => \A i \in DOMAIN lists'[p] : lists'[p][i].wraps > 0
  <2>1. CASE p \in GivenOwn
    <3>1. lists'[p] = WrapList(lists[p]) /\ lists[p] \in Seq(HeldTool)
      BY <1>2, <1>3, <2>1
    <3>2. \A i \in DOMAIN lists[p] : lists[p][i].wraps <= 1 \/ lists[p][i].base
      BY <1>3
    <3>. HIDE DEF HeldTool
    <3>. QED BY <3>1, <3>2, WrapListKeeps
  <2>2. CASE p \notin GivenOwn /\ p \in GivenAll
    <3>1. ToolsAt(p) = lists[p] /\ p \in ReachableParts
      BY <2>2, HandedReached DEF ToolsAt
    <3>2. NamesOf(lists[p]) \subseteq NamesOf(DiscoverTools)
      BY <1>4, <3>1
    <3>3. CASE DiscoverTools = <<>>
      <4>1. lists'[p] = lists[p]
        BY <1>2, <2>2, <3>3
      <4>2. NamesOf(lists[p]) = {}
        BY <3>2, <3>3 DEF NamesOf
      <4>3. DOMAIN lists[p] = {}
        BY <4>2 DEF NamesOf
      <4>. QED BY <1>3, <4>1, <4>3
    <3>4. CASE DiscoverTools # <<>>
      <4>1. lists'[p] = WrapList(DiscoverTools)
        BY <1>2, <2>2, <3>4
      <4>2. \A i \in DOMAIN DiscoverTools : DiscoverTools[i].wraps <= 1 \/ DiscoverTools[i].base
        BY DiscoveredOnce
      <4>. HIDE DEF HeldTool
      <4>. QED BY <1>4, <3>2, <4>1, <4>2, WrapListKeeps
    <3>. QED BY <3>3, <3>4
  <2>3. CASE p \notin GivenOwn /\ p \notin GivenAll
    <3>1. lists'[p] = lists[p] /\ p \notin Handed
      BY <1>2, <2>3 DEF Handed
    <3>. QED BY <1>3, <3>1
  <2>. QED BY <2>1, <2>2, <2>3
<1>6. Handed' = Handed
  BY <1>1 DEF Handed, GivenOwn, GivenAll, Adapter, Members
<1>7. ToolsStayCallable' /\ WrappedOnce'
  BY <1>1, <1>2, <1>3, <1>5 DEF ToolsStayCallable, WrappedOnce
<1>. QED BY <1>1, <1>2, <1>3, <1>5, <1>6, <1>7 DEF AnchoredWell

(* What depends on the agent and its tools alone.                          *)
LEMMA AgentStays ==
  ASSUME AnchoredWell, UNCHANGED <<agent, lists, anchored>>
  PROVE  AnchoredWell' /\ Doors' = Doors
<1>1. agent' = agent /\ lists' = lists /\ anchored' = anchored
  OBVIOUS
<1>2. Adapter' = Adapter /\ \A v : Members(v)' = Members(v)
  BY <1>1 DEF Adapter, Members
<1>3. Doors' = Doors
  BY <1>2 DEF Doors
<1>4. Handed' = Handed
  BY <1>2 DEF Handed, GivenOwn, GivenAll
<1>5. ToolsStayCallable' = ToolsStayCallable /\ WrappedOnce' = WrappedOnce
  BY <1>1 DEF ToolsStayCallable, WrappedOnce
<1>. HIDE DEF HeldTool, ToolsStayCallable, WrappedOnce
<1>6. AnchoredWell'
  BY <1>1, <1>4, <1>5 DEF AnchoredWell
<1>. QED BY <1>3, <1>6

(* The outermost entry point, whose tools are not asked here of a server.  *)
LEMMA NotAServer ==
  ASSUME ToolInv, RunInv, stack # <<>>, Top.entry \notin ToolEntries
  PROVE  Adapter # "mcp"
<1>. SUFFICES ASSUME Adapter = "mcp" PROVE FALSE
  OBVIOUS
<1>1. /\ stack \in Seq(Frame) /\ Len(stack) \in Nat \ {0} /\ Top = stack[Len(stack)]
      /\ \A i \in 1..Len(stack) : FrameFits(stack, i, leaked)
  BY TopFacts DEF RunInv
<1>2. stack[1].entry \in ToolEntries
  <2>1. stack[1].entry \in Doors
    BY DEF ToolInv
  <2>. QED BY <2>1 DEF Doors, McpEntries, ToolEntries
<1>3. Len(stack) # 1
  BY <1>1, <1>2
<1>4. 2 \in 1..Len(stack)
  <2>1. \A n \in Nat \ {0} : n # 1 => 2 \in 1..n
    OBVIOUS
  <2>. QED BY <1>1, <1>3, <2>1
<1>5. stack[2].entry \in Entries[stack[1].entry].within
  <2>1. FrameFits(stack, 2, leaked)
    BY <1>1, <1>4
  <2>. QED BY <2>1 DEF FrameFits
<1>6. \A e \in ToolEntries : Entries[e].within = {}
  <2>1. \A e \in EntryName : EntryFits(e)
    BY EntriesAre
  <2>2. ToolEntries \subseteq EntryName
    BY DEF ToolEntries, EntryName
  <2>. QED BY <2>1, <2>2 DEF EntryFits, ToolEntries
<1>. QED BY <1>2, <1>5, <1>6

(* What runs unjudged was not handed to the adapter.                       *)
LEMMA UnjudgedIsOthers ==
  ASSUME ToolInv, RunInv, stack # <<>>, Top.entry \notin ToolEntries,
         NEW p \in DOMAIN lists, NEW i \in DOMAIN lists[p], ~(lists[p][i].wraps > 0)
  PROVE  /\ p # "root" \/ Adapter \in {"group", "crewai"}
         /\ p \notin Members("agents") \/ Adapter \notin {"group", "crewai"}
         /\ p \notin Members("nodes") \/ Adapter # "graph"
<1>1. p \notin Handed
  <2>1. anchored > 0 /\ AnchoredWell
    BY DEF ToolInv
  <2>. QED BY <2>1 DEF AnchoredWell
<1>2. Adapter # "mcp"
  BY NotAServer
<1>3. p \notin GivenOwn /\ p \notin GivenAll
  BY <1>1 DEF Handed
<1>4. Adapter \in {"langchain", "llamaindex", "graph"} => "root" \in GivenAll
  BY DEF GivenAll
<1>5. Adapter \in {"generic", "autogen", "asha"} => "root" \in GivenOwn
  BY DEF GivenOwn
<1>6. Adapter \in {"group", "crewai"} => Members("agents") \subseteq GivenOwn
  BY DEF GivenOwn
<1>7. Adapter = "graph" => Members("nodes") \subseteq GivenOwn
  BY DEF GivenOwn
<1>. QED BY <1>2, <1>3, <1>4, <1>5, <1>6, <1>7, AdapterIs

LEMMA ToolsJudged ==
  ASSUME ToolInv, RunInv, FrameworkTool
  PROVE  ToolInv'
<1>1. stack # <<>> /\ Top.entry \notin ToolEntries /\ UNCHANGED <<agent, lists, anchored, stack>>
  BY DEF FrameworkTool, Is, Untouched
<1>7. PICK p \in DOMAIN lists :
        \E i \in DOMAIN lists[p] :
          ran' = ran \cup {[part |-> p, judged |-> lists[p][i].wraps > 0, bound |-> bound]}
  BY DEF FrameworkTool
<1>2. PICK i \in DOMAIN lists[p] : ran' = ran \cup {[part |-> p, judged |-> lists[p][i].wraps > 0, bound |-> bound]}
  BY <1>7
<1>. DEFINE e == [part |-> p, judged |-> lists[p][i].wraps > 0, bound |-> bound]
<1>3. e.part = p /\ (e.judged <=> lists[p][i].wraps > 0)
  OBVIOUS
<1>4. ran' = ran \cup {e}
  BY <1>2
<1>. HIDE DEF e
<1>5. ~e.judged => /\ p # "root" \/ Adapter \in {"group", "crewai"}
                   /\ p \notin Members("agents") \/ Adapter \notin {"group", "crewai"}
                   /\ p \notin Members("nodes") \/ Adapter # "graph"
  BY <1>1, <1>3, UnjudgedIsOthers
<1>6. AnchoredWell' /\ Doors' = Doors
  BY <1>1, AgentStays DEF ToolInv
<1>8. ListedToolsAreJudged'
  <2>1. \A v : Members(v)' = Members(v)
    BY <1>1 DEF Members
  <2>2. Adapter' = Adapter
    BY <1>1 DEF Adapter
  <2>3. ASSUME NEW r \in ran', ~r.judged
        PROVE  /\ r.part # "root" \/ Adapter \in {"group", "crewai"}
               /\ r.part \notin Members("agents") \/ Adapter \notin {"group", "crewai"}
               /\ r.part \notin Members("nodes") \/ Adapter # "graph"
    <3>1. CASE r \in ran
      BY <2>3, <3>1 DEF ToolInv, ListedToolsAreJudged
    <3>2. CASE r = e
      BY <1>3, <1>5, <2>3, <3>2
    <3>. QED BY <1>4, <3>1, <3>2
  <2>. QED BY <2>1, <2>2, <2>3 DEF ListedToolsAreJudged
<1>. QED BY <1>1, <1>6, <1>8 DEF ToolInv

(* A step that leaves the agent and what ran alone, and the outermost      *)
(* entry point where it is.                                                *)
LEMMA ToolInvStays ==
  ASSUME ToolInv, UNCHANGED <<agent, lists, anchored, ran>>,
         stack' # <<>> => anchored > 0 /\ stack'[1].entry \in Doors
  PROVE  ToolInv'
<1>1. AnchoredWell' /\ Doors' = Doors
  BY AgentStays DEF ToolInv
<1>2. ListedToolsAreJudged'
  <2>1. \A v : Members(v)' = Members(v)
    BY DEF Members
  <2>2. Adapter' = Adapter
    BY DEF Adapter
  <2>. QED BY <2>1, <2>2 DEF ToolInv, ListedToolsAreJudged
<1>. QED BY <1>1, <1>2 DEF ToolInv

LEMMA CallsFromDoors ==
  ASSUME ToolInv, RunInv, NEW e \in DOMAIN Entries, Call(e)
  PROVE  ToolInv'
<1>1. /\ UNCHANGED <<agent, lists, anchored, ran>> /\ anchored > 0 /\ (stack = <<>> => e \in Doors)
      /\ \E f : f.entry = e /\ stack' = Append(stack, f)
  BY DEF Call, Untouched
<1>2. PICK f : f.entry = e /\ stack' = Append(stack, f)
  BY <1>1
<1>3. stack \in Seq(Frame) /\ (stack # <<>> => Len(stack) >= 1)
  BY DEF RunInv
<1>4. stack'[1].entry \in Doors
  <2>1. CASE stack = <<>>
    <3>1. stack'[1] = f
      BY <1>2, <2>1
    <3>. QED BY <1>1, <1>2, <2>1, <3>1
  <2>2. CASE stack # <<>>
    <3>1. stack'[1] = stack[1]
      BY <1>2, <1>3, <2>2
    <3>. QED BY <2>2, <3>1 DEF ToolInv
  <2>. QED BY <2>1, <2>2
<1>. QED BY <1>1, <1>4, ToolInvStays

(* What the innermost entry point is like does not matter.                 *)
LEMMA OutermostStays ==
  ASSUME ToolInv, RunInv, stack # <<>>, NEW f, stack' = [stack EXCEPT ![Depth] = f], f.entry = Top.entry
  PROVE  anchored > 0 /\ stack'[1].entry \in Doors
<1>1. stack \in Seq(Frame) /\ Len(stack) \in Nat \ {0} /\ Top = stack[Len(stack)] /\ Depth = Len(stack)
  BY TopFacts
<1>2. stack'[1].entry = stack[1].entry
  BY <1>1
<1>. QED BY <1>2 DEF ToolInv

LEMMA StepsKeepTools ==
  ASSUME ToolInv, RunInv, Begin \/ InnerReturns \/ InnerRaises \/ YieldChunk \/ Resume \/ Abandon \/ Govern
  PROVE  ToolInv'
<1>1. stack # <<>> /\ UNCHANGED <<agent, lists, anchored, ran>>
  BY DEF Begin, InnerReturns, InnerRaises, YieldChunk, Resume, Abandon, Govern, Is, Untouched
<1>2. Top = stack[Depth] /\ Top \in Frame /\ Depth \in DOMAIN stack
  BY <1>1, TopFacts
<1>3. \E f : stack' = [stack EXCEPT ![Depth] = f] /\ f.entry = Top.entry
  <2>1. ASSUME NEW label, stack' = Goto(label)
        PROVE \E f : stack' = [stack EXCEPT ![Depth] = f] /\ f.entry = Top.entry
    <3>. DEFINE f == [Top EXCEPT !.at = label]
    <3>1. stack' = [stack EXCEPT ![Depth] = f] /\ f.entry = Top.entry
      BY <1>2, <2>1 DEF Goto, Frame
    <3>. QED BY <3>1
  <2>2. CASE Begin
    BY <2>1, <2>2 DEF Begin
  <2>3. CASE InnerReturns
    <3>1. \E label : stack' = Goto(label)
      BY <2>3 DEF InnerReturns
    <3>. QED BY <2>1, <3>1
  <2>4. CASE InnerRaises \/ Abandon
    <3>. DEFINE f == [Top EXCEPT !.raised = TRUE, !.at = "leave"]
    <3>1. stack' = [stack EXCEPT ![Depth] = f] /\ f.entry = Top.entry
      BY <1>2, <2>4 DEF InnerRaises, Abandon, Frame
    <3>. QED BY <3>1
  <2>5. CASE YieldChunk
    <3>. DEFINE f == [Top EXCEPT !.chunks = TRUE, !.at = "suspended"]
    <3>1. stack' = [stack EXCEPT ![Depth] = f] /\ f.entry = Top.entry
      BY <1>2, <2>5 DEF YieldChunk, Frame
    <3>. QED BY <3>1
  <2>6. CASE Resume
    BY <2>1, <2>6 DEF Resume
  <2>7. CASE Govern
    <3>1. PICK b \in BOOLEAN : stack' = [stack EXCEPT ![Depth].governed = TRUE, ![Depth].blocked = b,
                                                      ![Depth].raised = b /\ How.holds, ![Depth].at = "leave"]
      BY <2>7 DEF Govern
    <3>2. PICK h : h = (b /\ How.holds)
      OBVIOUS
    <3>. DEFINE f == [Top EXCEPT !.governed = TRUE, !.blocked = b, !.raised = h, !.at = "leave"]
    <3>3. stack' = [stack EXCEPT ![Depth] = f]
      BY <1>2, <3>1, <3>2
    <3>4. f.entry = Top.entry
      BY <1>2 DEF Frame
    <3>. QED BY <3>3, <3>4
  <2>. QED BY <2>2, <2>3, <2>4, <2>5, <2>6, <2>7
<1>4. anchored > 0 /\ stack'[1].entry \in Doors
  BY <1>1, <1>3, OutermostStays
<1>. QED BY <1>1, <1>4, ToolInvStays

LEMMA ServerToolsJudged == ASSUME ToolInv, RunInv, McpTool PROVE ToolInv'
<1>1. stack # <<>> /\ UNCHANGED <<agent, lists, anchored>>
  BY DEF McpTool, Is, Untouched
<1>2. PICK allowed \in BOOLEAN, raises \in BOOLEAN :
        /\ ran' = ran \cup IF allowed THEN {[part |-> "server", judged |-> TRUE, bound |-> bound]} ELSE {}
        /\ stack' = [stack EXCEPT
             ![Depth].raised = raises,
             ![Depth].at = IF raises \/ (~allowed /\ Top.entry = "mcp.acall_tool") THEN "leave" ELSE "govern"]
  BY DEF McpTool
<1>. DEFINE l == IF raises \/ (~allowed /\ Top.entry = "mcp.acall_tool") THEN "leave" ELSE "govern"
            f == [Top EXCEPT !.raised = raises, !.at = l]
            e == [part |-> "server", judged |-> TRUE, bound |-> bound]
<1>3. Top = stack[Depth] /\ Top \in Frame /\ Depth \in DOMAIN stack
  BY <1>1, TopFacts
<1>4. stack' = [stack EXCEPT ![Depth] = f]
  BY <1>2, <1>3
<1>5. f.entry = Top.entry
  BY <1>3 DEF Frame
<1>6. e.judged /\ \A r \in ran' : r \in ran \/ r = e
  BY <1>2
<1>. HIDE DEF l, f, e
<1>7. anchored > 0 /\ stack'[1].entry \in Doors
  BY <1>1, <1>4, <1>5, OutermostStays
<1>8. AnchoredWell' /\ Doors' = Doors
  BY <1>1, AgentStays DEF ToolInv
<1>9. ListedToolsAreJudged'
  <2>1. \A v : Members(v)' = Members(v)
    BY <1>1 DEF Members
  <2>2. Adapter' = Adapter
    BY <1>1 DEF Adapter
  <2>3. \A r \in ran' : ~r.judged => r \in ran
    BY <1>6
  <2>. QED BY <2>1, <2>2, <2>3 DEF ToolInv, ListedToolsAreJudged
<1>. QED BY <1>1, <1>7, <1>8, <1>9 DEF ToolInv

LEMMA LeavingKeepsTools == ASSUME ToolInv, RunInv, LeaveEntry PROVE ToolInv'
<1>1. stack # <<>> /\ stack' = Front(stack) /\ UNCHANGED <<agent, lists, anchored, ran>>
  BY DEF LeaveEntry, Is, Untouched
<1>2. /\ stack \in Seq(Frame) /\ stack' \in Seq(Frame) /\ Len(stack') = Len(stack) - 1 /\ Len(stack) \in Nat
      /\ \A i \in 1..(Len(stack) - 1) : stack'[i] = stack[i]
  <2>1. stack \in Seq(Frame)
    BY DEF RunInv
  <2>. QED BY <1>1, <2>1, AllButLast
<1>3. stack' # <<>> => stack'[1] = stack[1]
  <2>1. stack' # <<>> => 1 \in 1..(Len(stack) - 1)
    BY <1>2
  <2>. QED BY <1>2, <2>1
<1>4. stack' # <<>> => anchored > 0 /\ stack'[1].entry \in Doors
  BY <1>1, <1>3 DEF ToolInv
<1>. QED BY <1>1, <1>4, ToolInvStays

LEMMA ToolStep == ToolInv /\ RunInv /\ [AnchorNext]_anchorvars => ToolInv'
<1>. SUFFICES ASSUME ToolInv, RunInv, [AnchorNext]_anchorvars PROVE ToolInv'
  OBVIOUS
<1>1. CASE Anchor
  <2>1. AnchoredWell'
    BY <1>1, AnchorWraps DEF ToolInv
  <2>2. stack' = <<>> /\ UNCHANGED <<agent, ran>>
    BY <1>1 DEF Anchor
  <2>3. ListedToolsAreJudged'
    <3>1. \A v : Members(v)' = Members(v)
      BY <2>2 DEF Members
    <3>2. Adapter' = Adapter
      BY <2>2 DEF Adapter
    <3>. QED BY <2>2, <3>1, <3>2 DEF ToolInv, ListedToolsAreJudged
  <2>. QED BY <2>1, <2>2, <2>3 DEF ToolInv
<1>2. CASE UNCHANGED anchorvars
  <2>1. UNCHANGED <<agent, lists, anchored, ran, stack>>
    BY <1>2 DEF anchorvars
  <2>2. stack' # <<>> => anchored > 0 /\ stack'[1].entry \in Doors
    BY <2>1 DEF ToolInv
  <2>. QED BY <2>1, <2>2, ToolInvStays
<1>. QED BY <1>1, <1>2, CallsFromDoors, StepsKeepTools, ToolsJudged, ServerToolsJudged, LeavingKeepsTools DEF AnchorNext

(* Whatever an agent is made of and however often it is anchored, one tool *)
(* of every name that can be reached is found, around any cycle of links;  *)
(* no part loses a name it could call; no tool is judged twice but         *)
(* LangChain's own; and no tool the adapter was to wrap runs unjudged.     *)
THEOREM ToolsGoverned == AnchorSpec => []ToolsAreGoverned
<1>1. ToolInv => ToolsAreGoverned
  <2>. SUFFICES ASSUME ToolInv PROVE ToolsAreGoverned
    OBVIOUS
  <2>1. AnchoredWell
    BY DEF ToolInv
  <2>2. DiscoveryIsComplete
    BY <2>1, AnchoredTypes, DiscoveryFinds
  <2>3. ToolsStayCallable /\ WrappedOnce
    BY <2>1 DEF AnchoredWell
  <2>. QED BY <2>2, <2>3 DEF ToolInv, ToolsAreGoverned
<1>. QED BY <1>1, ToolInit, RunInit, ToolStep, RunStep, PTL DEF AnchorSpec
=============================================================================
