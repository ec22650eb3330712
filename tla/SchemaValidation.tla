--------------------------- MODULE SchemaValidation ---------------------------
(***************************************************************************)
(* SchemaValidationMode and SchemaValidator (core/schema_validation.py):   *)
(* validation of a text against a JSON schema or a Pydantic model, and the *)
(* repair loop with its attempts.                                          *)
(*                                                                         *)
(* Of a text matters why it does not parse, whether a pattern of the repair*)
(* engine would damage its strings ("fragile": two apostrophes, or a colon *)
(* after a comma), what it is at its root and how it fits the schema: with *)
(* a missing or a mistyped field, which the Pydantic repair mends, or in a *)
(* way nothing mends ("wrong").                                            *)
(***************************************************************************)
EXTENDS Naturals, FiniteSets

CONSTANTS
  Contents,    \* texts to be validated
  MaxRetries,  \* values of SchemaConfig.max_retries in use
  MaxCalls     \* BOUND: calls of one validator

Flaw == {"comma", "key", "quote", "between", "open", "prose", "damage"}
Text == [flaws : SUBSET Flaw, fragile : BOOLEAN, root : {"object", "list"}, fits : {"fits", "missing", "digits", "wrong"}]

ASSUME SchemaAssumption == Contents \subseteq Text /\ Contents # {} /\ MaxRetries \subseteq Nat /\ MaxCalls \in Nat

VARIABLES
  config,     \* max_retries, enable_auto_repair, and the libraries installed
  switched,   \* SchemaValidationMode.enabled
  stats,      \* validation_stats, and how many calls raised
  svCall,     \* what is validated, and against what
  svAt,       \* "idle", "parse", "repair", "revalidate", "fields", "done"
  content,    \* the text as the repair engine leaves it
  attempt,    \* of repair_json
  outcome      \* of the last call

svvars == <<config, switched, stats, svCall, svAt, content, attempt, outcome>>

Libraries == {"jsonschema", "pydantic"}
Schema == {"none", "dict", "malformed", "model"}
NotYet(t) == [status |-> "none", content |-> t]
Counters == {"total", "successful", "repairs_successful", "failures", "raised"}

SvTypeOK ==
  /\ config \in [retries : MaxRetries, repair : BOOLEAN, installed : SUBSET Libraries]
  /\ switched \in BOOLEAN
  /\ stats \in [Counters -> Nat]
  /\ svCall \in [content : Contents, schema : Schema]
  /\ svAt \in {"idle", "parse", "repair", "revalidate", "fields", "done"}
  /\ content \in Text
  /\ attempt \in Nat
  /\ outcome \in [status : {"none", "valid", "repaired", "failed", "raised", "off"}, content : Text]

SvInit ==
  /\ config \in [retries : MaxRetries, repair : BOOLEAN, installed : SUBSET Libraries]
  /\ switched = TRUE
  /\ stats = [c \in Counters |-> 0]
  /\ svCall = [content |-> CHOOSE c \in Contents : TRUE, schema |-> "none"]
  /\ svAt = "idle" /\ content = svCall.content /\ attempt = 0 /\ outcome = NotYet(content)

-----------------------------------------------------------------------------

(* json.loads accepts it.                                                  *)
Parses(t) == t.flaws = {}

(* The patterns.  The repairs chosen by the message never apply: the       *)
(* parser's messages are capitalised, the table's are not.                 *)
Patterned == {"comma", "key", "quote", "between"}
ApplyRepairs(t) == [t EXCEPT !.flaws = (@ \ Patterned) \cup (IF t.fragile THEN {"damage"} ELSE {})]

(* Braces are balanced; a text that starts otherwise is put in braces.     *)
AggressiveRepair(t) == [t EXCEPT !.flaws = @ \ {"open"}]

Installed(l) == l \in config.installed

(* _validate_against_schema, without jsonschema, only warns.               *)
Checks(schema) == schema \in {"dict", "malformed"} /\ Installed("jsonschema")
Conforms(t) == t.root = "object" /\ t.fits = "fits"

(* Fields are given a default, or a number for its digits.                 *)
FixFields(t) == IF t.fits \in {"missing", "digits"} THEN [t EXCEPT !.fits = "fits"] ELSE t

(* process_with_validation takes a model for a schema it does not know     *)
(* where Pydantic is missing, and a schema it does not know for none.      *)
Chosen == IF svCall.schema = "model" /\ ~Installed("pydantic") THEN "none" ELSE svCall.schema

-----------------------------------------------------------------------------

(* The counter an outcome is entered in.  repairs_attempted stays zero.    *)
Counted(status) ==
  CASE status = "valid" -> {"successful"} [] status = "repaired" -> {"repairs_successful"}
    [] status = "failed" -> {"failures"} [] status = "raised" -> {"raised"}

Finish(status, t) ==
  /\ outcome' = [status |-> status, content |-> t]
  /\ stats' = [c \in Counters |-> stats[c] + (IF c \in Counted(status) THEN 1 ELSE 0)]
  /\ svAt' = "done"

Switch ==
  /\ svAt \in {"idle", "done"}
  /\ switched' = ~switched
  /\ UNCHANGED <<config, stats, svCall, svAt, content, attempt, outcome>>

(* A mode that is disabled calls every text valid, and counts nothing.     *)
ProcessDisabled(c) ==
  /\ svAt \in {"idle", "done"} /\ ~switched
  /\ svCall' = c /\ content' = c.content
  /\ outcome' = [status |-> "off", content |-> c.content]
  /\ svAt' = "done"
  /\ UNCHANGED <<config, switched, stats, attempt>>

ProcessWithValidation(c) ==
  /\ svAt \in {"idle", "done"} /\ switched /\ stats["total"] < MaxCalls
  /\ svCall' = c /\ content' = c.content
  /\ stats' = [stats EXCEPT !["total"] = @ + 1]
  /\ svAt' = "parse" /\ attempt' = 0 /\ outcome' = NotYet(c.content)
  /\ UNCHANGED <<config, switched>>

Step(to) == svAt' = to /\ UNCHANGED <<config, switched, stats, svCall, content, attempt, outcome>>
Over == UNCHANGED <<config, switched, svCall, content, attempt>>

(* The first look at a text that parses, in validate_json.                 *)
ValidateJson ==
  /\ svAt = "parse" /\ Parses(content) /\ Chosen # "model"
  /\ IF Checks(Chosen) /\ Chosen = "malformed" THEN Finish("raised", content) /\ Over
     ELSE IF Checks(Chosen) /\ ~Conforms(content)
          THEN IF config.repair THEN Step("repair") ELSE Finish("failed", content) /\ Over
     ELSE Finish("valid", content) /\ Over

(* In validate_pydantic; a list cannot be passed as keyword arguments.     *)
ValidatePydantic ==
  /\ svAt = "parse" /\ Parses(content) /\ Chosen = "model"
  /\ IF content.root = "list" THEN Finish("raised", content) /\ Over
     ELSE IF Conforms(content) THEN Finish("valid", content) /\ Over
     ELSE IF config.repair THEN Step("repair") ELSE Finish("failed", content) /\ Over

(* Either one's handler of JSONDecodeError.                                *)
ParseFailed ==
  /\ svAt = "parse" /\ ~Parses(content)
  /\ IF config.repair THEN Step("repair") ELSE Finish("failed", content) /\ Over

(* For mutation: the loop goes on until the last attempt is parsed too.    *)
AttemptLate ==
  /\ svAt = "repair" /\ ~Parses(content)
  /\ attempt' = attempt + 1
  /\ content' = LET t == ApplyRepairs(content) IN IF attempt + 1 = config.retries THEN AggressiveRepair(t) ELSE t
  /\ UNCHANGED <<config, switched, stats, svCall, svAt, outcome>>

(* One round of repair_json: the last one's text is not parsed again.      *)
Attempt ==
  /\ svAt = "repair" /\ attempt < config.retries /\ ~Parses(content)
  /\ attempt' = attempt + 1
  /\ content' = LET t == ApplyRepairs(content) IN IF attempt' = config.retries THEN AggressiveRepair(t) ELSE t
  /\ UNCHANGED <<config, switched, stats, svCall, svAt, outcome>>

RepairFailed ==
  /\ svAt = "repair" /\ attempt >= config.retries
  /\ Finish("failed", content) /\ Over

RepairParsed ==
  /\ svAt = "repair" /\ attempt < config.retries /\ Parses(content)
  /\ Step(IF Chosen = "model" /\ Parses(svCall.content) THEN "fields" ELSE "revalidate")

(* After the parse error the list of errors is never empty, so a text that *)
(* is mended fails all the same; after a schema's error _attempt_repair    *)
(* notes that the same text fails again and reports success.               *)
RevalidateJson ==
  /\ svAt = "revalidate" /\ Chosen # "model"
  /\ IF Parses(svCall.content) THEN Finish("repaired", content)
     ELSE Finish(IF Checks(Chosen) /\ Chosen = "malformed" THEN "raised" ELSE "failed", content)
  /\ Over

RevalidatePydantic ==
  /\ svAt = "revalidate" /\ Chosen = "model"
  /\ Finish(IF content.root = "list" THEN "raised" ELSE IF Conforms(content) THEN "repaired" ELSE "failed", content)
  /\ Over

AttemptPydanticRepair ==
  /\ svAt = "fields"
  /\ LET t == FixFields(content) IN Finish(IF Conforms(t) THEN "repaired" ELSE "failed", t)
  /\ Over

SvNext ==
  \/ Switch
  \/ \E t \in Contents, s \in Schema :
       ProcessDisabled([content |-> t, schema |-> s]) \/ ProcessWithValidation([content |-> t, schema |-> s])
  \/ ValidateJson \/ ValidatePydantic \/ ParseFailed
  \/ Attempt \/ RepairFailed \/ RepairParsed
  \/ RevalidateJson \/ RevalidatePydantic \/ AttemptPydanticRepair

SvSpec == SvInit /\ [][SvNext]_svvars

-----------------------------------------------------------------------------
Returned(status) == svAt = "done" /\ outcome.status = status

(* Every call that is counted ends in one counter, or raises, or is still  *)
(* under way: an early return or a nested handler could count twice or not *)
(* at all.                                                                 *)
StatsAddUp ==
  stats["total"] = stats["successful"] + stats["repairs_successful"] + stats["failures"] + stats["raised"]
                     + (IF svAt \in {"idle", "done"} THEN 0 ELSE 1)

(* What is reported VALID by a mode that is on is the text that came in,   *)
(* parses, and conforms wherever the library that can tell is installed.   *)
ValidIsValid ==
  Returned("valid") =>
    /\ outcome.content = svCall.content
    /\ outcome.content.flaws = {}
    /\ svCall.schema = "dict" /\ Installed("jsonschema") => Conforms(outcome.content)
    /\ svCall.schema = "model" /\ Installed("pydantic") => Conforms(outcome.content)

(* What is reported REPAIRED parses, though the loop hands on the text of  *)
(* its last attempt without parsing it, and what a model repaired fits it. *)
RepairedIsUsable ==
  Returned("repaired") =>
    /\ outcome.content.flaws = {}
    /\ svCall.schema = "model" /\ Installed("pydantic") => Conforms(outcome.content)

(* Repairing costs at most max_retries rounds; a text that does not parse  *)
(* needs two of them and no fragile string to come back REPAIRED.          *)
RepairsNeedTwoRounds ==
  /\ attempt <= config.retries
  /\ Returned("repaired") /\ svCall.content.flaws # {} => config.retries >= 2 /\ ~svCall.content.fragile

(* The validator's reports, single and summed up, say what happened.       *)
ReportsAreTrue == SvTypeOK /\ StatsAddUp /\ ValidIsValid /\ RepairedIsUsable /\ RepairsNeedTwoRounds
=============================================================================
