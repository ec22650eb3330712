---------------------------- MODULE WebMiddleware ----------------------------
(***************************************************************************)
(* One HTTP request through the web integrations: ASHAMiddleware of        *)
(* integrations/fastapi, flask and django, the decorators asha_endpoint    *)
(* and asha_view, and FastAPIMiddleware of framework_adapters.             *)
(*                                                                         *)
(* A body is a sequence of fields, in the order of its keys.  What matters *)
(* of a field is where it hangs: "prompt" is a string under a prompt key   *)
(* at the top, "first" and "second" are the contents of two chat messages, *)
(* "inner" is input.text, "dotted" is a top-level key spelled              *)
(* "input.text", "listed" is a string in a list and "plain" a string under *)
(* a key that names no prompt.                                             *)
(***************************************************************************)
EXTENDS Naturals, Sequences, SequencesExt, FiniteSets

CONSTANTS Requests \* the requests to consider

Field == {"prompt", "first", "second", "inner", "dotted", "listed", "plain"}
Nested == {"first", "second", "inner", "listed"}  \* in objects body.copy() shares

Door == {"fastapi", "flask", "django", "adapter", "flask_decorator", "django_decorator"}

Request ==
  [ door    : Door,
    watched : BOOLEAN,                              \* the path is one of the endpoints
    method  : {"POST", "GET"},
    content : {"json", "array", "form", "multipart", "text", "broken"},
                 \* "array": JSON whose root is a list; "broken": JSON that does not parse
    fields  : Seq(Field),
    privacy : BOOLEAN,                              \* privacy / enable_pii_detection
    schema  : BOOLEAN,                              \* enable_schema_validation with a schema
    debug   : BOOLEAN,
    relays  : BOOLEAN,                              \* Starlette hands on the request call_next is given
    reader  : {"plain", "asha"} ]                   \* what a Flask or Django endpoint reads

ASSUME RequestsAssumption ==
  \A r \in Requests :
    /\ r \in Request
    /\ IsInjective(r.fields)
    /\ r.content \in {"form", "multipart"} => ToSet(r.fields) \cap Nested = {}
    /\ r.content = "array" => ToSet(r.fields) \subseteq {"first", "second"}

VARIABLES
  request,
  at,         \* "received", "processing", "forwarding", "failed", "falling", "answered", "raised"
  cached,     \* the body the middleware parsed: what each field holds
  copied,     \* the copy it edits
  todo,       \* prompts found and not processed yet
  counted,    \* prompts_processed
  troubles,   \* fields whose processing was refused or gave the text back as it was
  left,       \* the processed body is where the endpoint can find it
  runs        \* runs of the endpoint: what it saw and whether it raised

webvars == <<request, at, cached, copied, todo, counted, troubles, left, runs>>

Held      == [of : Field, masked : BOOLEAN, braced : BOOLEAN]
Raw(f)    == [of |-> f, masked |-> FALSE, braced |-> FALSE]
Fields    == ToSet(request.fields)
RawBody   == [f \in Fields |-> Raw(f)]
NoFields  == [f \in {} |-> Raw(f)]
Decorated == request.door \in {"flask_decorator", "django_decorator"}

(* Starlette's middlewares and the views hold a request of their own;      *)
(* nothing is shared between two requests.                                 *)
WebInit ==
  /\ request \in Requests
  /\ at = "received"
  /\ cached = RawBody /\ copied = RawBody
  /\ todo = <<>> /\ counted = 0 /\ troubles = {} /\ left = FALSE /\ runs = <<>>

-----------------------------------------------------------------------------
(* _get_request_body and _get_request_data: what there is to process.      *)
FastapiReads == {"json", "array", "form", "multipart"}
FlaskReads   == {"json", "array", "form", "multipart"}
DjangoReads  == {"json", "array", "form", "multipart"}
AdapterReads == {"json", "array"}
HasData ==
  /\ request.method = "POST" /\ request.fields # <<>>
  /\ request.content \in CASE request.door = "fastapi" -> FastapiReads [] request.door = "flask" -> FlaskReads
                            [] request.door = "django" -> DjangoReads   [] OTHER -> AdapterReads

Skipped == request.door # "adapter" /\ ~request.watched

(* _find_prompts: a message's content is found as such and, where "content"*)
(* is one of the prompt fields, once more by the search within the message.*)
Times(n, f) == CASE f \in {"prompt", "inner", "dotted"} -> <<f>> [] f \in {"first", "second"} -> [i \in 1..n |-> f] [] OTHER -> <<>>
FastapiFinds(f) == Times(1, f)

FlaskFinds(f) == Times(2, f)

(* dict(request.POST) holds a list under every key, in which nothing is    *)
(* found.                                                                  *)
DjangoFinds(f) == IF request.content = "form" THEN <<>> ELSE Times(2, f)

FindPrompts(f) ==
  CASE request.door = "fastapi" -> FastapiFinds(f) [] request.door = "flask" -> FlaskFinds(f) [] OTHER -> DjangoFinds(f)

(* FastAPIMiddleware._process_data: every string but those in a list.      *)
FindStrings(f) == IF f = "listed" THEN <<>> ELSE <<f>>

Finds(f) == IF request.door = "adapter" THEN FindStrings(f) ELSE FindPrompts(f)
Found == FlattenSeq([i \in DOMAIN request.fields |-> Finds(request.fields[i])])

(* _update_field splits the path at its dots, so that the key "input.text" *)
(* means input.text; FastAPIMiddleware rebuilds the body key by key.       *)
Target(f) == IF f = "dotted" /\ request.door # "adapter" THEN "inner" ELSE f

(* What process() makes of one text: masked, given back as it came (a      *)
(* degraded result, or mode "off"), or refused with an exception.          *)
Outcomes == IF request.privacy THEN {"masked", "asis", "refused"} ELSE {"asis"}

(* process_with_validation: a prompt is no JSON, its repair fails, and the *)
(* text the last attempt put in braces is taken all the same.              *)
Bring(f, outcome) ==
  [of |-> f, masked |-> outcome = "masked", braced |-> request.door = "adapter" /\ request.schema]

(* _update_field on body.copy(): a nested object is the original's too.    *)
(* A path that leads nowhere is passed over in silence.                    *)
UpdateField(f, v) ==
  LET t == Target(f) IN
    IF t \notin Fields THEN UNCHANGED <<cached, copied>>
    ELSE /\ copied' = [copied EXCEPT ![t] = v]
         /\ cached' = IF t \in Nested /\ request.door # "adapter" THEN [cached EXCEPT ![t] = v] ELSE cached

-----------------------------------------------------------------------------
(* The handlers' early returns; what is looked at is searched for prompts. *)
Take(door, fails) ==
  /\ at = "received" /\ request.door = door
  /\ IF ~Skipped /\ HasData
     THEN IF fails THEN at' = "failed" /\ UNCHANGED todo ELSE at' = "processing" /\ todo' = Found
     ELSE at' = "forwarding" /\ UNCHANGED todo
  /\ UNCHANGED <<request, cached, copied, counted, troubles, left, runs>>

(* body.items() and data.copy() want a dict: a list raises, in the search  *)
(* if not before.                                                          *)
FastapiDispatch      == Take("fastapi", request.content = "array")
FlaskBeforeRequest   == Take("flask", request.content = "array")
DjangoProcessRequest == Take("django", request.content = "array")
AdapterDispatch      == Take("adapter", FALSE)

(* One prompt: a refused one is left as it is and the next is taken, but   *)
(* FastAPIMiddleware gives up.                                             *)
ProcessPrompt(door) ==
  /\ at = "processing" /\ todo # <<>> /\ request.door = door
  /\ \E outcome \in Outcomes :
       LET f == Head(todo) IN
       IF outcome = "refused"
       THEN /\ UNCHANGED <<cached, copied, counted>>
            /\ troubles' = troubles \cup {f}
            /\ at' = IF request.door = "adapter" THEN "failed" ELSE "processing"
       ELSE /\ UpdateField(f, Bring(f, outcome))
            /\ counted' = counted + 1
            /\ troubles' = IF outcome = "asis" THEN troubles \cup {f} ELSE troubles
            /\ at' = at
  /\ todo' = Tail(todo)
  /\ UNCHANGED <<request, left, runs>>

FastapiProcessPrompts == ProcessPrompt("fastapi")
FlaskProcessPrompts   == ProcessPrompt("flask")
DjangoProcessPrompts  == ProcessPrompt("django")
AdapterProcessData    == ProcessPrompt("adapter")

(* What is made of the edited copy: a request with a receive of its own,   *)
(* an attribute of g or of the request, or request._body.                  *)
Leave(door) ==
  /\ at = "processing" /\ todo = <<>> /\ request.door = door
  /\ left' = TRUE
  /\ at' = "forwarding"
  /\ UNCHANGED <<request, cached, copied, todo, counted, troubles, runs>>

CreateProcessedRequest == Leave("fastapi")
FlaskReplaceData       == Leave("flask")
DjangoReplaceData      == Leave("django")
AdapterSetsBody        == Leave("adapter")

(* asha_endpoint and asha_view process the whole body as one text, parsed  *)
(* with no handler around it.  asha_view passes other methods and empty    *)
(* bodies on; Flask's get_json() wants JSON.                               *)
AshaView     == request.door = "django_decorator"
AshaEndpoint == request.door = "flask_decorator"
ViewIsBare ==
  request.method = "GET" \/ request.content = "text" \/ (request.fields = <<>> /\ request.content # "broken")
ViewIsUnreadable     == request.method = "POST" /\ request.content = "broken"
EndpointIsUnreadable == request.content \notin {"json", "array"}

Bare       == AshaView /\ ViewIsBare
Unreadable == (AshaView /\ ViewIsUnreadable) \/ (AshaEndpoint /\ EndpointIsUnreadable)

PassOn ==
  /\ at = "received" /\ Decorated
  /\ \/ Bare /\ at' = "forwarding"
     \/ Unreadable /\ at' = "raised"
  /\ UNCHANGED <<request, cached, copied, todo, counted, troubles, left, runs>>

(* The compiler may make "prose" of the JSON, which json.loads refuses: the*)
(* endpoint then gets the data as it came, as after any failure.           *)
Decorate ==
  /\ at = "received" /\ Decorated /\ ~Bare /\ ~Unreadable
  /\ \E outcome \in Outcomes \cup {"prose"} :
       IF outcome = "masked"
       THEN copied' = [f \in Fields |-> Bring(f, outcome)] /\ UNCHANGED troubles
       ELSE troubles' = Fields /\ UNCHANGED copied
  /\ left' = TRUE /\ at' = "forwarding"
  /\ UNCHANGED <<request, cached, todo, counted, runs>>

-----------------------------------------------------------------------------
(* For mutation: the new request is made of the body that was cached.      *)
SeenCached == IF ~left THEN RawBody ELSE cached

(* A body comes once.  Before 0.28 Starlette reads the endpoint's from the *)
(* request call_next is given: the one the middleware has read brings      *)
(* nothing more, until the client goes.  From 0.28 on it reads the         *)
(* middleware's own request, whatever call_next is given, and hands on what*)
(* body() has kept, but nothing of what form() has read.                   *)
Formed == request.content \in {"form", "multipart"}
Read ==
  /\ request.method = "POST"
  /\ request.door = "fastapi" => request.watched /\ request.content # "text"
Original == IF runs # <<>> \/ (request.relays /\ Read) THEN NoFields ELSE RawBody

(* The new request of ASHAMiddleware has a body of JSON, whatever its      *)
(* content type says.                                                      *)
FastapiSees ==
  CASE request.relays /\ left -> IF Formed THEN NoFields ELSE copied
    [] ~request.relays /\ Read /\ Formed -> NoFields
    [] OTHER -> Original

(* request._body is where body() keeps what it has read.                   *)
AdapterSees == IF left /\ ~request.relays /\ runs = <<>> THEN copied ELSE Original

(* Flask's get_json() is the object the middleware parsed; Django's views  *)
(* parse the body again.  Both may ask for what the middleware left.       *)
Asked         == left /\ request.reader = "asha"
FlaskSees     == IF Asked THEN copied ELSE IF left THEN cached ELSE RawBody
DjangoSees    == IF Asked THEN copied ELSE RawBody
DecoratedSees == IF Asked THEN copied ELSE RawBody

Seen ==
  CASE request.door = "fastapi" -> FastapiSees [] request.door = "flask" -> FlaskSees
    [] request.door = "django" -> DjangoSees   [] request.door = "adapter" -> AdapterSees
    [] OTHER -> DecoratedSees

(* Both Starlette middlewares call the endpoint inside the try whose       *)
(* handler calls it again; only requests they do not look at are outside.  *)
AfterRaise ==
  IF \/ at = "falling"
     \/ request.door = "fastapi" /\ ~request.watched
     \/ request.door = "adapter" /\ request.method # "POST"
     \/ request.door \notin {"fastapi", "adapter"}
  THEN "raised" ELSE "failed"

CallEndpoint ==
  /\ at \in {"forwarding", "falling"}
  /\ \E raises \in BOOLEAN :
       /\ runs' = Append(runs, [saw |-> Seen, raised |-> raises])
       /\ at' = IF raises THEN AfterRaise ELSE "answered"
  /\ UNCHANGED <<request, cached, copied, todo, counted, troubles, left>>

(* "Fail gracefully - continue with original request".  FastAPIMiddleware  *)
(* has put the processed body into the request by then, if it got that far;*)
(* in debug mode it answers 500.                                           *)
FailOpen ==
  /\ at = "failed"
  /\ left' = (left /\ request.door = "adapter")
  /\ at' = IF request.door = "adapter" /\ request.debug THEN "answered" ELSE "falling"
  /\ UNCHANGED <<request, cached, copied, todo, counted, troubles, runs>>

WebNext ==
  \/ FastapiDispatch \/ FlaskBeforeRequest \/ DjangoProcessRequest \/ AdapterDispatch
  \/ FastapiProcessPrompts \/ FlaskProcessPrompts \/ DjangoProcessPrompts \/ AdapterProcessData
  \/ CreateProcessedRequest \/ FlaskReplaceData \/ DjangoReplaceData \/ AdapterSetsBody
  \/ PassOn \/ Decorate \/ CallEndpoint \/ FailOpen

WebSpec == WebInit /\ [][WebNext]_webvars

-----------------------------------------------------------------------------
WebTypeOK ==
  /\ at \in {"received", "processing", "forwarding", "failed", "falling", "answered", "raised"}
  /\ cached \in [Fields -> Held] /\ copied \in [Fields -> Held]
  /\ ToSet(todo) \subseteq Fields
  /\ counted \in 0..(2 * Len(request.fields))
  /\ troubles \subseteq Fields
  /\ left \in BOOLEAN
  /\ Len(runs) <= 2

(* What an endpoint reads in a field is that field's own text, whichever   *)
(* of the two paths put it there, messages with an index included: no      *)
(* prompt is answered in another's place.  The one exception is input.text *)
(* where the body also has a key spelled "input.text": _update_field takes *)
(* one for the other.                                                      *)
FieldsKeepTheirText ==
  \A i \in DOMAIN runs : \A f \in DOMAIN runs[i].saw :
    LET source == runs[i].saw[f].of IN
      source = f \/ (f = "inner" /\ source = "dotted" /\ request.door \in {"fastapi", "flask", "django"})

(* The fields whose text the middleware means to replace and can.          *)
Reachable == {f \in ToSet(Found) : Target(f) = f /\ request.content # "array"}

(* The processed body gets to the endpoint: through ASHAMiddleware with a  *)
(* Starlette before 0.28, through FastAPIMiddleware from 0.28 on, in Flask *)
(* and Django where the endpoint asks for it.                              *)
Delivered ==
  CASE request.door = "fastapi" -> request.relays [] request.door = "adapter" -> ~request.relays
    [] OTHER -> request.reader = "asha"

(* Where it does, a prompt the middleware found is masked on the           *)
(* endpoint's first run unless its own processing went wrong (or, in       *)
(* FastAPIMiddleware, any field's did).                                    *)
FoundPromptsAreMasked ==
  Len(runs) > 0 /\ ~Decorated /\ ~Skipped /\ HasData /\ Delivered =>
    \A f \in Reachable \cap DOMAIN runs[1].saw :
      \/ runs[1].saw[f].masked
      \/ f \in troubles \/ (f = "inner" /\ "dotted" \in troubles)
      \/ request.door = "adapter" /\ troubles # {}

(* An endpoint runs a second time only in the Starlette middlewares, after *)
(* a run that raised, and finds no body: the first run has read it.        *)
RerunsOnlyAfterRaise ==
  Len(runs) = 2 =>
    request.door \in {"fastapi", "adapter"} /\ runs[1].raised /\ runs[2].saw = NoFields

(* The decorators give an endpoint a body processed whole or not at all,   *)
(* and never one that is partly masked.                                    *)
DecoratedWholly ==
  Decorated => \A i \in DOMAIN runs :
    (\A f \in Fields : runs[i].saw[f].masked) \/ runs[i].saw = RawBody

(* body.copy() is all that keeps the data a middleware stores as original: *)
(* its top-level fields are never rewritten, whatever happens to the copy. *)
OriginalTopLevelKept == \A f \in Fields \ Nested : cached[f] = Raw(f)

(* Where a processed body gets to the endpoint its prompts are processed   *)
(* and in their place, and an endpoint is run once unless it raises.       *)
EndpointsGetTheirPrompts ==
  /\ WebTypeOK /\ FieldsKeepTheirText /\ FoundPromptsAreMasked
  /\ DecoratedWholly /\ RerunsOnlyAfterRaise /\ OriginalTopLevelKept
=============================================================================
