---------------------------- MODULE MCAroundTheModel ----------------------------
(***************************************************************************)
(* What stands around a model call: the optimizer before it, the repair    *)
(* and validation of the answer after it, the wrapped call itself, and the *)
(* integrations it is made through.  A behaviour is about one of them:     *)
(* they share nothing but the stages below, which their modules take as    *)
(* choices; a wrapped call uses the output guard's operators.              *)
(***************************************************************************)
EXTENDS OptimizerEngine, WrappedCall, SchemaValidation,
        WebMiddleware, FrameworkPipelines, ToolChain, AnchorAdapters

VARIABLE app  \* the part this behaviour is about

Some ==
  {"data", "header", "fence", "very", "exactly", "only", "must", "short", "finally", "nonetheless", "not", "know",
   "number", "decimal", "unit", "measure"}
Short == {<<a>> : a \in Some} \cup {<<a, b>> : a \in Some, b \in Some}
MCPrompts ==
  {<<s>> : s \in Short} \cup {<<<<"header">>, <<a>>, <<a>>>> : a \in Some}
  \cup {<<s, <<a>>>> : s \in Short, a \in {"data", "number"}} \cup {<<<<"json">>>>}

Sound(fits) == [flaws |-> {}, fragile |-> FALSE, root |-> "object", fits |-> fits]
Flawed(f, fits) == [Sound(fits) EXCEPT !.flaws = f]
MCContents ==
  {Sound("fits"), Sound("digits"), Sound("wrong"), [Sound("wrong") EXCEPT !.root = "list"],
   Flawed({"comma", "key"}, "fits"), Flawed({"quote"}, "wrong"), [Flawed({"comma"}, "fits") EXCEPT !.fragile = TRUE],
   Flawed({"open"}, "fits"), Flawed({"prose"}, "fits"), [Flawed({"between"}, "wrong") EXCEPT !.root = "list"]}
MCRetries == {0, 1, 2}

Calling(door, awaits, stream, guard, answer, format) ==
  [ door |-> door, awaits |-> awaits, prompt |-> "messages", on |-> TRUE, stream |-> stream, guard |-> guard,
    answer |-> answer, format |-> format ]
MCChunks == <<<<1, 2, 3>>, <<4>>, <<5, 6>>>>
MCStreams == [kind : StreamKind, chunks : {MCChunks}, fails : {0, 2, 3}]
MCAnswers == {[kind |-> "output", output |-> [kind |-> k, form |-> f, wrapped |-> TRUE]] : k \in {"text", "object"}, f \in {"embedded", "hint"}}
MCCalls ==
       {Calling(d, a, s, g, x, "none") : d \in Route, a \in BOOLEAN, s \in BOOLEAN, g \in BOOLEAN, x \in MCStreams}
  \cup {Calling(d, a, FALSE, FALSE, x, f) : d \in Route, a \in BOOLEAN, x \in MCAnswers, f \in Format}
  \cup {[Calling(d, FALSE, FALSE, FALSE, x, "none") EXCEPT !.prompt = p, !.on = o] :
          d \in Route, x \in MCAnswers, p \in Passing, o \in BOOLEAN}

-----------------------------------------------------------------------------
Req(door, body, fields) ==
  [ door |-> door, watched |-> TRUE, method |-> "POST", content |-> body, fields |-> fields,
    privacy |-> TRUE, schema |-> FALSE, debug |-> FALSE, relays |-> FALSE,
    reader |-> "plain" ]

MCBodies == {<<"prompt", "first", "second">>, <<"dotted", "inner">>, <<"inner", "dotted", "plain">>, <<"listed", "prompt">>, <<>>}
MCStarlettes == {"fastapi", "adapter"}
MCRequests ==
       {[Req(d, "json", b) EXCEPT !.relays = TRUE] : d \in MCStarlettes, b \in MCBodies}
  \cup {[Req(d, c, <<"prompt", "dotted">>) EXCEPT !.relays = TRUE] :
          d \in MCStarlettes, c \in {"form", "multipart", "text", "broken"}}
  \cup {[Req("fastapi", "array", <<"first", "second">>) EXCEPT !.relays = TRUE]}
  \cup {[Req(d, "json", b) EXCEPT !.reader = r] : d \in Door, b \in MCBodies, r \in {"plain", "asha"}}
  \cup {Req(d, c, <<"prompt", "dotted">>) : d \in Door, c \in {"form", "multipart", "text", "broken"}}
  \cup {Req(d, "array", <<"first", "second">>) : d \in Door}
  \cup {[Req(d, "json", <<"prompt", "first">>) EXCEPT !.watched = FALSE] : d \in Door}
  \cup {[Req(d, "json", <<"prompt", "first">>) EXCEPT !.method = "GET"] : d \in Door}
  \cup {[Req(d, "json", <<"prompt">>) EXCEPT !.privacy = FALSE] : d \in Door}
  \cup {[Req("adapter", "json", <<"prompt", "inner">>) EXCEPT !.schema = s, !.debug = b] : s \in BOOLEAN, b \in BOOLEAN}

Using(w, texts) == [wrapper |-> w, items |-> texts, privacy |-> TRUE, optimize |-> TRUE, check |-> TRUE, debug |-> TRUE]
MCUses ==
       {Using(w, <<"text">>) : w \in Wrapper \ {"li_nodes", "fw_instructor", "composed_api"}}
  \cup {Using(w, <<"text", "opaque", "text">>) : w \in {"li_nodes", "fw_instructor", "composed_api"}}
  \cup {[Using("li_query", <<"text">>) EXCEPT !.optimize = FALSE],
        [Using("fw_llm", <<"text">>) EXCEPT !.optimize = FALSE, !.privacy = FALSE],
        [Using("fw_openai", <<"text">>) EXCEPT !.check = FALSE, !.privacy = FALSE],
        Using("lc_runnable", <<"opaque">>), [Using("lc_llm", <<"text">>) EXCEPT !.debug = FALSE]}

MCChains ==
  {[mode |-> m, handling |-> h, composed |-> c, names |-> n] :
     m \in {"preprocess", "postprocess", "enhance", "validate"}, h \in {"continue", "stop", "fallback"},
     c \in BOOLEAN, n \in {<<"a">>, <<"a", "b", "c">>, <<"a", "b", "a">>}}

Tool1 == [name |-> "search", base |-> FALSE]
Tool2 == [name |-> "report", base |-> FALSE]
Tool3 == [name |-> "search", base |-> TRUE]
To(via, p) == [via |-> via, to |-> p]
NoLinks == [p \in Part |-> <<>>]
Member == [NoLinks EXCEPT !["root"] = <<To("agents", "child"), To("agents", "node")>>, !["child"] = <<To("agents", "root")>>]
Nested2 == [NoLinks EXCEPT !["root"] = <<To("agent", "child")>>, !["child"] = <<To("agent", "node"), To("agent", "root")>>]
Noded == [NoLinks EXCEPT !["root"] = <<To("nodes", "child"), To("nodes", "node")>>]
Everywhere == [p \in Part |-> CASE p = "root" -> <<Tool1>> [] p = "child" -> <<Tool2, Tool3>> [] OTHER -> <<Tool3, Tool2>>]
OnlyBelow == [p \in {"child", "node"} |-> IF p = "child" THEN <<Tool2>> ELSE <<Tool1, Tool3>>]
An(traits, tools, links) == [traits |-> traits, tools |-> tools, links |-> links]
MCAgents ==
       {An(t, x, Nested2) : t \in {{"asha"}, {"invoke", "tools"}, {"run"}, {"generic"}, {"autogen"}}, x \in {Everywhere, OnlyBelow}}
  \cup {An(t, x, Member) : t \in {{"crew", "agents"}, {"autogen", "agents"}}, x \in {Everywhere, OnlyBelow}}
  \cup {An({"invoke", "nodes"}, x, Noded) : x \in {Everywhere, OnlyBelow}}
  \cup {An({"invoke", "get_graph"}, Everywhere, NoLinks), An({"invoke"}, OnlyBelow, Nested2), An({"tools"}, Everywhere, NoLinks)}
  \cup {An({"mcp"}, OnlyBelow, NoLinks), An({"invoke"}, OnlyBelow, NoLinks)}
MCCallers == {"c1", "c2"}

-----------------------------------------------------------------------------
OptIdle == optCall = [prompt |-> <<<<"json">>>>, preserve |-> TRUE, intent |-> "analyze", object |-> "data"]
OutIdle == handed = [text |-> [before |-> "none", shape |-> "object", flaw |-> "none", after |-> "none"]]
WcIdle  == wcall = CHOOSE c \in Calls : TRUE
SvIdle  == config = [retries |-> 0, repair |-> FALSE, installed |-> {}]
IdleWeb == request = CHOOSE r \in Requests : TRUE
IdlePipes == use = [c \in Callers |-> CHOOSE u \in Uses : TRUE]
IdleChain == chain = CHOOSE c \in Chains : TRUE
IdleAnchor == agent = CHOOSE a \in Agents : TRUE

Init ==
  /\ app \in {"optimizer", "repair", "call", "schema", "web", "pipeline", "chain", "anchor"}
  /\ app # "optimizer" => OptIdle
  /\ app # "repair" => OutIdle
  /\ app # "call" => WcIdle
  /\ app # "schema" => SvIdle
  /\ app # "web" => IdleWeb
  /\ app # "pipeline" => IdlePipes
  /\ app # "chain" => IdleChain
  /\ app # "anchor" => IdleAnchor
  /\ OutInit /\ WcInit /\ SvInit /\ WebInit
  /\ PipeInit /\ ChainInit /\ AnchorInit /\ OptInit

Next ==
  /\ UNCHANGED app
  /\ \/ app = "optimizer" /\ OptNext /\ UNCHANGED <<outvars, wcvars, svvars, webvars, pipevars, chainvars, anchorvars>>
     \/ app = "repair" /\ OutNext /\ UNCHANGED <<optvars, wcvars, svvars, webvars, pipevars, chainvars, anchorvars>>
     \/ app = "call" /\ WcNext /\ UNCHANGED <<optvars, outvars, svvars, webvars, pipevars, chainvars, anchorvars>>
     \/ app = "schema" /\ SvNext /\ UNCHANGED <<optvars, outvars, wcvars, webvars, pipevars, chainvars, anchorvars>>
     \/ app = "web" /\ WebNext /\ UNCHANGED <<optvars, outvars, wcvars, svvars, pipevars, chainvars, anchorvars>>
     \/ app = "pipeline" /\ PipeNext /\ UNCHANGED <<optvars, outvars, wcvars, svvars, webvars, chainvars, anchorvars>>
     \/ app = "chain" /\ ChainNext /\ UNCHANGED <<optvars, outvars, wcvars, svvars, webvars, pipevars, anchorvars>>
     \/ app = "anchor" /\ AnchorNext /\ UNCHANGED <<optvars, outvars, wcvars, svvars, webvars, pipevars, chainvars>>

Spec == Init /\ [][Next]_<<app, optvars, outvars, wcvars, svvars, webvars, pipevars, chainvars, anchorvars>>
=============================================================================
