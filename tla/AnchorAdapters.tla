--------------------------- MODULE AnchorAdapters ---------------------------
(***************************************************************************)
(* The ANCHOR adapters (runtime/anchor/adapters): how anchor() finds an    *)
(* adapter for an agent, how the adapter finds and wraps the tools the     *)
(* agent is made of, and the steps its entry points put around the         *)
(* framework's own run: set the mission, bind the runtime to the context,  *)
(* run, unbind, govern the output, finalise the session.  What the runtime *)
(* does with each is AnchorRuntime; here an evaluation has two outcomes.   *)
(*                                                                         *)
(* The framework (external) calls tools, or other anchored members, from   *)
(* inside an entry point, so the entry points form a stack.  All adapters  *)
(* that one anchor() call makes share one runtime.                         *)
(***************************************************************************)
EXTENDS Naturals, Sequences, SequencesExt

CONSTANTS
  Agents,      \* what the user may anchor
  MaxDepth     \* BOUND: entry points on the stack

Part    == {"root", "child", "node"}        \* the objects an agent is made of
Trait   == {"asha", "crew", "execute_task", "invoke", "nodes", "get_graph", "mcp", "tools", "autogen", "agents",
            "run", "generic"}
ToolObj == [name : STRING, base : BOOLEAN]  \* base: an instance of LangChain's BaseTool
Link    == [via : {"agent", "nodes", "agents"}, to : Part]

ASSUME AgentsAssumption ==
  \A a \in Agents :
    /\ a.traits \subseteq Trait
    /\ DOMAIN a.tools \subseteq Part               \* the parts that have a tools attribute
    /\ \A p \in DOMAIN a.tools : a.tools[p] \in Seq(ToolObj)
    /\ a.links \in [Part -> Seq(Link)]             \* the attributes that lead on, in order

VARIABLES
  agent,      \* what was anchored
  lists,      \* the tools attribute of each part, and how often each tool is wrapped
  anchored,   \* times it was anchored
  mission,    \* whether state.mission is set
  baseline,   \* the entry point that set state.baseline_mission
  bound,      \* current_anchor_runtime is this runtime
  completion, \* litellm.completion and _handle_tool_call: 0, or the depth of the call that replaced them
  stack,      \* the entry points being run
  ran,        \* tools that ran, and how
  result,     \* how the last entry point ended
  leaked      \* a stream was abandoned and its context not reset

anchorvars == <<agent, lists, anchored, mission, baseline, bound, completion, stack, ran, result, leaked>>

NotSet == "none"
-----------------------------------------------------------------------------
(* What can be reached from an object: the least set closed under links.   *)
ReachableFrom(a) ==
  {p \in Part : \A S \in SUBSET Part :
     "root" \in S /\ (\A q \in S : \A i \in DOMAIN a.links[q] : a.links[q][i].to \in S) => p \in S}

(* anchor_any takes the first adapter that knows the object: whatever can  *)
(* be invoked is a graph with get_graph() or nodes and a LangChain agent   *)
(* with tools or an agent, and whatever has run() or any tool to be found  *)
(* is taken for a LlamaIndex agent.  "generic": anchor_generic was called. *)
AdapterFor(a) ==
  LET has(t) == t \in a.traits
      leadsTo(via) == \E i \in DOMAIN a.links["root"] : a.links["root"][i].via = via
      found == \E p \in ReachableFrom(a) \cap DOMAIN a.tools : a.tools[p] # <<>>
  IN IF has("generic") THEN "generic"
     ELSE IF has("asha") THEN "asha"
     ELSE IF has("crew") THEN "crewai"
     ELSE IF has("invoke") /\ (has("nodes") \/ has("get_graph")) THEN "graph"
     ELSE IF has("mcp") THEN "mcp"
     ELSE IF has("invoke") /\ (has("tools") \/ leadsTo("agent")) THEN "langchain"
     ELSE IF has("autogen") THEN IF has("agents") THEN "group" ELSE "autogen"
     ELSE IF has("run") \/ found THEN "llamaindex" ELSE "generic"
Adapter == AdapterFor(agent)

(* discover_tools: the tools of an object, then those of what it leads to, *)
(* each object once; of two tools with one name the first.                 *)
FirstOfName(s) ==
  FlattenSeq([i \in DOMAIN s |-> IF \E j \in 1..(i - 1) : s[j].name = s[i].name THEN <<>> ELSE <<s[i]>>])

ToolsAt(p) == IF p \in DOMAIN lists THEN lists[p] ELSE <<>>

(* What a part and then the first i of the parts it leads to yield.        *)
Visit(part, links, seen, from) ==
  LET after[i \in 0..Len(links)] ==
        IF i = 0 THEN [found |-> ToolsAt(part), seen |-> seen \cup {part}]
        ELSE LET so    == after[i - 1]
                 below == from[so.seen][links[i].to]
             IN [found |-> so.found \o below.found, seen |-> below.seen]
  IN after

(* What a part yields of what is not yet seen.                             *)
DiscoverFrom ==
  LET from[seen \in SUBSET Part] ==
        [p \in Part |->
           IF p \in seen THEN [found |-> <<>>, seen |-> seen]
           ELSE LET all == Visit(p, agent.links[p], seen, from)[Len(agent.links[p])]
                IN [found |-> FirstOfName(all.found), seen |-> all.seen]]
  IN from

(* For mutation: what a child leads to is not looked at.                   *)
DiscoverShallow ==
  FirstOfName(FoldLeft(LAMBDA acc, l : acc \o ToolsAt(l.to), ToolsAt("root"), agent.links["root"]))

DiscoverTools == DiscoverFrom[{}]["root"].found

(* wrap_tool_list passes over what is wrapped, which a subclass of         *)
(* LangChain's BaseTool does not show.                                     *)
WrapList(s) == [i \in DOMAIN s |-> IF s[i].wraps > 0 /\ ~s[i].base THEN s[i] ELSE [s[i] EXCEPT !.wraps = @ + 1]]

Members(via) == {agent.links["root"][i].to : i \in {j \in DOMAIN agent.links["root"] : agent.links["root"][j].via = via}}

(* Parts whose tools the adapter replaces by all it discovered, and parts  *)
(* whose own tools it wraps.                                               *)
GivenAll ==
  CASE Adapter \in {"langchain", "llamaindex"} -> {"root"} \cup Members("agent")
    [] Adapter = "graph" -> {"root"}
    [] OTHER -> {}
GivenOwn ==
  CASE Adapter = "graph" -> Members("nodes")
    [] Adapter \in {"crewai", "group"} -> Members("agents")
    [] Adapter \in {"generic", "autogen", "asha"} -> {"root"}
    [] OTHER -> {}

(* _wrap_tools of each adapter.                                            *)
WrapTools ==
  [p \in DOMAIN lists |->
     IF p \in GivenOwn THEN WrapList(lists[p])
     ELSE IF p \in GivenAll /\ DiscoverTools # <<>> THEN WrapList(DiscoverTools)
     ELSE lists[p]]

-----------------------------------------------------------------------------
(* The entry points: how the mission is set, what of the result is         *)
(* governed, whether a blocked result raises, when the session is          *)
(* finalised, and what the framework may call within.                      *)
Entry(begins, governs, holds, ends, within) ==
  [begins |-> begins, governs |-> governs, holds |-> holds, ends |-> ends, within |-> within]

LangchainEntries ==
  [e \in {"langchain.invoke", "langchain.ainvoke", "langchain.stream"} |->
     CASE e = "langchain.invoke"  -> Entry("initialize", "result", TRUE, "always", {})
       [] e = "langchain.ainvoke" -> Entry("initialize", "result", TRUE, "never", {})
       [] e = "langchain.stream"  -> Entry("initialize", "last", TRUE, "never", {})]
GraphEntries ==
  [e \in {"graph.invoke", "graph.stream", "graph.astream"} |->
     CASE e = "graph.invoke"  -> Entry("initialize", "result", TRUE, "always", {})
       [] e = "graph.stream"  -> Entry("initialize", "last", TRUE, "always", {})
       [] e = "graph.astream" -> Entry("initialize", "last", TRUE, "always", {"graph.stream"})]
LlamaindexEntries ==
  [e \in {"llamaindex.query", "llamaindex.aquery", "llamaindex.stream_events"} |->
     CASE e = "llamaindex.query"         -> Entry("refresh", "result", FALSE, "always", {})
       [] e = "llamaindex.aquery"        -> Entry("refresh", "unreceipted", FALSE, "always", {})
       [] e = "llamaindex.stream_events" -> Entry("initialize", "last", FALSE, "returned", {})]
GenericEntries ==
  [e \in {"generic.run", "generic.ainvoke"} |->
     CASE e = "generic.run"     -> Entry("refresh", "result", FALSE, "always", {})
       [] e = "generic.ainvoke" -> Entry("refresh", "unreceipted", FALSE, "never", {})]
AshaEntries == [e \in {"asha.run"} |-> Entry("refresh", "result", FALSE, "always", {})]
AutogenEntries ==
  [e \in {"autogen.generate_reply", "autogen.initiate_chat"} |->
     CASE e = "autogen.generate_reply" -> Entry("refresh", "result", FALSE, "always", {})
       [] e = "autogen.initiate_chat"  -> Entry("initialize", "nothing", FALSE, "always", {"autogen.generate_reply"})]
GroupEntries == [e \in {"group.initiate_chat"} |-> Entry("initialize", "nothing", FALSE, "always", {"autogen.generate_reply"})]
CrewEntries ==
  [e \in {"crewai.kickoff", "crewai.task", "crewai.execute_task", "crewai.llm"} |->
     CASE e = "crewai.kickoff"      -> Entry("initialize", "nothing", FALSE, "always", {"crewai.task"})
       [] e = "crewai.task"         -> Entry("refresh", "result", TRUE, "never", {"crewai.execute_task"})
       [] e = "crewai.execute_task" -> Entry("refresh", "nothing", FALSE, "never", {"crewai.llm"})
       [] e = "crewai.llm"          -> Entry("none", "nothing", FALSE, "never", {"crewai.llm"})]
McpEntries ==
  [e \in {"mcp.call_tool", "mcp.acall_tool"} |->
     CASE e = "mcp.call_tool"  -> Entry("refresh", "result", FALSE, "never", {})
       [] e = "mcp.acall_tool" -> Entry("refresh", "result", FALSE, "never", {})]

Entries ==
  [e \in UNION {DOMAIN LangchainEntries, DOMAIN GraphEntries, DOMAIN LlamaindexEntries, DOMAIN GenericEntries, DOMAIN AshaEntries,
               DOMAIN AutogenEntries, DOMAIN GroupEntries, DOMAIN CrewEntries, DOMAIN McpEntries} |->
     CASE e \in DOMAIN LangchainEntries -> LangchainEntries[e] [] e \in DOMAIN GraphEntries -> GraphEntries[e]
       [] e \in DOMAIN LlamaindexEntries -> LlamaindexEntries[e] [] e \in DOMAIN GenericEntries -> GenericEntries[e]
       [] e \in DOMAIN AshaEntries -> AshaEntries[e] [] e \in DOMAIN AutogenEntries -> AutogenEntries[e]
       [] e \in DOMAIN GroupEntries -> GroupEntries[e] [] e \in DOMAIN CrewEntries -> CrewEntries[e]
       [] e \in DOMAIN McpEntries -> McpEntries[e]]

(* What the user calls on what anchor() returned.                          *)
Doors ==
  CASE Adapter = "langchain" -> DOMAIN LangchainEntries [] Adapter = "graph" -> DOMAIN GraphEntries
    [] Adapter = "llamaindex" -> DOMAIN LlamaindexEntries [] Adapter = "generic" -> DOMAIN GenericEntries
    [] Adapter = "asha" -> DOMAIN AshaEntries [] Adapter = "autogen" -> DOMAIN AutogenEntries
    [] Adapter = "group" -> DOMAIN GroupEntries [] Adapter = "mcp" -> DOMAIN McpEntries
    [] Adapter = "crewai" -> {"crewai.kickoff"}

-----------------------------------------------------------------------------
Depth  == Len(stack)
Top    == stack[Depth]
Is(label) == stack # <<>> /\ Top.at = label
How    == Entries[Top.entry]
Goto(label) == [stack EXCEPT ![Depth].at = label]

Untouched == <<agent, lists, anchored>>

AnchorInit ==
  /\ agent \in Agents
  /\ lists = [p \in DOMAIN agent.tools |-> [i \in DOMAIN agent.tools[p] |->
                [name |-> agent.tools[p][i].name, base |-> agent.tools[p][i].base, wraps |-> 0]]]
  /\ anchored = 0
  /\ mission = FALSE /\ baseline = NotSet
  /\ bound = FALSE /\ completion = 0 /\ stack = <<>> /\ ran = {}
  /\ result = [of |-> "nothing", raised |-> FALSE, governed |-> FALSE, blocked |-> FALSE]
  /\ leaked = FALSE

(* anchor(agent); a graph's compile() anchors once more what it compiled,  *)
(* as does a user who anchors the framework's object again.                *)
Anchor ==
  /\ stack = <<>> /\ anchored < 2
  /\ anchored' = anchored + 1
  /\ lists' = WrapTools
  /\ UNCHANGED <<agent, mission, baseline, bound, completion, stack, ran, result, leaked>>

(* A call from the user, or from the framework inside another.             *)
Call(e) ==
  /\ anchored > 0
  /\ Depth < MaxDepth
  /\ IF stack = <<>> THEN e \in Doors ELSE Is("inner") /\ e \in How.within
  /\ stack' = Append(stack, [entry |-> e, at |-> "begin", raised |-> FALSE, governed |-> FALSE, blocked |-> FALSE,
                             chunks |-> FALSE, before |-> bound, saved |-> completion, phaseOf |-> baseline])
  /\ UNCHANGED <<Untouched, mission, baseline, bound, completion, ran, result, leaked>>

(* phase=... and baseline_mission is not None, or mission is not None.     *)
Initializes(how) ==
  how.begins = "initialize" \/ (how.begins = "refresh" /\ baseline = NotSet /\ Top.entry # "crewai.task")

(* _begin_step and _bind_mission, then bind_runtime; the LLM proxy         *)
(* replaces completion and the tool handler instead of setting a mission.  *)
Begin ==
  /\ Is("begin")
  /\ mission' = (mission \/ How.begins # "none")
  /\ baseline' = IF Initializes(How) THEN Top.entry ELSE baseline
  /\ bound' = TRUE
  /\ completion' = IF Top.entry = "crewai.llm" THEN Depth ELSE completion
  /\ stack' = Goto("inner")
  /\ UNCHANGED <<Untouched, ran, result, leaked>>

(* The framework runs a tool it holds: a wrapped one is evaluated by each  *)
(* of its wrappers and runs in the sandbox.                                *)
ToolEntries == {"mcp.call_tool", "mcp.acall_tool"}
FrameworkTool ==
  /\ Is("inner") /\ Top.entry \notin ToolEntries
  /\ \E p \in DOMAIN lists : \E i \in DOMAIN lists[p] :
       /\ lists[p][i].wraps > 0 => mission
       /\ ran' = ran \cup {[part |-> p, judged |-> lists[p][i].wraps > 0, bound |-> bound]}
  /\ UNCHANGED <<Untouched, mission, baseline, bound, completion, stack, result, leaked>>

(* call_tool goes through guarded_tool_call, whose denial is governed like *)
(* a result; acall_tool judges, returns a denial as it is and awaits the   *)
(* tool outside the sandbox.                                               *)
McpTool ==
  /\ Is("inner") /\ Top.entry \in ToolEntries
  /\ \E allowed \in BOOLEAN, raises \in BOOLEAN :
       /\ raises => allowed
       /\ ran' = ran \cup IF allowed
                          THEN {[part |-> "server", judged |-> TRUE, bound |-> bound]}
                          ELSE {}
       /\ bound' = Top.before
       /\ stack' = [stack EXCEPT
            ![Depth].raised = raises,
            ![Depth].at = IF raises \/ (~allowed /\ Top.entry = "mcp.acall_tool") THEN "leave" ELSE "govern"]
  /\ UNCHANGED <<Untouched, mission, baseline, completion, result, leaked>>

(* The framework's run is over: the context and the patches are put back   *)
(* in finally.                                                             *)
PutBack ==
  /\ bound' = Top.before
  /\ completion' = IF Top.entry = "crewai.llm" THEN Top.saved ELSE completion

InnerReturns ==
  /\ Is("inner") /\ Top.entry \notin ToolEntries
  /\ PutBack
  /\ \E some \in BOOLEAN :                       \* whether there is anything to govern
       /\ How.governs = "last" \/ some = (How.governs # "nothing")
       /\ Top.entry = "graph.astream" => some = Top.chunks
       /\ stack' = Goto(IF some THEN "govern" ELSE "leave")
  /\ UNCHANGED <<Untouched, mission, baseline, ran, result, leaked>>

(* For mutation: an exception leaves the patches and the context in place. *)
InnerRaisesThrough ==
  /\ Is("inner") /\ Top.entry \notin ToolEntries
  /\ stack' = [stack EXCEPT ![Depth].raised = TRUE, ![Depth].at = "leave"]
  /\ UNCHANGED <<Untouched, mission, baseline, bound, completion, ran, result, leaked>>

InnerRaises ==
  /\ Is("inner") /\ Top.entry \notin ToolEntries
  /\ PutBack
  /\ stack' = [stack EXCEPT ![Depth].raised = TRUE, ![Depth].at = "leave"]
  /\ UNCHANGED <<Untouched, mission, baseline, ran, result, leaked>>

(* astream hands each chunk on before it governs anything; the consumer    *)
(* runs in the same context meanwhile, and may never come back, in which   *)
(* case the generator is closed from another context, where the token of   *)
(* bind_runtime cannot be reset.                                           *)
YieldChunk ==
  /\ Is("inner") /\ Top.entry = "graph.astream"
  /\ stack' = [stack EXCEPT ![Depth].chunks = TRUE, ![Depth].at = "suspended"]
  /\ UNCHANGED <<Untouched, mission, baseline, bound, completion, ran, result, leaked>>
Resume ==
  /\ Is("suspended") /\ stack' = Goto("inner")
  /\ UNCHANGED <<Untouched, mission, baseline, bound, completion, ran, result, leaked>>
Abandon ==
  /\ Is("suspended")
  /\ stack' = [stack EXCEPT ![Depth].raised = TRUE, ![Depth].at = "leave"]
  /\ bound' \in {Top.before, bound}
  /\ leaked' = (leaked \/ bound' # Top.before)
  /\ UNCHANGED <<Untouched, mission, baseline, completion, ran, result>>

(* finalize_step_output: memory, then plan.                                *)
Govern ==
  /\ Is("govern")
  /\ \E blocked \in BOOLEAN :
       stack' = [stack EXCEPT ![Depth].governed = TRUE, ![Depth].blocked = blocked,
                              ![Depth].raised = blocked /\ How.holds, ![Depth].at = "leave"]
  /\ UNCHANGED <<Untouched, mission, baseline, bound, completion, ran, result, leaked>>

(* finalize_session in finally, after a result, or not at all; it changes  *)
(* no state a decision reads.  The entry point is left.                    *)
LeaveEntry ==
  /\ Is("leave")
  /\ result' = [of |-> Top.entry, raised |-> Top.raised, governed |-> Top.governed, blocked |-> Top.blocked]
  /\ stack' = Front(stack)
  /\ UNCHANGED <<Untouched, mission, baseline, bound, completion, ran, leaked>>

AnchorNext ==
  \/ Anchor \/ (\E e \in DOMAIN Entries : Call(e)) \/ Begin
  \/ FrameworkTool \/ McpTool \/ InnerReturns \/ InnerRaises
  \/ YieldChunk \/ Resume \/ Abandon \/ Govern \/ LeaveEntry

AnchorSpec == AnchorInit /\ [][AnchorNext]_anchorvars

-----------------------------------------------------------------------------
NamesOf(s) == {s[i].name : i \in DOMAIN s}

ReachableParts == ReachableFrom(agent)

(* discover_tools finds a tool of every name that can be reached, through   *)
(* any number of links and around any cycle of them, and of each one only. *)
DiscoveryIsComplete ==
  /\ NamesOf(DiscoverTools) = UNION {NamesOf(ToolsAt(p)) : p \in ReachableParts}
  /\ \A i, j \in DOMAIN DiscoverTools : DiscoverTools[i].name = DiscoverTools[j].name => i = j

(* Wrapping, done once or twice, takes no tool away: every part can still  *)
(* call every name it could, though a part that is given all the tools may *)
(* find another part's tool under it.                                      *)
ToolsStayCallable == \A p \in DOMAIN lists : NamesOf(agent.tools[p]) \subseteq NamesOf(lists[p])

(* A tool is judged once per call however often its agent is anchored,     *)
(* but for LangChain's own tools.                                          *)
WrappedOnce == \A p \in DOMAIN lists : \A i \in DOMAIN lists[p] : lists[p][i].wraps <= 1 \/ lists[p][i].base

(* Once an agent is anchored no tool that it lists itself, and no tool of  *)
(* a crew's or a group's member or a graph's node, runs unjudged.  (A tool *)
(* of an object further down that is not handed the agent's list may.)     *)
ListedToolsAreJudged ==
  \A r \in ran : ~r.judged =>
    /\ r.part # "root" \/ Adapter \in {"group", "crewai"}
    /\ r.part \notin Members("agents") \/ Adapter \notin {"group", "crewai"}
    /\ r.part \notin Members("nodes") \/ Adapter # "graph"

(* Every tool there is stays, is found, and is judged once.                *)
ToolsAreGoverned == DiscoveryIsComplete /\ ToolsStayCallable /\ WrappedOnce /\ ListedToolsAreJudged

(* The framework runs its tools in a context where the runtime is bound,   *)
(* so that a wrapped SDK's tool proposals are judged too; when no entry    *)
(* point is left, the context and litellm are as they were before, unless  *)
(* the consumer of a stream went away.                                     *)
ContextComesBack ==
  /\ \A r \in ran : r.bound
  /\ stack = <<>> => completion = 0 /\ (bound => leaked)

(* While an entry point runs, the mission it set (or found) stays the one  *)
(* that later phases are merged into: what its framework calls within only *)
(* refreshes it, but for a graph that streams to itself.                   *)
OuterMissionStands ==
  stack # <<>> /\ stack[1].at # "begin" /\ (\A i \in 2..Depth : Entries[stack[i].entry].begins # "initialize") =>
    \/ baseline \in {stack[1].entry, "graph.stream"}
    \/ Entries[stack[1].entry].begins = "refresh" /\ stack[1].phaseOf # NotSet /\ baseline = stack[1].phaseOf

(* An output that was blocked does not come back through an entry point    *)
(* that raises on a block, and none that was never governed comes back but *)
(* from the entry points that leave it to their members, from a stream     *)
(* without chunks, and as the denial of acall_tool.                        *)
BlockedOutputsAreHeld ==
  result.of \in DOMAIN Entries /\ ~result.raised =>
    /\ result.blocked => ~Entries[result.of].holds
    /\ result.governed \/ Entries[result.of].governs \in {"nothing", "last"} \/ result.of = "mcp.acall_tool"

(* A governed run leaves the process, its outer runs and its caller as they*)
(* should be, however it ends.                                             *)
RunsKeepTheirContext == ContextComesBack /\ OuterMissionStands /\ BlockedOutputsAreHeld
=============================================================================
