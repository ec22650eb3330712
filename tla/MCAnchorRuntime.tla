-------------------------- MODULE MCAnchorRuntime --------------------------
(***************************************************************************)
(* Instances of AnchorRuntime for TLC.  The tool names are read through    *)
(* the tables of payload_inspection.py, approval.py and                    *)
(* tool_capabilities.py; the transition rarities are those of the matrix   *)
(* scripts/bootstrap_models.py writes, under config/thresholds.yaml.       *)
(***************************************************************************)
EXTENDS AnchorRuntime

MCTool == {"load_data", "write_report", "cloud_sync", "wipe", "delete_file"}
MCToken == {"delete", "drop", "send_email", "http"}
MCPath == {"output/", "data/", "reports/"}
MCScope == {"reporting", "documents"}
MCDomain == {"analytics_reporting", "communication", "file_document_ops"}

MCDomainScopes ==
  [d \in MCDomain |-> CASE d = "analytics_reporting" -> {"reporting"}
                         [] d = "communication" -> {}
                         [] d = "file_document_ops" -> {"documents"}]
MCDomainForbidden ==
  [d \in MCDomain |-> IF d = "analytics_reporting" THEN {"send_email", "delete"} ELSE {}]
MCDomainActions ==
  [d \in MCDomain |-> CASE d = "analytics_reporting" -> {}
                         [] d = "communication" -> {"send"}
                         [] d = "file_document_ops" -> {"write"}]

MCCaps ==
  [t \in MCTool |-> CASE t = "load_data" -> {"reads"}
                       [] t = "write_report" -> {"writes"}
                       [] t = "cloud_sync" -> {"egress"}
                       [] OTHER -> {"destructive"}]
MCMatches == [t \in MCTool |-> IF t = "delete_file" THEN {"delete"} ELSE {}]
MCCategory ==
  [t \in MCTool |-> CASE t = "load_data" -> "read"
                       [] t = "write_report" -> "write"
                       [] t = "cloud_sync" -> "network_egress"
                       [] OTHER -> "delete"]
Categories == {"read", "write", "network_egress", "delete"}

(* read_file -> write_report .95, -> send_email .03; write_report ->       *)
(* read_file .91, -> send_email .07; send_email -> read_file, write_report *)
(* .45; every other pair is unseen.  Bands .088105 and .017621.            *)
BootstrapRarity ==
  [q \in Categories \X Categories |->
     CASE q \in {<<"read", "write">>, <<"write", "read">>, <<"network_egress", "read">>,
                 <<"network_egress", "write">>} -> "SAFE"
       [] q \in {<<"read", "network_egress">>, <<"write", "network_egress">>} -> "REVIEW"
       [] OTHER -> "BLOCK"]

(* A matrix trained on sessions that clean up after themselves and repeat  *)
(* nothing but deletions: there the capability rules decide.               *)
CleanupRarity ==
  [q \in Categories \X Categories |->
     CASE q \in {<<c, c>> : c \in Categories \ {"delete"}} -> "BLOCK"
       [] q \in {<<"read", "network_egress">>, <<"delete", "delete">>} -> "REVIEW"
       [] OTHER -> "SAFE"]

MCWithin == {<<q, q>> : q \in MCPath}
MCCalibrate == [s \in 0..1000 |-> s]

Say(conf, d, loc, write, paths) ==
  [ confident |-> conf, domain |-> d, localPhrase |-> loc, writePhrase |-> write,
    readPhrase |-> FALSE, paths |-> paths ]

MCPrompts ==
  { Say(FALSE, "communication", FALSE, FALSE, {}),
    Say(TRUE, "file_document_ops", TRUE, TRUE, {}),
    Say(TRUE, "communication", FALSE, FALSE, {}),
    Say(TRUE, "analytics_reporting", FALSE, FALSE, {"output/"}) }

FewPrompts == {p \in MCPrompts : p.confident /\ p.domain # "analytics_reporting"}

Ctx(given, tools, loc, tol, write) ==
  [ given |-> given, tools |-> tools, local |-> loc, tolerance |-> tol,
    readPaths |-> {}, writePaths |-> write ]

(* An adapter's mission_context, a bare dictionary, one that names HIGH     *)
(* tolerance and a write scope.                                            *)
MCContexts ==
  { Ctx({"local_only", "risk_tolerance"}, MCTool \ {"delete_file"}, TRUE, "LOW", {}),
    Ctx({}, MCTool, FALSE, "LOW", {}),
    Ctx({"risk_tolerance", "allowed_write_paths"}, {"load_data"}, FALSE, "HIGH", {"reports/"}) }

Call(t, path) == [type |-> "tool_call", tool |-> t, hits |-> 0, path |-> path]

MCRequests ==
  { Call("load_data", NoPath), Call("write_report", NoPath), Call("write_report", "reports/"),
    Call("cloud_sync", NoPath), Call("wipe", NoPath), Call("delete_file", NoPath),
    [Call("load_data", NoPath) EXCEPT !.hits = 1],
    [type |-> "update_record", tool |-> NoTool, hits |-> 0, path |-> NoPath] }

ToolCalls == {a \in MCRequests : a.tool \notin {NoTool, "delete_file"} /\ a.path = NoPath /\ a.hits = 0}
WipeAside == {a \in MCRequests : a.tool # "wipe"}
FewCalls == {a \in ToolCalls : a.tool \in {"load_data", "cloud_sync"}}

Event(op, scope, poison, keyword) ==
  [op |-> op, scope |-> scope, poison |-> poison, secret |-> "none", keyword |-> keyword]

MCMemoryEvents ==
  { Event("write", "session", "SAFE", FALSE), Event("write", "documents", "SAFE", FALSE),
    Event("write", "reporting", "REVIEW", FALSE), Event("read", "documents", "SAFE", TRUE) }

MCOutputs ==
  { [claim |-> TRUE, receipt |-> FALSE, mentions |-> {}],
    [claim |-> TRUE, receipt |-> TRUE, mentions |-> {}] }
=============================================================================
