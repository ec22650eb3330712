--------------------------- MODULE MCSandboxHooks ---------------------------
(* Instances of SandboxHooks for TLC: the policies of a local mission with  *)
(* one or two write scopes and of a mission that may use the network.      *)
EXTENDS SandboxHooks

MCPolicies ==
  { [network |-> FALSE, writePaths |-> {"output"}],
    [network |-> FALSE, writePaths |-> {"output", "reports"}],
    [network |-> TRUE,  writePaths |-> {"reports"}] }
=============================================================================
