SPECIFICATION HooksSpec
CONSTANTS
  Thread = {"t1", "t2"}
  Module = {"socket", "smtplib"}
  Preloaded = {"socket", "smtplib"}
  Path = {"output", "reports", "etc"}
  Policies <- MCPolicies
  Modes = {"auto"}
  MaxDepth = 1
  MaxCalls = 2
INVARIANTS
  WritesStayInScope
