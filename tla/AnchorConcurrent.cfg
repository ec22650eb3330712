SPECIFICATION Spec
CONSTANTS
  Tool <- MCTool
  Token <- MCToken
  Path <- MCPath
  OutputDir = "output/"
  DataDir = "data/"
  DataPath = {"data/"}
  Scope <- MCScope
  Domain <- MCDomain
  DomainScopes <- MCDomainScopes
  DomainForbidden <- MCDomainForbidden
  DomainActions <- MCDomainActions
  BaseForbidden = {"delete", "drop"}
  RestrictiveForbidden = {"send_email", "delete"}
  NetworkTokens = {"http"}
  WriteNamed = {"write_report"}
  NoContract = NoContract
  Caps <- MCCaps
  HighRiskNamed = {"delete_file"}
  Hinted = {"delete_file"}
  ReadNamed = {"load_data"}
  MutatingNamed = {"write_report", "delete_file"}
  WriteWord = {"write_report"}
  Matches <- MCMatches
  Category <- MCCategory
  Rarity <- BootstrapRarity
  Within <- MCWithin
  Calibrate <- MCCalibrate
  ActionType = {"update_record"}
  MutatingType = {"update_record"}
  MaxHits = 1
  NoTool = NoTool
  NoPath = NoPath
  NoAction = NoAction
  Caller = {"c1", "c2"}
  Interactive = FALSE
  WarnPolicy = "permissive"
  DefaultTolerance = "LOW"
  Prompts <- FewPrompts
  Contexts <- MCContexts
  Requests <- WipeAside
  Uses = {"guarded", "direct"}
  MemoryEvents = {}
  Outputs = {}
  Required = {}
  Reinit = FALSE
  MaxActions = 2
PROPERTIES
  ImplementsToolGate
