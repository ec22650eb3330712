SPECIFICATION AllSpec
CONSTANTS
  Calls <- AllCalls
  NamesFound = TRUE
  Faults = {"config", "detector", "classifier", "compile", "optimize"}
  MaxRetries = 2
  MaxCopies = 3
  Tool = {load, send}
  NoTool = NoTool
  Retries = 2
  MaxIterations = 2
  MaxFallbacks = 2
  MaxTurns = 2
  Thread = {"t1"}
  Module = {"socket", "smtplib"}
  Preloaded = {"socket", "smtplib"}
  Path = {"output", "reports", "etc"}
  Policies <- MCPolicies
  Modes = {"auto", "off"}
  MaxDepth = 3
  MaxCalls = 4
  Pattern <- MCPatterns
  Tag = {"override", "bypass"}
  Scanned <- MCScanned
  MaxPatterns = 3
  Gram <- MCGrams
  Width = 16
  Hashes = 2
  Hash1 <- MCHash1
  Hash2 <- MCHash2
  Texts <- MCTexts
  PhraseGrams = {"ign", "gno"}
  MaxScored = 2
  Asker = {t1, t2}
  Dir = {"cache", "private"}
  Model = {"probe", "forest"}
  Probe = {"probe"}
  Nobody = Nobody
  MaxAsked = 2
  MaxRestarts = 1
  Process = {p1, p2}
  Online <- MCOnline
  Shipped <- MCShipped
  Wishes <- MCWishes
  MaxAsks = 2
  MaxAged = 1
  Recorder = {r1, r2}
  MaxEvents = 8
  Threats = {1}
  MaxRequests = 3
INVARIANTS
  ResultsAreScrubbed
  CountedOnce
  ProvidersAskedInTurn
  ModelSeesEveryRun
  TurnsEndProperly
  HooksOnlyWhileExecuting
  ScopesHold
  ScansAreExact
  NoFalseNegatives
  ScoresErrOnTheSafeSide
  StoreIsSound
  AdviceIsSound
  StatsAreSound
  TracesAreSound
PROPERTIES
  NothingRunsAfterRefusal
  WhatBeginsEnds
\* every call, turn, scan, write, download, recommendation and traced run comes to its end
CHECK_DEADLOCK FALSE
