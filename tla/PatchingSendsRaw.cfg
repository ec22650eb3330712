SPECIFICATION Spec
CONSTANTS
  Caller = {"k"}
  Provider = {"openai", "google"}
  Guarded = {"openai"}
  Client = {"openaiClient", "geminiClient"}
  ProviderOf <- MCProviderOf
  Mode = {"strict"}
  MaxLayers = 1
INVARIANTS
  PatchedCallsSendProcessed
