SPECIFICATION Spec
CONSTANTS
  Caller = {"k"}
  Provider = {"openai", "google"}
  Guarded = {"openai"}
  Client = {"openaiClient", "geminiClient"}
  ProviderOf <- MCProviderOf
  Mode = {"strict", "off"}
  MaxLayers = 2
INVARIANTS
  PatchesComeOff
  WrappersSendProcessed
