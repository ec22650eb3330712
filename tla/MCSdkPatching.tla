---------------------------- MODULE MCSdkPatching ----------------------------
(* Instances of SdkPatching for TLC: one client of an SDK whose patch is   *)
(* guarded, one of an SDK whose patch is not.                              *)
EXTENDS SdkPatching

MCProviderOf == [c \in {"openaiClient", "geminiClient"} |->
                   IF c = "openaiClient" THEN "openai" ELSE "google"]
=============================================================================
