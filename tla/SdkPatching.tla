----------------------------- MODULE SdkPatching -----------------------------
(***************************************************************************)
(* auto_patch(), which replaces a function of an SDK's class, and          *)
(* wrap_llm(), which replaces the method of one client                     *)
(* (integrations/auto_patch.py, integrations/llm_wrap.py), with the calls  *)
(* that go through them to the provider.                                   *)
(*                                                                         *)
(* A wrapper keeps the function it found, so a function is the sequence of *)
(* the layers a call goes through before the SDK's own code, newest first. *)
(***************************************************************************)
EXTENDS Naturals, Sequences

CONSTANTS
  Caller,      \* threads that call an LLM, once each
  Provider,    \* patch points: one function of one SDK
  Guarded,     \* those whose patch looks for _asha_patched (openai v1, anthropic)
  Client,
  ProviderOf,  \* the SDK each client object is of
  Mode,        \* the modes in use
  MaxLayers    \* BOUND: layers of one function

Layer == [kind : {"patch", "wrap"}, mode : Mode]

ASSUME PatchingAssumption ==
  /\ Guarded \subseteq Provider
  /\ ProviderOf \in [Client -> Provider]
  /\ Mode \subseteq {"strict", "balanced", "lite", "off"}
  /\ MaxLayers \in Nat

VARIABLES
  function,    \* the class attribute of each SDK
  method,      \* the attribute wrap_llm set on a client; <<>>: none, the class's is used
  originals,   \* _original_functions
  applied,     \* the keys of _patches_applied
  enabled,     \* _asha_enabled
  call         \* the call each caller makes

vars == <<function, method, originals, applied, enabled, call>>

(* seen: the prompt is where a wrap_llm layer looks for it.                *)
(* guarded: a layer above turns exceptions into ASHAProcessingError;       *)
(* scoped, patched, wrapped: a processing wrap_llm layer, a patch, any     *)
(* wrap_llm layer was crossed.  failed and reached are history.        *)
CallRecord ==
  [ pc      : {"idle", "out", "sent", "streaming", "answered", "refused", "transport"},
    path    : Seq(Layer),
    text    : {"raw", "processed"},
    stream  : BOOLEAN,
    seen    : BOOLEAN,
    guarded : BOOLEAN,
    scoped  : BOOLEAN,
    patched : BOOLEAN,
    wrapped : BOOLEAN,
    failed  : BOOLEAN,
    reached : BOOLEAN ]

Idle ==
  [ pc |-> "idle", path |-> <<>>, text |-> "raw", stream |-> FALSE, seen |-> FALSE,
    guarded |-> FALSE, scoped |-> FALSE, patched |-> FALSE, wrapped |-> FALSE,
    failed |-> FALSE, reached |-> FALSE ]

TypeOK ==
  /\ function \in [Provider -> Seq(Layer)]
  /\ method \in [Client -> Seq(Layer)]
  /\ \E D \in SUBSET Provider : originals \in [D -> Seq(Layer)]
  /\ applied \in SUBSET Provider
  /\ enabled \in BOOLEAN
  /\ call \in [Caller -> CallRecord]

Init ==
  /\ function = [p \in Provider |-> <<>>]
  /\ method = [c \in Client |-> <<>>]
  /\ originals = [p \in {} |-> <<>>]
  /\ applied = {} /\ enabled = TRUE
  /\ call = [k \in Caller |-> Idle]

-----------------------------------------------------------------------------
(* Switching.                                                              *)
Patched(p) == function[p] # <<>>

(* For mutation: every provider is wrapped again.                          *)
NeedsPatchAlways(p) == TRUE

(* The unguarded patches wrap whatever they find.                          *)
NeedsPatch(p) == p \notin Guarded \/ ~Patched(p)

(* _store_original keeps the first function it is given.                   *)
StoreOriginal(p) == IF p \in DOMAIN originals THEN originals[p] ELSE function[p]

(* auto_patch(enable=True): the SDKs in S are the ones installed and asked *)
(* for; an SDK that cannot be patched is reported and left out.            *)
AutoPatch(S, mode) ==
  /\ \A p \in S : Len(function[p]) < MaxLayers
  /\ enabled' = TRUE
  /\ function' = [p \in Provider |->
       IF p \in S /\ NeedsPatch(p) THEN <<[kind |-> "patch", mode |-> mode]>> \o function[p] ELSE function[p]]
  /\ originals' = [p \in DOMAIN originals \cup {q \in S : NeedsPatch(q)} |->
       IF p \in S /\ NeedsPatch(p) THEN StoreOriginal(p) ELSE originals[p]]
  /\ applied' = applied \cup S
  /\ UNCHANGED <<method, call>>

(* auto_patch(enable=False) puts back what was stored.                     *)
UnpatchAll ==
  /\ enabled' = FALSE
  /\ function' = [p \in Provider |-> IF p \in DOMAIN originals THEN originals[p] ELSE function[p]]
  /\ applied' = {}
  /\ UNCHANGED <<method, originals, call>>

DisableAutoPatch ==
  /\ enabled' = FALSE
  /\ UNCHANGED <<function, method, originals, applied, call>>

EnableAutoPatch ==
  /\ enabled' = TRUE
  /\ UNCHANGED <<function, method, originals, applied, call>>

(* The function a call on the client enters.                               *)
Resolve(c) == IF method[c] = <<>> THEN function[ProviderOf[c]] ELSE method[c]

(* wrap_llm keeps the method as it is found, patches included.             *)
WrapLLM(c, mode) ==
  /\ Len(Resolve(c)) < MaxLayers
  /\ method' = [method EXCEPT ![c] = <<[kind |-> "wrap", mode |-> mode]>> \o Resolve(c)]
  /\ UNCHANGED <<function, originals, applied, enabled, call>>

-----------------------------------------------------------------------------
(* Calling.                                                                *)
Update(k, r) == call' = [call EXCEPT ![k] = r]

StartCall(k, c, stream, seen) ==
  /\ call[k].pc = "idle"
  /\ Update(k, [Idle EXCEPT !.pc = "out", !.path = Resolve(c), !.stream = stream, !.seen = seen])
  /\ UNCHANGED <<function, method, originals, applied, enabled>>

Entering(k, kind) == call[k].pc = "out" /\ call[k].path # <<>> /\ Head(call[k].path).kind = kind
Inner(k) == [call[k] EXCEPT !.path = Tail(@)]

(* For mutation: a prompt that cannot be processed is sent as it is.       *)
RefusedOpenly(r) == [r EXCEPT !.failed = TRUE]

(* process() raised: the prompt goes no further.                           *)
Refused(r) == [r EXCEPT !.pc = "refused", !.failed = TRUE]

(* coerce_process_output takes the output of the ProcessResult.            *)
Coerce(text, mode) == IF mode = "off" THEN text ELSE "processed"

(* _coerce_processed knows strings and dictionaries, not the ProcessResult *)
(* process() returns, and falls back on the prompt.                        *)
CoercePatched(text, mode) == text

EnterPatch(k) ==
  /\ Entering(k, "patch")
  /\ LET mode   == Head(call[k].path).mode
         inside == [Inner(k) EXCEPT !.guarded = TRUE, !.patched = TRUE,
                                    !.text = CoercePatched(@, mode)]
     IN  \/ ~enabled /\ Update(k, Inner(k))
         \/ enabled /\ Update(k, inside)
         \/ enabled /\ mode # "off" /\ Update(k, Refused(Inner(k)))
  /\ UNCHANGED <<function, method, originals, applied, enabled>>

(* The layer processes the string that comes first, the messages and the   *)
(* strings under prompt, input, text, query and content; other arguments   *)
(* go on as they are, though a failure to copy them refuses the call.      *)
EnterWrap(k) ==
  /\ Entering(k, "wrap")
  /\ LET mode   == Head(call[k].path).mode
         inside == [Inner(k) EXCEPT !.guarded = @ \/ mode # "off", !.scoped = @ \/ mode # "off",
                                    !.wrapped = TRUE, !.text = IF call[k].seen THEN Coerce(@, mode) ELSE @]
     IN  \/ Update(k, inside)
         \/ mode # "off" /\ Update(k, Refused(Inner(k)))
  /\ UNCHANGED <<function, method, originals, applied, enabled>>

Send(k) ==
  /\ call[k].pc = "out" /\ call[k].path = <<>>
  /\ Update(k, [call[k] EXCEPT !.pc = "sent", !.reached = TRUE])
  /\ UNCHANGED <<function, method, originals, applied, enabled>>

Answer(k) ==
  /\ call[k].pc = "sent"
  /\ Update(k, [call[k] EXCEPT !.pc = IF call[k].stream THEN "streaming" ELSE "answered"])
  /\ UNCHANGED <<function, method, originals, applied, enabled>>

(* The SDK raises: the layers catch that as they catch a failure of their  *)
(* own, and raise "refusing to send unprocessed prompt".                   *)
TransportError(k) ==
  /\ call[k].pc = "sent"
  /\ Update(k, [call[k] EXCEPT !.pc = IF call[k].guarded THEN "refused" ELSE "transport"])
  /\ UNCHANGED <<function, method, originals, applied, enabled>>

StreamEnds(k) ==
  /\ call[k].pc = "streaming"
  /\ Update(k, [call[k] EXCEPT !.pc = "answered"])
  /\ UNCHANGED <<function, method, originals, applied, enabled>>

(* handle_streaming_response, of any wrap_llm layer, catches what the      *)
(* stream raises, yields the response object as one more chunk and ends.   *)
StreamBreaks(k) ==
  /\ call[k].pc = "streaming"
  /\ Update(k, [call[k] EXCEPT !.pc = IF call[k].wrapped THEN "answered" ELSE "transport"])
  /\ UNCHANGED <<function, method, originals, applied, enabled>>

-----------------------------------------------------------------------------
Switch ==
  \/ \E S \in SUBSET Provider, mode \in Mode : S # {} /\ AutoPatch(S, mode)
  \/ UnpatchAll
  \/ DisableAutoPatch
  \/ EnableAutoPatch
  \/ \E c \in Client, mode \in Mode : WrapLLM(c, mode)

Step(k) ==
  \/ \E c \in Client, stream, seen \in BOOLEAN : StartCall(k, c, stream, seen)
  \/ EnterPatch(k) \/ EnterWrap(k)
  \/ Send(k) \/ Answer(k) \/ TransportError(k)
  \/ StreamEnds(k) \/ StreamBreaks(k)

Next == Switch \/ \E k \in Caller : Step(k)

Spec == Init /\ [][Next]_vars

-----------------------------------------------------------------------------
(* _unpatch_all: an SDK that is not listed as patched has its own function *)
(* back, however often it was patched, unpatched and patched again.        *)
UnpatchedIsOriginal == \A p \in Provider \ applied : function[p] = <<>>

AtMostOnePatch(path) ==
  \A i, j \in DOMAIN path : path[i].kind = "patch" /\ path[j].kind = "patch" => i = j

(* _asha_patched: where the patch is guarded, a prompt meets at most one   *)
(* patch on its way, in spite of repeated patching and of clients that     *)
(* kept an older function.                                                 *)
PatchedOnce ==
  \A c \in Client : ProviderOf[c] \in Guarded => AtMostOnePatch(Resolve(c))

(* Patches neither pile up nor stay behind.                                *)
PatchesComeOff == TypeOK /\ UnpatchedIsOriginal /\ PatchedOnce

(* "refusing to send unprocessed prompt": once process() has failed in a   *)
(* layer, nothing reaches the provider, whatever layers lie below.         *)
FailedIsNotSent == \A k \in Caller : call[k].failed => ~call[k].reached

(* llm_wrap.py: a call through a wrap_llm layer that processes, its prompt *)
(* where the layer looks for it, reaches the provider as processed text,   *)
(* whatever auto_patch layers it also crosses and however they are         *)
(* switched meanwhile.                                                     *)
ScopedCallsSendProcessed ==
  \A k \in Caller : call[k].reached /\ call[k].scoped /\ call[k].seen => call[k].text = "processed"

(* auto_patch.py: "Patches major LLM SDKs to automatically apply ASHA      *)
(* processing."                                                            *)
PatchedCallsSendProcessed ==
  \A k \in Caller : call[k].reached /\ call[k].patched => call[k].text = "processed"
-----------------------------------------------------------------------------
(* The inductive invariant behind the four.                                *)

(* A function whose original is not kept was never replaced; what is kept  *)
(* is the SDK's own.                                                       *)
OriginalsAreOwn ==
  /\ \A p \in DOMAIN originals : originals[p] = <<>>
  /\ \A p \in Provider \ DOMAIN originals : function[p] = <<>>

(* A guarded function has one layer at most, and the methods of its SDK's  *)
(* clients, which keep that function below their own layers, one patch.    *)
GuardedOnce ==
  /\ \A p \in Guarded : Len(function[p]) <= 1
  /\ \A c \in Client : ProviderOf[c] \in Guarded => AtMostOnePatch(method[c])

(* A call on its way has neither failed nor reached the provider, and past *)
(* a processing wrap_llm layer that saw its prompt it carries processed    *)
(* text.                                                                   *)
CallsInOrder ==
  \A k \in Caller :
    /\ call[k].pc \in {"idle", "out"} => ~call[k].failed /\ ~call[k].reached
    /\ call[k].failed => call[k].pc = "refused" /\ ~call[k].reached
    /\ call[k].scoped /\ call[k].seen => call[k].text = "processed"

IInv == TypeOK /\ OriginalsAreOwn /\ UnpatchedIsOriginal /\ GuardedOnce /\ CallsInOrder

(* What a processing wrapper lets through of the prompts it looks for has  *)
(* been processed: neither a failure nor a switch that flips below it      *)
(* makes an exception.                                                     *)
WrappersSendProcessed == FailedIsNotSent /\ ScopedCallsSendProcessed
=============================================================================
