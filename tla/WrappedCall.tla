----------------------------- MODULE WrappedCall -----------------------------
(***************************************************************************)
(* One call through a wrapper of integrations/llm_wrap.py, from its        *)
(* arguments to the last item the caller takes: the prompt is prepared,    *)
(* sent, and the answer guarded or handed over as a stream                 *)
(* (core/streaming.py), by itself or through a StreamingGuard.             *)
(***************************************************************************)
EXTENDS Naturals, Sequences, SequencesExt, OutputRepair

CONSTANTS
  Calls,     \* calls made through a wrapper
  MaxChunk   \* StreamingGuard.max_chunk_size, 0 for none

(* A prompt is passed in messages, by a keyword the wrappers know and as a *)
(* string ("named"), by any other keyword or not as a string ("other"), or *)
(* by position.                                                            *)
(* What the provider answers.  A stream is its chunks and the number of    *)
(* them after which it raises; "aiterable" is an async stream that is not a*)
(* generator, as the SDKs have.                                            *)
Passing == {"messages", "named", "other", "string", "list"}
Route == {"nested", "client", "method", "function"}
StreamKind == {"iterable", "generator", "aiterable"}
CallType ==
  [ door : Route, awaits : BOOLEAN, prompt : Passing, on : BOOLEAN, stream : BOOLEAN, guard : BOOLEAN,
    answer : [kind : StreamKind, chunks : Seq(Seq(Nat)), fails : Nat] \cup [kind : {"output"}, output : Output],
    format : Format ]

ASSUME CallsAssumption == Calls \subseteq CallType /\ MaxChunk \in Nat

VARIABLES
  wcall,     \* the call
  wcAt,      \* "prepare", "send", "answer", "stream", "split", "done"
  sentAs,      \* "no", "raw", "processed"
  taken,     \* chunks taken from the provider's stream
  items,     \* what the caller has received
  failure    \* what the caller sees raised: "none", "own", or "refusing"

wcvars == <<wcall, wcAt, sentAs, taken, items, failure>>

WcInit ==
  /\ wcall \in Calls
  /\ wcAt = "prepare" /\ sentAs = "no" /\ taken = 0 /\ items = <<>> /\ failure = "none"

WcTypeOK ==
  /\ wcAt \in {"prepare", "send", "answer", "stream", "done"}
  /\ sentAs \in {"no", "raw", "processed"}
  /\ taken \in Nat
  /\ \A i \in DOMAIN items : items[i].what \in {"chunk", "answer", "response", "repr"}
  /\ failure \in {"none", "own", "refusing"}

Item(what, text) == [what |-> what, text |-> text]
Chunks == wcall.answer.chunks

-----------------------------------------------------------------------------
(* Which prompts a wrapper processes: of the keyword arguments the messages*)
(* and the strings under prompt, input, text, query and content; in        *)
(* wrap_llm a first argument too, if it is a string; in wrap_function the  *)
(* first argument alone, whatever it is.                                   *)
Sees(c) ==
  c.prompt \in CASE c.door = "client" -> {"messages", "named", "string"}
                 [] c.door \in {"nested", "method"} -> {"messages", "named"}
                 [] c.door = "function" -> {"string", "list"}

(* process() raised, or the keyword arguments could not be copied.         *)
Refuse ==
  /\ wcAt = "prepare" /\ (Sees(wcall) \/ wcall.door # "function")
  /\ wcAt' = "done"
  /\ failure' = IF wcall.on THEN "refusing" ELSE "own"
  /\ UNCHANGED <<wcall, sentAs, taken, items>>

Prepare ==
  /\ wcAt = "prepare"
  /\ wcAt' = "send"
  /\ sentAs' = IF Sees(wcall) /\ wcall.on THEN "processed" ELSE "no"
  /\ UNCHANGED <<wcall, taken, items, failure>>

Send ==
  /\ wcAt = "send"
  /\ wcAt' = "answer"
  /\ sentAs' = IF sentAs = "processed" THEN "processed" ELSE "raw"
  /\ UNCHANGED <<wcall, taken, items, failure>>

(* The provider's own error is reported in the same words; an awaited error*)
(* of the nested wrapper, which does not await, reaches the caller as is.  *)
ProviderRaises ==
  /\ wcAt = "answer"
  /\ wcAt' = "done"
  /\ failure' = IF wcall.on /\ ~(wcall.door = "nested" /\ wcall.awaits) THEN "refusing" ELSE "own"
  /\ UNCHANGED <<wcall, sentAs, taken, items>>

-----------------------------------------------------------------------------
Streams == wcall.answer.kind \in StreamKind

(* is_streaming_response, asked where streaming was asked for.             *)
HandedOver == Streams /\ wcall.stream /\ wcall.answer.kind # "aiterable" /\ ~(wcall.door = "nested" /\ wcall.awaits)

(* The synchronous handler iterates what has __iter__, the asynchronous one*)
(* what is an async generator; "generator" stands for those.               *)
Iterates == wcall.answer.kind = IF wcall.awaits THEN "generator" ELSE "iterable"

Guarded == wcall.door \notin {"function"} /\ ~(wcall.door = "nested" /\ wcall.awaits)

(* _guard_response; a function's answer is returned as it is, a stream that*)
(* is not handed over goes through the guard like any object.              *)
GuardAnswer ==
  /\ wcAt = "answer"
  /\ wcall.door = "function" \/ ~HandedOver
  /\ items' = <<Item("answer",
       IF ~Guarded \/ (Streams /\ wcall.format \in {"none", "unknown"}) THEN "same"
       ELSE IF Streams THEN "string" ELSE GuardOutput(wcall.answer.output, wcall.format))>>
  /\ wcAt' = "done"
  /\ UNCHANGED <<wcall, sentAs, taken, failure>>

HandOver ==
  /\ wcAt = "answer"
  /\ wcall.door # "function" /\ HandedOver
  /\ wcAt' = "stream"
  /\ UNCHANGED <<wcall, sentAs, taken, items, failure>>

(* For mutation: the last piece of a chunk is left out.                    *)
PiecesShort(text) == [i \in 1..(Len(text) \div MaxChunk) |-> SubSeq(text, (i - 1) * MaxChunk + 1, i * MaxChunk)]

(* The pieces StreamingGuard makes of a chunk that is too long.            *)
Pieces(text) ==
  [i \in 1..((Len(text) + MaxChunk - 1) \div MaxChunk) |->
     SubSeq(text, (i - 1) * MaxChunk + 1, IF i * MaxChunk < Len(text) THEN i * MaxChunk ELSE Len(text))]

Splits(text) == wcall.guard /\ MaxChunk > 0 /\ Len(text) > MaxChunk
Passed(text) == IF Splits(text) THEN Pieces(text) ELSE <<text>>

(* The stream itself in place of a chunk, or its repr in pieces.           *)
Itself ==
  IF wcall.guard /\ MaxChunk > 0 THEN <<Item("repr", <<>>), Item("repr", <<>>)>> ELSE <<Item("response", <<>>)>>

NextChunk ==
  /\ wcAt = "stream" /\ Iterates
  /\ taken < Len(Chunks) /\ taken # wcall.answer.fails
  /\ taken' = taken + 1
  /\ items' = items \o [i \in DOMAIN Passed(Chunks[taken + 1]) |-> Item("chunk", Passed(Chunks[taken + 1])[i])]
  /\ UNCHANGED <<wcall, wcAt, sentAs, failure>>

(* The stream raises: the handler yields the stream and ends.              *)
StreamFails ==
  /\ wcAt = "stream" /\ Iterates
  /\ taken < Len(Chunks) /\ taken = wcall.answer.fails
  /\ items' = items \o Itself
  /\ wcAt' = "done"
  /\ UNCHANGED <<wcall, sentAs, taken, failure>>

StreamEnds ==
  /\ wcAt = "stream"
  /\ Iterates => taken = Len(Chunks)
  /\ items' = IF Iterates THEN items ELSE Itself
  /\ wcAt' = "done"
  /\ UNCHANGED <<wcall, sentAs, taken, failure>>

(* A caller that closes the generator gets nothing more.                   *)
StopReading ==
  /\ wcAt = "stream" /\ items # <<>>
  /\ wcAt' = "done"
  /\ UNCHANGED <<wcall, sentAs, taken, items, failure>>

WcNext ==
  \/ Refuse \/ Prepare \/ Send \/ ProviderRaises
  \/ GuardAnswer \/ HandOver
  \/ NextChunk \/ StreamFails \/ StreamEnds \/ StopReading

WcSpec == WcInit /\ [][WcNext]_wcvars

-----------------------------------------------------------------------------
Texts(s) == [i \in DOMAIN s |-> s[i].text]

(* A caller that joins the chunks it receives, which come first, has the   *)
(* provider's text so far, in order and nothing twice, however the guard   *)
(* cuts it and wherever the stream fails or is abandoned.                  *)
ChunksJoinToTheStream ==
  Streams => \E n \in 0..Len(items) :
    /\ \A i \in DOMAIN items : items[i].what = "chunk" <=> i <= n
    /\ FlattenSeq(Texts(SubSeq(items, 1, n))) = FlattenSeq(SubSeq(Chunks, 1, taken))

(* What is not a chunk comes last, and without a guard that cuts it there  *)
(* is one of it: the handler that swallowed an error says nothing more.    *)
ForeignItemsComeLast ==
  \A i, j \in DOMAIN items :
    i < j /\ items[i].what # "chunk" => items[j].what = items[i].what /\ wcall.guard

(* In a mode that processes, a prompt is sent unprocessed only where the   *)
(* wrapper does not look for it: in an argument such as system or contents,*)
(* or a list as input; by position through wrap_method and the nested      *)
(* wrapper, as a list through wrap_llm, by keyword through wrap_function.  *)
(* One that could not be processed is not sent.                            *)
UnseenPromptsOnlyAreRaw ==
  sentAs = "raw" /\ wcall.on =>
    \/ wcall.prompt = "other"
    \/ wcall.prompt \in {"string", "list"} /\ wcall.door \in {"nested", "method"}
    \/ wcall.prompt = "list" /\ wcall.door = "client"
    \/ wcall.prompt \in {"messages", "named"} /\ wcall.door = "function"

(* A stream that is taken for one by the handler is never replaced: the    *)
(* caller who asked for a stream of the client's kind receives every chunk,*)
(* unless the stream fails or he stops.                                    *)
StreamsComeInChunks ==
  wcAt = "done" /\ failure = "none" /\ HandedOver /\ wcall.door # "function"
    /\ wcall.answer.kind = (IF wcall.awaits THEN "generator" ELSE "iterable") =>
       \A i \in DOMAIN items : items[i].what # "chunk" => taken = wcall.answer.fails /\ taken < Len(Chunks)

(* What the provider is sent and what the caller receives are the prompt,  *)
(* processed where the wrapper looks for it, and the answer, complete as   *)
(* far as it came.                                                         *)
WrappedCallsDeliver ==
  /\ WcTypeOK /\ UnseenPromptsOnlyAreRaw
  /\ ChunksJoinToTheStream /\ ForeignItemsComeLast /\ StreamsComeInChunks
=============================================================================
