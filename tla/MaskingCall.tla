----------------------------- MODULE MaskingCall -----------------------------
(***************************************************************************)
(* What a caller of the PII pipeline may rely on, with no stages in sight: *)
(* one call at a time; the answer is the text sent, with the call marked   *)
(* as failed, or that text in which values have been replaced by labels:   *)
(* the words between the values and the teaching addresses are all there,  *)
(* in their order, and no value occurs that was not sent.                  *)
(***************************************************************************)
EXTENDS PiiStages

CONSTANT Texts

VARIABLES busy, sent, answer

Around(c) == c = Cue \/ IsExampleEmail(c)
Count2(c, T) == Cardinality({i \in DOMAIN T : T[i] = c})

MaskedFrom(new, T) ==
  /\ Only(new, Around) = Only(T, Around)
  /\ \A c \in {x \in Range(new) : x.kind \in {"pii", "cap"}} :
        Count2(c, new) <= Count2(c, T)

Init == busy = FALSE /\ sent = <<>> /\ answer = [ok |-> TRUE, text |-> <<>>]

Send(T) == /\ ~busy /\ busy' = TRUE
           /\ sent' = T /\ UNCHANGED answer

Answer(ok, T) ==
  /\ busy /\ busy' = FALSE
  /\ answer' = [ok |-> ok, text |-> T]
  /\ IF ok THEN MaskedFrom(T, sent) \/ MaskedFrom(T, Normalize(sent)) ELSE T = sent
  /\ UNCHANGED sent

(* A text without content is refused on the spot.                          *)
Refuse == /\ ~busy /\ UNCHANGED busy
          /\ sent' = <<>> /\ answer' = [ok |-> FALSE, text |-> <<>>]

Next == \/ \E T \in Texts : Send(T)
        \/ Answer(answer'.ok, answer'.text)
        \/ Refuse

Spec == Init /\ [][Next]_<<busy, sent, answer>>
=============================================================================
