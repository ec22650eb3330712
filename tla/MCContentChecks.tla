---------------------------- MODULE MCContentChecks ----------------------------
(***************************************************************************)
(* What finds and replaces content: the PII pipeline, which serves one     *)
(* caller at a time, and the security service, which threads share.  Each  *)
(* behaviour is about one of the two.                                      *)
(***************************************************************************)
EXTENDS PiiPipeline, SecurityService

VARIABLE app  \* the part this behaviour is about

Phone1 == Pii("phone", "555-123-4567")
Phone2 == Pii("phone", "555-987-6543")
Email1 == Pii("email", "a.b@corp.io")
Hidden == [Email1 EXCEPT !.form = "obf"]
Taught == Pii("email", "user@example.com")
ZipCode    == Pii("zip_code", "12345")
Card   == Pii("credit_card", "4111")

Cells2 == {Word, Cue, Phone1, Phone2, Email1, Hidden, Taught, ZipCode, Card}
Names  == {<<Cap("John"), Cap("Smith")>>, <<Cap("Please"), Cap("Smith")>>}

MCInputs == {<<>>} \cup {<<a, b>> : a, b \in Cells2}
            \cup {n \o <<a>> : n \in Names, a \in {Word, Email1, Phone1, ZipCode}}
            \cup {<<Phone1, Word, Phone2>>, <<Phone1, Email1, Phone1>>,
                  <<Cue, Email1, Taught>>, <<Cap("John"), Cap("Smith"), Phone1, Cue>>,
                  <<Cue, Taught, Phone1>>, <<Cap("John"), Cap("Smith"), Cap("Ray")>>}
MCSayings == {{}, {"example", "test"}, {"my", "private"},
              {"example", "test", "my", "personal", "private"}}
MCOverrides == {"keep", "lite", "ml_only"}
MCBadSums == {"4111"}

-----------------------------------------------------------------------------
Ask(words, r) == [r EXCEPT !.text = [i \in DOMAIN words |-> Cell(words[i])]]
Lite == [NoRequest EXCEPT !.mode = "lite", !.reversible = TRUE]

Phrases == {"word", "bob", "ssn", "card", "badcard", "cardword", "override", "hidden",
            "reveal", "drop", "clause", "bomb", "probe", "decode", "extract", "guide"}
Sentences == {<<p>> : p \in Phrases} \cup
  {<<"jim", "bob", "bob">>, <<"bob", "jim", "bob">>, <<"badcard", "cardword">>,
   <<"bob", "ssn", "bob">>, <<"ssn", "card", "bob", "bomb">>, <<"card", "bomb", "override">>,
   <<"reveal", "guide">>, <<"probe", "now">>, <<"probe", "guide">>, <<"drop", "extract">>,
   <<"decode", "decode", "decode">>, <<"word", "guide">>, <<"ssn", "override">>}
FirstAsks == {Ask(w, Lite) : w \in Sentences}
    \cup {Ask(w, [Lite EXCEPT !.pii_mode = "hybrid", !.blocking = FALSE]) : w \in Sentences}
    \cup {Ask(w, [NoRequest EXCEPT !.caller = c]) :
             w \in {<<"word">>, <<"probe">>, <<"hidden">>, <<"drop", "extract">>, <<"ssn">>},
             c \in {"fail_closed", "fail_open", "finalize"}}
    \cup {Ask(<<"clause", "bob">>, [NoRequest EXCEPT !.mode = m, !.inj = i]) :
             m \in {"regex_only", "ensemble", "strict"}, i \in BOOLEAN}
    \cup {Ask(<<"bob">>, [NoRequest EXCEPT !.pii = FALSE, !.inj = i]) : i \in BOOLEAN}
SecondAsks == {Ask(<<"bob">>, [NoRequest EXCEPT !.mode = m, !.caller = "fail_closed"]) :
             m \in {"lite", "ensemble"}}

MCAsks == [t \in Threads |-> IF t = 1 THEN FirstAsks ELSE SecondAsks]
MCScores == {<<0, 0>>, <<9000, 5000>>, <<9000, 9990>>}
MCMlScores == {0, 5000, 9000}

-----------------------------------------------------------------------------
CcInit ==
  /\ app \in {"pii", "security"}
  /\ Init /\ SecInit
  /\ app = "pii" => ~hardened

CcNext ==
  /\ UNCHANGED app
  /\ \/ app = "pii" /\ Next /\ UNCHANGED secvars
     \/ app = "security" /\ SecNext /\ UNCHANGED vars

CcSpec == CcInit /\ [][CcNext]_<<app, vars, secvars>>
=============================================================================
