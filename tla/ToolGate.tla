------------------------------ MODULE ToolGate ------------------------------
(***************************************************************************)
(* What ANCHOR promises of the tools of a session, with no guard, score,   *)
(* phase or history in sight.  A session is set up once, and whether it is *)
(* local is settled then.  A call is asked for, granted or refused, and    *)
(* over; what is granted may run its tool, once; what is refused does not. *)
(* In a local session a perilous tool is granted only with a human's       *)
(* consent, and a sandboxed tool has no network.                           *)
(***************************************************************************)
CONSTANTS
  Caller, Tool,
  Perilous   \* tools that can send data out or destroy it

VARIABLES
  set,   \* has the session been set up?
  local, \* may nothing leave it?
  call,  \* per caller: the call it makes
  used,  \* tools that count as used
  ran    \* what ran since the session was set up

gatevars == <<set, local, call, used, ran>>

Bridged == {"guarded", "async"}
How == Bridged \cup {"preview", "direct"}

(* A call names a tool or none.                                            *)
Named == {{}} \cup {{t} : t \in Tool}

Over == [state |-> "idle", names |-> {}, how |-> "direct", consent |-> FALSE]

Init ==
  /\ set = FALSE /\ local = FALSE
  /\ call = [c \in Caller |-> Over]
  /\ used = {} /\ ran = {}

SetUp ==
  /\ ~set /\ ran = {}
  /\ \A c \in Caller : call[c].state \in {"idle", "refused"}
  /\ set' = TRUE /\ local' \in BOOLEAN
  /\ UNCHANGED <<call, used, ran>>

(* How a call stands changes for one caller at a time.                     *)
Becomes(c, new) == call' = [call EXCEPT ![c] = new]

Ask(c) ==
  LET new == call'[c]
  IN  /\ UNCHANGED <<set, local, used, ran>>
      /\ call[c].state = "idle" /\ new.state = IF set THEN "asked" ELSE "refused"
      /\ new.names \in Named /\ new.how \in How /\ ~new.consent
      /\ Becomes(c, new)

(* A human may be asked; the answer may be to refuse.                      *)
Consider(c) ==
  /\ UNCHANGED <<set, local, used, ran>>
  /\ call[c].state = "asked"
  /\ \E yes \in BOOLEAN, state \in {"asked", "refused"} :
       Becomes(c, [state |-> state, names |-> call[c].names, how |-> call[c].how, consent |-> yes])

Grant(c) ==
  /\ UNCHANGED <<set, local, ran>>
  /\ call[c].state = "asked"
  /\ local /\ call[c].names \cap Perilous # {} => call[c].consent
  /\ used' = used \cup call[c].names
  /\ Becomes(c, IF call[c].how \in Bridged THEN [call[c] EXCEPT !.state = "granted"] ELSE Over)

Run(c) ==
  /\ UNCHANGED <<set, local, used>>
  /\ call[c].state = "granted"
  /\ \E t \in call[c].names, network \in BOOLEAN :
       /\ local /\ call[c].how = "guarded" => ~network
       /\ ran' = ran \cup {[ tool |-> t, sandboxed |-> call[c].how = "guarded",
                             network |-> network, human |-> call[c].consent ]}
  /\ Becomes(c, Over)

Report(c) ==
  /\ UNCHANGED <<set, local, used, ran>>
  /\ call[c].state = "refused"
  /\ Becomes(c, Over)

Next == SetUp \/ \E c \in Caller : Ask(c) \/ Consider(c) \/ Grant(c) \/ Run(c) \/ Report(c)

Spec == Init /\ [][Next]_gatevars
=============================================================================
