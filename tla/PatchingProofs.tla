---------------------------- MODULE PatchingProofs ----------------------------
(***************************************************************************)
(* Theorems of the modules that replace functions of the process while     *)
(* something runs: SandboxHooks, for one thread, at any depth of nesting,  *)
(* with any policies, paths and modules, and SdkPatching, for any callers, *)
(* clients, SDKs and modes.  (With two threads WritesStayInScope and       *)
(* HooksOnlyWhileExecuting are false: SandboxThreadsWrite.)                *)
(***************************************************************************)
EXTENDS SandboxHooks, SdkPatching, TLAPS

-----------------------------------------------------------------------------
(* SandboxHooks                                                            *)

Solo == CHOOSE t \in Thread : Thread = {t}
OneThread == Thread = {Solo}
Stack == frames[Solo]

(* What builtins.open is while f is the innermost call.                    *)
Opened(f) ==
  IF f.mode = "auto" /\ f.at \in {"patchModules", "run"} THEN <<f.policy>> \o f.saved ELSE f.saved

Shielded(chain, p) == \E k \in DOMAIN chain : chain[k] = p

(* Only the innermost call is on its way in or out.                        *)
InnermostMoves ==
  /\ \A i \in DOMAIN Stack : i > 1 => Stack[i].at = "run"
  /\ \A i \in DOMAIN Stack : Stack[i].mode = "off" => Stack[i].at = "run"
  /\ \A i \in DOMAIN Stack : Stack[i].mode = "off" \/ Stack[i].at \in {"enter", "patchModules"} => Stack[i].patched = {}

(* Each call found the open of the call around it, the outermost Python's. *)
ChainedOpens ==
  /\ Stack = <<>> => open = <<>>
  /\ Stack # <<>> => open = Opened(Stack[1]) /\ Stack[Len(Stack)].saved = <<>>
  /\ \A i \in DOMAIN Stack : i + 1 \in DOMAIN Stack => Stack[i].saved = Opened(Stack[i + 1])

(* What a call found guards for every enforcing call around it.            *)
SavedGuards ==
  \A i, j \in DOMAIN Stack : i < j /\ Stack[j].mode = "auto" => Shielded(Stack[i].saved, Stack[j].policy)

(* What is hidden some call has hidden; what a call found hidden, a call   *)
(* around it has.                                                          *)
HiddenByCalls ==
  /\ \A m \in Module : modules[m] = "none" => \E i \in DOMAIN Stack : m \in Stack[i].patched
  /\ \A i \in DOMAIN Stack : \A m \in Stack[i].patched :
       Stack[i].restored[m] = "none" => \E j \in DOMAIN Stack : j > i /\ m \in Stack[j].patched

HooksInv == HooksTypeOK /\ InnermostMoves /\ ChainedOpens /\ SavedGuards /\ HiddenByCalls /\ WritesStayInScope

-----------------------------------------------------------------------------
LEMMA PushedFrame ==
  ASSUME NEW S, NEW s \in Seq(S), NEW f \in S
  PROVE  /\ <<f>> \o s \in Seq(S) /\ Len(<<f>> \o s) = Len(s) + 1
         /\ (<<f>> \o s)[1] = f
         /\ \A i \in DOMAIN s : i + 1 \in DOMAIN (<<f>> \o s) /\ (<<f>> \o s)[i + 1] = s[i]
         /\ \A i \in DOMAIN (<<f>> \o s) : i = 1 \/ (i - 1 \in DOMAIN s /\ (<<f>> \o s)[i] = s[i - 1])
OBVIOUS

LEMMA PoppedFrame ==
  ASSUME NEW S, NEW s \in Seq(S), s # <<>>
  PROVE  /\ Tail(s) \in Seq(S) /\ Len(Tail(s)) = Len(s) - 1 /\ s[1] \in S
         /\ \A i \in DOMAIN Tail(s) : i + 1 \in DOMAIN s /\ Tail(s)[i] = s[i + 1]
         /\ \A i \in DOMAIN s : i > 1 => i - 1 \in DOMAIN Tail(s) /\ Tail(s)[i - 1] = s[i]
OBVIOUS

LEMMA ReplacedFrame ==
  ASSUME NEW S, NEW s \in Seq(S), s # <<>>, NEW f \in S
  PROVE  /\ <<f>> \o Tail(s) \in Seq(S) /\ Len(<<f>> \o Tail(s)) = Len(s)
         /\ DOMAIN (<<f>> \o Tail(s)) = DOMAIN s
         /\ (<<f>> \o Tail(s))[1] = f
         /\ \A i \in DOMAIN s : i > 1 => (<<f>> \o Tail(s))[i] = s[i]
OBVIOUS

LEMMA ShieldedByFirst ==
  ASSUME NEW p \in Policy, NEW chain \in Seq(Policy), NEW q
  PROVE  Shielded(<<p>> \o chain, q) <=> q = p \/ Shielded(chain, q)
<1>1. Shielded(<<p>> \o chain, q) => q = p \/ Shielded(chain, q)
  BY DEF Shielded
<1>2. Shielded(<<p>> \o chain, p)
  <2>1. 1 \in DOMAIN (<<p>> \o chain) /\ (<<p>> \o chain)[1] = p
    OBVIOUS
  <2>. QED BY <2>1 DEF Shielded
<1>3. ASSUME Shielded(chain, q) PROVE Shielded(<<p>> \o chain, q)
  <2>1. PICK k \in DOMAIN chain : chain[k] = q
    BY <1>3 DEF Shielded
  <2>2. k + 1 \in DOMAIN (<<p>> \o chain) /\ (<<p>> \o chain)[k + 1] = q
    BY <2>1
  <2>. QED BY <2>2 DEF Shielded
<1>. QED BY <1>1, <1>2, <1>3

(* While a tool runs, every enforcing call it is in guards open().         *)
LEMMA RunningIsShielded ==
  ASSUME HooksInv, OneThread, Stack # <<>>, Stack[1].at = "run"
  PROVE  \A j \in DOMAIN Stack : Stack[j].mode = "auto" => Shielded(open, Stack[j].policy)
<1>1. Stack \in Seq(Frame) /\ Stack[1] \in Frame /\ 1 \in DOMAIN Stack
  BY DEF HooksInv, HooksTypeOK, OneThread, Stack
<1>2. Stack[1].saved \in Seq(Policy) /\ Stack[1].policy \in Policy
  BY <1>1 DEF Frame
<1>3. open = Opened(Stack[1])
  BY DEF HooksInv, ChainedOpens
<1>4. ASSUME NEW j \in DOMAIN Stack, Stack[j].mode = "auto" PROVE Shielded(open, Stack[j].policy)
  <2>1. j = 1 \/ Shielded(Stack[1].saved, Stack[j].policy)
    BY <1>1, <1>4 DEF HooksInv, SavedGuards
  <2>2. CASE Stack[1].mode = "auto"
    BY <1>2, <1>3, <2>1, <2>2, ShieldedByFirst DEF Opened
  <2>3. CASE Stack[1].mode # "auto"
    BY <1>3, <1>4, <2>1, <2>3 DEF Opened
  <2>. QED BY <2>2, <2>3
<1>. QED BY <1>4

LEMMA HooksInitInvariant == OneThread /\ HooksInit => HooksInv
<1>. SUFFICES ASSUME OneThread, HooksInit PROVE HooksInv
  OBVIOUS
<1>1. HooksTypeOK
  BY HooksAssumption DEF HooksInit, HooksTypeOK
<1>2. Stack = <<>> /\ DOMAIN Stack = {}
  BY DEF HooksInit, OneThread, Stack
<1>3. InnermostMoves /\ SavedGuards
  BY <1>2 DEF InnermostMoves, SavedGuards
<1>4. ChainedOpens
  BY <1>2 DEF HooksInit, ChainedOpens
<1>5. HiddenByCalls
  BY <1>2 DEF HooksInit, HiddenByCalls
<1>6. WritesStayInScope
  BY DEF HooksInit, WritesStayInScope
<1>. QED BY <1>1, <1>3, <1>4, <1>5, <1>6 DEF HooksInv

-----------------------------------------------------------------------------
(* The steps, by what they do to the stack of calls.                       *)

LEMMA EnteringKeeps ==
  ASSUME HooksInv, OneThread, NEW p \in Policies, NEW mode \in Modes, Execute(Solo, p, mode)
  PROVE  HooksInv'
<1>. DEFINE f == [ policy |-> p, mode |-> mode, at |-> IF mode = "off" THEN "run" ELSE "enter",
                   saved |-> open, patched |-> {}, restored |-> modules ]
<1>1. /\ Stack \in Seq(Frame) /\ open \in Seq(Policy) /\ modules \in [Module -> {"absent", "loaded", "none"}]
      /\ frames \in [Thread -> Seq(Frame)] /\ Solo \in Thread /\ calls \in 0..MaxCalls
  BY DEF HooksInv, HooksTypeOK, OneThread, Stack
<1>2. f \in Frame /\ mode \in {"off", "auto"} /\ p \in Policy
  BY <1>1, HooksAssumption DEF Frame
<1>3. /\ f.policy = p /\ f.mode = mode /\ f.at = (IF mode = "off" THEN "run" ELSE "enter")
      /\ f.saved = open /\ f.patched = {} /\ f.restored = modules
  OBVIOUS
<1>4. /\ frames' = [frames EXCEPT ![Solo] = <<f>> \o @] /\ calls' = calls + 1 /\ calls < MaxCalls
      /\ UNCHANGED <<open, modules, leaks>> /\ (Stack = <<>> \/ Stack[1].at = "run")
  BY DEF Execute, InCall, InTool, Top, Stack
<1>. HIDE DEF f
<1>5. Stack' = <<f>> \o Stack
  BY <1>1, <1>4 DEF Stack
<1>6. /\ Stack' \in Seq(Frame) /\ Len(Stack') = Len(Stack) + 1 /\ Stack'[1] = f
      /\ \A i \in DOMAIN Stack : i + 1 \in DOMAIN Stack' /\ Stack'[i + 1] = Stack[i]
      /\ \A i \in DOMAIN Stack' : i = 1 \/ (i - 1 \in DOMAIN Stack /\ Stack'[i] = Stack[i - 1])
  BY <1>1, <1>2, <1>5, PushedFrame
<1>7. HooksTypeOK'
  <2>1. frames' \in [Thread -> Seq(Frame)]
    BY <1>1, <1>4, <1>5, <1>6 DEF Stack, OneThread
  <2>2. calls' \in 0..MaxCalls
    BY <1>1, <1>4, HooksAssumption
  <2>. QED BY <1>4, <2>1, <2>2 DEF HooksInv, HooksTypeOK
<1>8. DOMAIN Stack = 1..Len(Stack) /\ DOMAIN Stack' = 1..(Len(Stack) + 1) /\ Len(Stack) \in Nat
  BY <1>1, <1>6
<1>9. InnermostMoves'
  <2>1. ASSUME NEW i \in DOMAIN Stack', i > 1 PROVE Stack'[i].at = "run"
    <3>1. i - 1 \in DOMAIN Stack /\ Stack'[i] = Stack[i - 1]
      BY <1>6, <2>1
    <3>2. CASE i = 2
      BY <1>4, <1>8, <3>1, <3>2
    <3>3. CASE i # 2
      BY <1>8, <2>1, <3>1, <3>3 DEF HooksInv, InnermostMoves
    <3>. QED BY <3>2, <3>3
  <2>2. ASSUME NEW i \in DOMAIN Stack'
        PROVE /\ Stack'[i].mode = "off" => Stack'[i].at = "run"
              /\ Stack'[i].mode = "off" \/ Stack'[i].at \in {"enter", "patchModules"} => Stack'[i].patched = {}
    BY <1>3, <1>6, <2>2 DEF HooksInv, InnermostMoves
  <2>. QED BY <2>1, <2>2 DEF InnermostMoves
<1>10. ChainedOpens'
  <2>1. Stack' # <<>> /\ open' = Opened(Stack'[1])
    BY <1>2, <1>3, <1>4, <1>6, <1>8 DEF Opened, HooksInv, ChainedOpens
  <2>2. Stack'[Len(Stack')].saved = <<>>
    BY <1>1, <1>3, <1>6, <1>8 DEF HooksInv, ChainedOpens
  <2>3. ASSUME NEW i \in DOMAIN Stack', i + 1 \in DOMAIN Stack' PROVE Stack'[i].saved = Opened(Stack'[i + 1])
    <3>1. i \in DOMAIN Stack /\ Stack'[i + 1] = Stack[i]
      BY <1>6, <1>8, <2>3
    <3>2. CASE i = 1
      BY <1>3, <1>6, <1>8, <3>1, <3>2 DEF HooksInv, ChainedOpens
    <3>3. CASE i # 1
      BY <1>6, <1>8, <2>3, <3>1, <3>3 DEF HooksInv, ChainedOpens
    <3>. QED BY <3>2, <3>3
  <2>. QED BY <2>1, <2>2, <2>3 DEF ChainedOpens
<1>11. SavedGuards'
  <2>1. ASSUME NEW i \in DOMAIN Stack', NEW j \in DOMAIN Stack', i < j, Stack'[j].mode = "auto"
        PROVE Shielded(Stack'[i].saved, Stack'[j].policy)
    <3>1. j - 1 \in DOMAIN Stack /\ Stack'[j] = Stack[j - 1]
      BY <1>6, <1>8, <2>1
    <3>2. CASE i = 1
      <4>1. Stack # <<>> /\ Stack[1].at = "run"
        BY <1>4, <1>8, <3>1
      <4>. QED BY <1>3, <1>6, <2>1, <3>1, <3>2, <4>1, RunningIsShielded
    <3>3. CASE i # 1
      BY <1>6, <1>8, <2>1, <3>1, <3>3 DEF HooksInv, SavedGuards
    <3>. QED BY <3>2, <3>3
  <2>. QED BY <2>1 DEF SavedGuards
<1>12. HiddenByCalls'
  <2>1. ASSUME NEW m \in Module, modules'[m] = "none" PROVE \E i \in DOMAIN Stack' : m \in Stack'[i].patched
    BY <1>4, <1>6, <2>1 DEF HooksInv, HiddenByCalls
  <2>2. ASSUME NEW i \in DOMAIN Stack', NEW m \in Stack'[i].patched, Stack'[i].restored[m] = "none"
        PROVE \E j \in DOMAIN Stack' : j > i /\ m \in Stack'[j].patched
    <3>1. i # 1 /\ i - 1 \in DOMAIN Stack /\ Stack'[i] = Stack[i - 1]
      BY <1>3, <1>6, <2>2
    <3>2. PICK j \in DOMAIN Stack : j > i - 1 /\ m \in Stack[j].patched
      BY <2>2, <3>1 DEF HooksInv, HiddenByCalls
    <3>3. j + 1 \in DOMAIN Stack' /\ j + 1 > i /\ m \in Stack'[j + 1].patched
      BY <1>6, <1>8, <3>2
    <3>. QED BY <3>3
  <2>. QED BY <2>1, <2>2 DEF HiddenByCalls
<1>13. WritesStayInScope'
  BY <1>4 DEF HooksInv, WritesStayInScope
<1>. QED BY <1>7, <1>9, <1>10, <1>11, <1>12, <1>13 DEF HooksInv

(* A step that changes the innermost call and leaves those around it.      *)
LEMMA ReplacingTop ==
  ASSUME HooksInv, OneThread, Stack # <<>>, NEW f \in Frame, SetTop(Solo, f)
  PROVE  /\ Stack \in Seq(Frame) /\ Stack[1] \in Frame /\ Stack' \in Seq(Frame) /\ DOMAIN Stack' = DOMAIN Stack
         /\ Len(Stack') = Len(Stack) /\ DOMAIN Stack = 1..Len(Stack) /\ Len(Stack) \in Nat \ {0} /\ Stack' # <<>>
         /\ Stack'[1] = f /\ (\A i \in DOMAIN Stack : i > 1 => Stack'[i] = Stack[i])
         /\ frames' \in [Thread -> Seq(Frame)]
<1>1. Stack \in Seq(Frame) /\ frames \in [Thread -> Seq(Frame)] /\ Solo \in Thread
  BY DEF HooksInv, HooksTypeOK, OneThread, Stack
<1>2. Stack' = <<f>> \o Tail(Stack) /\ frames' = [frames EXCEPT ![Solo] = <<f>> \o Tail(Stack)]
  BY <1>1 DEF SetTop, Stack
<1>3. /\ Stack' \in Seq(Frame) /\ Len(Stack') = Len(Stack) /\ DOMAIN Stack' = DOMAIN Stack
      /\ Stack'[1] = f /\ \A i \in DOMAIN Stack : i > 1 => Stack'[i] = Stack[i]
  BY <1>1, <1>2, ReplacedFrame
<1>4. DOMAIN Stack = 1..Len(Stack) /\ Len(Stack) \in Nat \ {0} /\ Stack[1] \in Frame
  BY <1>1, PoppedFrame
<1>5. frames' \in [Thread -> Seq(Frame)]
  BY <1>1, <1>2, <1>3
<1>. QED BY <1>1, <1>3, <1>4, <1>5

LEMMA MovingIn ==
  ASSUME HooksInv, OneThread, Stack # <<>>, Stack[1].at \in {"enter", "patchModules"}
  PROVE  Stack[1].mode = "auto" /\ Stack[1].patched = {}
<1>1. Stack \in Seq(Frame) /\ 1 \in DOMAIN Stack /\ Stack[1] \in Frame
  BY PoppedFrame DEF HooksInv, HooksTypeOK, OneThread, Stack
<1>2. Stack[1].mode \in {"off", "auto"}
  BY <1>1, HooksAssumption DEF Frame
<1>3. InnermostMoves
  BY DEF HooksInv
<1>4. Stack[1].mode # "off"
  BY <1>1, <1>3 DEF InnermostMoves
<1>. QED BY <1>1, <1>2, <1>3, <1>4 DEF InnermostMoves

LEMMA PatchingOpenKeeps ==
  ASSUME HooksInv, OneThread, PatchOpen(Solo)
  PROVE  HooksInv'
<1>. DEFINE f == [Stack[1] EXCEPT !.at = "patchModules"]
<1>1. /\ Stack # <<>> /\ Stack[1].at = "enter" /\ open' = <<Stack[1].policy>> \o Stack[1].saved /\ SetTop(Solo, f)
      /\ UNCHANGED <<modules, calls, leaks>>
  BY DEF PatchOpen, At, InCall, Top, Stack
<1>2. Stack[1] \in Frame /\ Stack \in Seq(Frame)
  BY <1>1, PoppedFrame DEF HooksInv, HooksTypeOK, OneThread, Stack
<1>3. /\ f \in Frame /\ f.at = "patchModules" /\ f.saved = Stack[1].saved /\ f.policy = Stack[1].policy
      /\ f.mode = Stack[1].mode /\ f.patched = Stack[1].patched /\ f.restored = Stack[1].restored
  BY <1>2 DEF Frame
<1>. HIDE DEF f
<1>4. /\ Stack' \in Seq(Frame) /\ DOMAIN Stack' = DOMAIN Stack /\ Len(Stack') = Len(Stack)
      /\ DOMAIN Stack = 1..Len(Stack) /\ Len(Stack) \in Nat \ {0} /\ Stack' # <<>>
      /\ Stack'[1] = f /\ (\A i \in DOMAIN Stack : i > 1 => Stack'[i] = Stack[i])
      /\ frames' \in [Thread -> Seq(Frame)]
  BY <1>1, <1>3, ReplacingTop
<1>5. \A i \in DOMAIN Stack : /\ Stack'[i].saved = Stack[i].saved /\ Stack'[i].policy = Stack[i].policy
                              /\ Stack'[i].mode = Stack[i].mode /\ Stack'[i].patched = Stack[i].patched
                              /\ Stack'[i].restored = Stack[i].restored
  BY <1>3, <1>4
<1>6. Stack[1].policy \in Policy /\ Stack[1].saved \in Seq(Policy)
  BY <1>2 DEF Frame
<1>7. HooksTypeOK'
  <2>1. open' \in Seq(Policy)
    BY <1>1, <1>6
  <2>. QED BY <1>1, <1>4, <2>1 DEF HooksInv, HooksTypeOK
<1>8. Stack[1].mode = "auto" /\ Stack[1].patched = {}
  BY <1>1, MovingIn
<1>9. InnermostMoves'
  <2>1. \A i \in DOMAIN Stack' : i > 1 => Stack'[i].at = "run"
    BY <1>4 DEF HooksInv, InnermostMoves
  <2>2. Stack'[1].mode = "auto" /\ Stack'[1].patched = {}
    BY <1>3, <1>4, <1>8
  <2>3. \A i \in DOMAIN Stack' : Stack'[i].mode = "off" => Stack'[i].at = "run"
    BY <1>4, <2>1, <2>2
  <2>4. ASSUME NEW i \in DOMAIN Stack', Stack'[i].mode = "off" \/ Stack'[i].at \in {"enter", "patchModules"}
        PROVE Stack'[i].patched = {}
    BY <1>4, <2>1, <2>2, <2>4 DEF HooksInv, InnermostMoves
  <2>. QED BY <2>1, <2>3, <2>4 DEF InnermostMoves
<1>10. ChainedOpens'
  <2>1. open' = Opened(Stack'[1])
    BY <1>1, <1>3, <1>4, <1>8 DEF Opened
  <2>2. Stack'[Len(Stack')].saved = <<>>
    BY <1>1, <1>4, <1>5 DEF HooksInv, ChainedOpens
  <2>3. ASSUME NEW i \in DOMAIN Stack', i + 1 \in DOMAIN Stack' PROVE Stack'[i].saved = Opened(Stack'[i + 1])
    BY <1>4, <1>5, <2>3 DEF HooksInv, ChainedOpens
  <2>. QED BY <1>4, <2>1, <2>2, <2>3 DEF ChainedOpens
<1>11. SavedGuards'
  BY <1>4, <1>5 DEF HooksInv, SavedGuards
<1>12. HiddenByCalls'
  <2>. HiddenByCalls
    BY DEF HooksInv
  <2>1. ASSUME NEW m \in Module, modules'[m] = "none" PROVE \E i \in DOMAIN Stack' : m \in Stack'[i].patched
    <3>1. PICK i \in DOMAIN Stack : m \in Stack[i].patched
      BY <1>1, <2>1 DEF HiddenByCalls
    <3>. QED BY <1>4, <1>5, <3>1
  <2>2. ASSUME NEW i \in DOMAIN Stack', NEW m \in Stack'[i].patched, Stack'[i].restored[m] = "none"
        PROVE \E j \in DOMAIN Stack' : j > i /\ m \in Stack'[j].patched
    <3>1. m \in Stack[i].patched /\ Stack[i].restored[m] = "none" /\ i \in DOMAIN Stack
      BY <1>4, <1>5, <2>2
    <3>2. PICK j \in DOMAIN Stack : j > i /\ m \in Stack[j].patched
      BY <3>1 DEF HiddenByCalls
    <3>. QED BY <1>4, <1>5, <3>2
  <2>. QED BY <2>1, <2>2 DEF HiddenByCalls
<1>13. WritesStayInScope'
  BY <1>1 DEF HooksInv, WritesStayInScope
<1>. QED BY <1>7, <1>9, <1>10, <1>11, <1>12, <1>13 DEF HooksInv

LEMMA PatchingModulesKeeps ==
  ASSUME HooksInv, OneThread, PatchModules(Solo)
  PROVE  HooksInv'
<1>. DEFINE hidden == IF Stack[1].policy.network THEN {} ELSE {m \in Module : modules[m] # "absent"}
            f == [Stack[1] EXCEPT !.at = "run", !.patched = hidden, !.restored = modules]
<1>1. /\ Stack # <<>> /\ Stack[1].at = "patchModules" /\ SetTop(Solo, f)
      /\ modules' = [m \in Module |-> IF m \in hidden THEN "none" ELSE modules[m]]
      /\ UNCHANGED <<open, calls, leaks>>
  BY DEF PatchModules, At, InCall, Top, Stack
<1>2. Stack[1] \in Frame /\ Stack \in Seq(Frame) /\ modules \in [Module -> {"absent", "loaded", "none"}]
  BY <1>1, PoppedFrame DEF HooksInv, HooksTypeOK, OneThread, Stack
<1>3. hidden \subseteq Module
  OBVIOUS
<1>. HIDE DEF hidden
<1>4. /\ f \in Frame /\ f.at = "run" /\ f.saved = Stack[1].saved /\ f.policy = Stack[1].policy
      /\ f.mode = Stack[1].mode /\ f.patched = hidden /\ f.restored = modules
  BY <1>2, <1>3 DEF Frame
<1>. HIDE DEF f
<1>5. /\ Stack' \in Seq(Frame) /\ DOMAIN Stack' = DOMAIN Stack /\ Len(Stack') = Len(Stack)
      /\ DOMAIN Stack = 1..Len(Stack) /\ Len(Stack) \in Nat \ {0} /\ Stack' # <<>>
      /\ Stack'[1] = f /\ (\A i \in DOMAIN Stack : i > 1 => Stack'[i] = Stack[i])
      /\ frames' \in [Thread -> Seq(Frame)]
  BY <1>1, <1>4, ReplacingTop
<1>6. \A i \in DOMAIN Stack : Stack'[i].saved = Stack[i].saved /\ Stack'[i].policy = Stack[i].policy
                              /\ Stack'[i].mode = Stack[i].mode
  BY <1>4, <1>5
<1>7. HooksTypeOK'
  <2>1. modules' \in [Module -> {"absent", "loaded", "none"}]
    BY <1>1, <1>2
  <2>. QED BY <1>1, <1>5, <2>1 DEF HooksInv, HooksTypeOK
<1>8. Stack[1].mode = "auto" /\ Stack[1].patched = {}
  BY <1>1, MovingIn
<1>9. InnermostMoves'
  <2>1. \A i \in DOMAIN Stack' : Stack'[i].at = "run"
    BY <1>4, <1>5 DEF HooksInv, InnermostMoves
  <2>2. ASSUME NEW i \in DOMAIN Stack', Stack'[i].mode = "off" PROVE Stack'[i].patched = {}
    BY <1>4, <1>5, <1>8, <2>2 DEF HooksInv, InnermostMoves
  <2>. QED BY <2>1, <2>2 DEF InnermostMoves
<1>10. ChainedOpens'
  <2>1. open' = Opened(Stack'[1])
    BY <1>1, <1>4, <1>5, <1>8 DEF Opened, HooksInv, ChainedOpens
  <2>2. Stack'[Len(Stack')].saved = <<>>
    BY <1>1, <1>5, <1>6 DEF HooksInv, ChainedOpens
  <2>3. ASSUME NEW i \in DOMAIN Stack', i + 1 \in DOMAIN Stack' PROVE Stack'[i].saved = Opened(Stack'[i + 1])
    BY <1>5, <1>6, <2>3 DEF HooksInv, ChainedOpens
  <2>. QED BY <1>5, <2>1, <2>2, <2>3 DEF ChainedOpens
<1>11. SavedGuards'
  BY <1>5, <1>6 DEF HooksInv, SavedGuards
<1>12. HiddenByCalls'
  <2>1. ASSUME NEW m \in Module, modules[m] = "none" PROVE \E j \in DOMAIN Stack : j > 1 /\ m \in Stack'[j].patched
    <3>1. PICK j \in DOMAIN Stack : m \in Stack[j].patched
      BY <2>1 DEF HooksInv, HiddenByCalls
    <3>2. j # 1
      BY <1>8, <3>1
    <3>. QED BY <1>5, <3>1, <3>2
  <2>2. ASSUME NEW m \in Module, modules'[m] = "none" PROVE \E i \in DOMAIN Stack' : m \in Stack'[i].patched
    <3>1. CASE m \in hidden
      BY <1>4, <1>5, <3>1
    <3>2. CASE m \notin hidden
      <4>1. modules[m] = "none"
        BY <1>1, <2>2, <3>2
      <4>. QED BY <1>5, <2>1, <4>1
    <3>. QED BY <3>1, <3>2
  <2>3. ASSUME NEW i \in DOMAIN Stack', NEW m \in Stack'[i].patched, Stack'[i].restored[m] = "none"
        PROVE \E j \in DOMAIN Stack' : j > i /\ m \in Stack'[j].patched
    <3>1. CASE i = 1
      BY <1>3, <1>4, <1>5, <2>1, <2>3, <3>1
    <3>2. CASE i # 1
      <4>1. Stack'[i] = Stack[i]
        BY <1>5, <3>2
      <4>2. PICK j \in DOMAIN Stack : j > i /\ m \in Stack[j].patched
        BY <1>5, <2>3, <4>1 DEF HooksInv, HiddenByCalls
      <4>. QED BY <1>5, <4>2
    <3>. QED BY <3>1, <3>2
  <2>. QED BY <2>2, <2>3 DEF HiddenByCalls
<1>13. WritesStayInScope'
  BY <1>1 DEF HooksInv, WritesStayInScope
<1>. QED BY <1>7, <1>9, <1>10, <1>11, <1>12, <1>13 DEF HooksInv

LEMMA ToolKeeps ==
  ASSUME HooksInv, OneThread, (\E path \in Path : WriteFile(Solo, path)) \/ (\E m \in Module : ImportModule(Solo, m))
  PROVE  HooksInv'
<1>1. /\ Stack # <<>> /\ Stack[1].at = "run" /\ UNCHANGED <<open, frames, calls>> /\ Stack' = Stack /\ Solo \in Thread
      /\ modules \in [Module -> {"absent", "loaded", "none"}]
  BY DEF WriteFile, ImportModule, InTool, InCall, Top, Stack, HooksInv, HooksTypeOK, OneThread
<1>2. \A m \in Module : modules'[m] = "none" => modules[m] = "none"
  BY <1>1 DEF WriteFile, ImportModule
<1>3. HooksTypeOK'
  <2>1. leaks' \in SUBSET Leak
    BY <1>1 DEF WriteFile, ImportModule, HooksInv, HooksTypeOK, Leak
  <2>2. modules' \in [Module -> {"absent", "loaded", "none"}]
    BY <1>1 DEF WriteFile, ImportModule
  <2>. QED BY <1>1, <2>1, <2>2 DEF HooksInv, HooksTypeOK
<1>4. InnermostMoves' /\ SavedGuards'
  BY <1>1 DEF HooksInv, InnermostMoves, SavedGuards
<1>5. ChainedOpens'
  <2>1. ChainedOpens
    BY DEF HooksInv
  <2>. QED BY <1>1, <2>1 DEF ChainedOpens, Opened
<1>6. HiddenByCalls'
  <2>1. HiddenByCalls
    BY DEF HooksInv
  <2>. QED BY <1>1, <1>2, <2>1 DEF HiddenByCalls
<1>7. WritesStayInScope'
  <2>1. ASSUME NEW path \in Path, WriteFile(Solo, path) PROVE leaks' = leaks
    <3>1. \A j \in DOMAIN Stack : Stack[j].mode = "auto" => Shielded(open, Stack[j].policy)
      BY <1>1, RunningIsShielded
    <3>2. \A k \in DOMAIN open : path \in open[k].writePaths
      BY <2>1 DEF WriteFile
    <3>3. \A j \in DOMAIN Stack : Stack[j].mode = "auto" => path \in Stack[j].policy.writePaths
      BY <3>1, <3>2 DEF Shielded
    <3>4. \A p \in Enforced(Solo) : path \in p.writePaths
      BY <3>3 DEF Enforced, Stack
    <3>. QED BY <2>1, <3>4 DEF WriteFile
  <2>2. ASSUME NEW m \in Module, ImportModule(Solo, m) PROVE leaks' \subseteq leaks \cup {[thread |-> Solo, kind |-> "network"]}
    BY <2>2 DEF ImportModule
  <2>3. \A l \in leaks : l.kind # "write"
    BY DEF HooksInv, WritesStayInScope
  <2>. QED BY <2>1, <2>2, <2>3 DEF WritesStayInScope
<1>. QED BY <1>3, <1>4, <1>5, <1>6, <1>7 DEF HooksInv

LEMMA LeavingKeeps ==
  ASSUME HooksInv, OneThread, Leave(Solo)
  PROVE  HooksInv'
<1>. DEFINE f == [Stack[1] EXCEPT !.at = "restoreModules"]
<1>1. /\ Stack # <<>> /\ Stack[1].at = "run" /\ Stack[1].mode = "auto" /\ open' = Stack[1].saved /\ SetTop(Solo, f)
      /\ UNCHANGED <<modules, calls, leaks>>
  BY DEF Leave, InTool, InCall, Top, Stack
<1>2. Stack[1] \in Frame /\ Stack \in Seq(Frame)
  BY <1>1, PoppedFrame DEF HooksInv, HooksTypeOK, OneThread, Stack
<1>3. /\ f \in Frame /\ f.at = "restoreModules" /\ f.saved = Stack[1].saved /\ f.policy = Stack[1].policy
      /\ f.mode = Stack[1].mode /\ f.patched = Stack[1].patched /\ f.restored = Stack[1].restored
  BY <1>2 DEF Frame
<1>. HIDE DEF f
<1>4. /\ Stack' \in Seq(Frame) /\ DOMAIN Stack' = DOMAIN Stack /\ Len(Stack') = Len(Stack)
      /\ DOMAIN Stack = 1..Len(Stack) /\ Len(Stack) \in Nat \ {0} /\ Stack' # <<>>
      /\ Stack'[1] = f /\ (\A i \in DOMAIN Stack : i > 1 => Stack'[i] = Stack[i])
      /\ frames' \in [Thread -> Seq(Frame)]
  BY <1>1, <1>3, ReplacingTop
<1>5. \A i \in DOMAIN Stack : /\ Stack'[i].saved = Stack[i].saved /\ Stack'[i].policy = Stack[i].policy
                              /\ Stack'[i].mode = Stack[i].mode /\ Stack'[i].patched = Stack[i].patched
                              /\ Stack'[i].restored = Stack[i].restored
  BY <1>3, <1>4
<1>6. HooksTypeOK'
  <2>1. open' \in Seq(Policy)
    BY <1>1, <1>2 DEF Frame
  <2>. QED BY <1>1, <1>4, <2>1 DEF HooksInv, HooksTypeOK
<1>7. InnermostMoves'
  <2>1. \A i \in DOMAIN Stack' : i > 1 => Stack'[i].at = "run"
    BY <1>4 DEF HooksInv, InnermostMoves
  <2>2. Stack'[1].mode = "auto" /\ Stack'[1].at = "restoreModules"
    BY <1>1, <1>3, <1>4
  <2>3. \A i \in DOMAIN Stack' : Stack'[i].mode = "off" => Stack'[i].at = "run"
    BY <1>4, <2>1, <2>2
  <2>4. ASSUME NEW i \in DOMAIN Stack', Stack'[i].mode = "off" \/ Stack'[i].at \in {"enter", "patchModules"}
        PROVE Stack'[i].patched = {}
    BY <1>4, <2>1, <2>2, <2>4 DEF HooksInv, InnermostMoves
  <2>. QED BY <2>1, <2>3, <2>4 DEF InnermostMoves
<1>8. ChainedOpens'
  <2>1. open' = Opened(Stack'[1])
    BY <1>1, <1>3, <1>4 DEF Opened
  <2>2. Stack'[Len(Stack')].saved = <<>>
    BY <1>1, <1>4, <1>5 DEF HooksInv, ChainedOpens
  <2>3. ASSUME NEW i \in DOMAIN Stack', i + 1 \in DOMAIN Stack' PROVE Stack'[i].saved = Opened(Stack'[i + 1])
    BY <1>4, <1>5, <2>3 DEF HooksInv, ChainedOpens
  <2>. QED BY <1>4, <2>1, <2>2, <2>3 DEF ChainedOpens
<1>9. SavedGuards'
  BY <1>4, <1>5 DEF HooksInv, SavedGuards
<1>10. HiddenByCalls'
  <2>. HiddenByCalls
    BY DEF HooksInv
  <2>1. ASSUME NEW m \in Module, modules'[m] = "none" PROVE \E i \in DOMAIN Stack' : m \in Stack'[i].patched
    <3>1. PICK i \in DOMAIN Stack : m \in Stack[i].patched
      BY <1>1, <2>1 DEF HiddenByCalls
    <3>. QED BY <1>4, <1>5, <3>1
  <2>2. ASSUME NEW i \in DOMAIN Stack', NEW m \in Stack'[i].patched, Stack'[i].restored[m] = "none"
        PROVE \E j \in DOMAIN Stack' : j > i /\ m \in Stack'[j].patched
    <3>1. m \in Stack[i].patched /\ Stack[i].restored[m] = "none" /\ i \in DOMAIN Stack
      BY <1>4, <1>5, <2>2
    <3>2. PICK j \in DOMAIN Stack : j > i /\ m \in Stack[j].patched
      BY <3>1 DEF HiddenByCalls
    <3>. QED BY <1>4, <1>5, <3>2
  <2>. QED BY <2>1, <2>2 DEF HiddenByCalls
<1>11. WritesStayInScope'
  BY <1>1 DEF HooksInv, WritesStayInScope
<1>. QED BY <1>6, <1>7, <1>8, <1>9, <1>10, <1>11 DEF HooksInv

(* Both ways out of a call take it off the stack: the sandboxed one after  *)
(* its modules are back, the other as it is.                               *)
LEMMA PoppingKeeps ==
  ASSUME HooksInv, OneThread, RestoreModules(Solo) \/ LeaveUnsandboxed(Solo)
  PROVE  HooksInv'
<1>1. /\ Stack # <<>> /\ Pop(Solo) /\ UNCHANGED <<open, calls, leaks>>
      /\ \/ Stack[1].at = "restoreModules"
         \/ Stack[1].mode = "off"
  BY DEF RestoreModules, LeaveUnsandboxed, At, InTool, InCall, Top, Stack
<1>2. /\ Stack \in Seq(Frame) /\ frames \in [Thread -> Seq(Frame)] /\ Solo \in Thread /\ Stack[1] \in Frame
      /\ modules \in [Module -> {"absent", "loaded", "none"}]
  BY <1>1, PoppedFrame DEF HooksInv, HooksTypeOK, OneThread, Stack
<1>3. Stack' = Tail(Stack) /\ frames' = [frames EXCEPT ![Solo] = Tail(Stack)]
  BY <1>1, <1>2 DEF Pop, Stack
<1>4. /\ Stack' \in Seq(Frame) /\ Len(Stack') = Len(Stack) - 1
      /\ \A i \in DOMAIN Stack' : i + 1 \in DOMAIN Stack /\ Stack'[i] = Stack[i + 1]
      /\ \A i \in DOMAIN Stack : i > 1 => i - 1 \in DOMAIN Stack' /\ Stack'[i - 1] = Stack[i]
  BY <1>1, <1>2, <1>3, PoppedFrame
<1>5. DOMAIN Stack = 1..Len(Stack) /\ Len(Stack) \in Nat \ {0} /\ DOMAIN Stack' = 1..(Len(Stack) - 1)
  BY <1>1, <1>2, <1>4
<1>6. modules' = [m \in Module |-> IF m \in Stack[1].patched THEN Stack[1].restored[m] ELSE modules[m]]
  <2>1. CASE RestoreModules(Solo)
    BY <2>1 DEF RestoreModules, Top, Stack
  <2>2. CASE LeaveUnsandboxed(Solo)
    <3>1. Stack[1].patched = {} /\ modules' = modules
      BY <1>5, <2>2 DEF LeaveUnsandboxed, InTool, Top, Stack, HooksInv, InnermostMoves
    <3>. QED BY <1>2, <3>1
  <2>. QED BY <2>1, <2>2
<1>7. open = Stack[1].saved
  <2>1. open = Opened(Stack[1])
    BY <1>1 DEF HooksInv, ChainedOpens
  <2>. QED BY <1>1, <2>1 DEF Opened
<1>8. HooksTypeOK'
  <2>1. modules' \in [Module -> {"absent", "loaded", "none"}]
    BY <1>2, <1>6 DEF Frame
  <2>2. frames' \in [Thread -> Seq(Frame)]
    BY <1>2, <1>3, <1>4
  <2>. QED BY <1>1, <2>1, <2>2 DEF HooksInv, HooksTypeOK
<1>9. InnermostMoves'
  <2>1. InnermostMoves
    BY DEF HooksInv
  <2>. QED BY <1>4, <1>5, <2>1 DEF InnermostMoves
<1>10. ChainedOpens'
  <2>. ChainedOpens
    BY DEF HooksInv
  <2>1. CASE Len(Stack) = 1
    <3>1. Stack' = <<>> /\ DOMAIN Stack' = {}
      BY <1>4, <1>5, <2>1
    <3>2. open' = <<>>
      BY <1>1, <1>7, <2>1 DEF ChainedOpens
    <3>. QED BY <3>1, <3>2 DEF ChainedOpens
  <2>2. CASE Len(Stack) # 1
    <3>1. 1 \in DOMAIN Stack' /\ 2 \in DOMAIN Stack /\ Stack'[1] = Stack[2] /\ Stack' # <<>>
      BY <1>4, <1>5, <2>2
    <3>2. open' = Opened(Stack'[1])
      BY <1>1, <1>5, <1>7, <3>1 DEF ChainedOpens
    <3>3. Stack'[Len(Stack')].saved = <<>>
      <4>1. Len(Stack') \in DOMAIN Stack' /\ Len(Stack') + 1 = Len(Stack)
        BY <1>4, <1>5, <2>2
      <4>. QED BY <1>1, <1>4, <4>1 DEF ChainedOpens
    <3>4. ASSUME NEW i \in DOMAIN Stack', i + 1 \in DOMAIN Stack' PROVE Stack'[i].saved = Opened(Stack'[i + 1])
      <4>1. i + 1 \in DOMAIN Stack /\ i + 1 + 1 \in DOMAIN Stack /\ Stack'[i] = Stack[i + 1] /\ Stack'[i + 1] = Stack[i + 1 + 1]
        BY <1>4, <3>4
      <4>. QED BY <4>1 DEF ChainedOpens
    <3>. QED BY <3>1, <3>2, <3>3, <3>4 DEF ChainedOpens
  <2>. QED BY <2>1, <2>2
<1>11. SavedGuards'
  <2>1. ASSUME NEW i \in DOMAIN Stack', NEW j \in DOMAIN Stack', i < j, Stack'[j].mode = "auto"
        PROVE Shielded(Stack'[i].saved, Stack'[j].policy)
    <3>1. /\ i + 1 \in DOMAIN Stack /\ j + 1 \in DOMAIN Stack /\ i + 1 < j + 1
          /\ Stack'[i] = Stack[i + 1] /\ Stack'[j] = Stack[j + 1]
      BY <1>4, <1>5, <2>1
    <3>. QED BY <2>1, <3>1 DEF HooksInv, SavedGuards
  <2>. QED BY <2>1 DEF SavedGuards
<1>12. HiddenByCalls'
  <2>. HiddenByCalls
    BY DEF HooksInv
  <2>1. ASSUME NEW m \in Module, modules'[m] = "none" PROVE \E i \in DOMAIN Stack' : m \in Stack'[i].patched
    <3>1. PICK i \in DOMAIN Stack : i > 1 /\ m \in Stack[i].patched
      <4>1. CASE m \in Stack[1].patched
        BY <1>5, <1>6, <2>1, <4>1 DEF HiddenByCalls
      <4>2. CASE m \notin Stack[1].patched
        <5>1. PICK i \in DOMAIN Stack : m \in Stack[i].patched
          BY <1>6, <2>1, <4>2 DEF HiddenByCalls
        <5>. QED BY <1>5, <4>2, <5>1
      <4>. QED BY <4>1, <4>2
    <3>. QED BY <1>4, <3>1
  <2>2. ASSUME NEW i \in DOMAIN Stack', NEW m \in Stack'[i].patched, Stack'[i].restored[m] = "none"
        PROVE \E j \in DOMAIN Stack' : j > i /\ m \in Stack'[j].patched
    <3>1. i + 1 \in DOMAIN Stack /\ Stack'[i] = Stack[i + 1]
      BY <1>4
    <3>2. PICK j \in DOMAIN Stack : j > i + 1 /\ m \in Stack[j].patched
      BY <2>2, <3>1 DEF HiddenByCalls
    <3>3. j - 1 \in DOMAIN Stack' /\ j - 1 > i /\ m \in Stack'[j - 1].patched
      BY <1>4, <1>5, <3>2
    <3>. QED BY <3>3
  <2>. QED BY <2>1, <2>2 DEF HiddenByCalls
<1>13. WritesStayInScope'
  BY <1>1 DEF HooksInv, WritesStayInScope
<1>. QED BY <1>8, <1>9, <1>10, <1>11, <1>12, <1>13 DEF HooksInv

LEMMA HooksStepInvariant == OneThread /\ HooksInv /\ [HooksNext]_hookvars => HooksInv'
<1>. SUFFICES ASSUME OneThread, HooksInv, [HooksNext]_hookvars PROVE HooksInv'
  OBVIOUS
<1>1. CASE HooksNext
  <2>1. PICK t \in Thread :
          \/ \E p \in Policies, mode \in Modes : Execute(t, p, mode)
          \/ \E path \in Path : WriteFile(t, path)
          \/ \E m \in Module : ImportModule(t, m)
          \/ HooksStep(t)
    BY <1>1 DEF HooksNext
  <2>2. t = Solo
    BY <2>1 DEF OneThread
  <2>. QED
    BY <2>1, <2>2, EnteringKeeps, PatchingOpenKeeps, PatchingModulesKeeps, ToolKeeps, LeavingKeeps, PoppingKeeps
    DEF HooksStep
<1>2. CASE UNCHANGED hookvars
  <2>1. Stack' = Stack
    BY <1>2 DEF hookvars, Stack
  <2>. QED
    BY <1>2, <2>1 DEF hookvars, HooksInv, HooksTypeOK, InnermostMoves, ChainedOpens, SavedGuards, HiddenByCalls,
                      WritesStayInScope, Opened, Shielded
<1>. QED BY <1>1, <1>2

LEMMA HooksInvariance == ASSUME OneThread PROVE HooksSpec => []HooksInv
<1>1. HooksInit => HooksInv
  BY HooksInitInvariant
<1>2. HooksInv /\ [HooksNext]_hookvars => HooksInv'
  BY HooksStepInvariant
<1>. QED BY <1>1, <1>2, PTL DEF HooksSpec

-----------------------------------------------------------------------------
(* What the process and each governed call keep stays of its kind, at any  *)
(* depth of nesting (sandbox/hooks.py, sandbox/manager.py).                *)
THEOREM HooksTypes == ASSUME OneThread PROVE HooksSpec => []HooksTypeOK
<1>1. HooksInv => HooksTypeOK
  BY DEF HooksInv
<1>. QED BY HooksInvariance, <1>1, PTL

(* However deep tools call tools, and whether a call enforces or not, what *)
(* a tool writes lies in the write scope of every enforcing call it is in. *)
THEOREM NestedWritesStayInScope == ASSUME OneThread PROVE HooksSpec => []WritesStayInScope
<1>1. HooksInv => WritesStayInScope
  BY DEF HooksInv
<1>. QED BY HooksInvariance, <1>1, PTL

(* When the outermost call of the thread is over, builtins.open is Python's*)
(* own and no module is hidden.                                            *)
THEOREM HooksComeDown == ASSUME OneThread PROVE HooksSpec => []HooksOnlyWhileExecuting
<1>1. HooksInv => HooksOnlyWhileExecuting
  <2>. SUFFICES ASSUME HooksInv, \A t \in Thread : ~InCall(t)
                PROVE  open = <<>> /\ \A m \in Module : modules[m] # "none"
    BY DEF HooksOnlyWhileExecuting
  <2>1. Stack = <<>> /\ DOMAIN Stack = {}
    BY DEF OneThread, InCall, Stack
  <2>. QED BY <2>1 DEF HooksInv, ChainedOpens, HiddenByCalls
<1>. QED BY HooksInvariance, <1>1, PTL

-----------------------------------------------------------------------------
(* Imports, where every network module is loaded when the process starts:  *)
(* the code hides only what it finds loaded.                               *)
AllLoaded == Preloaded = Module

Offline(f) == f.mode = "auto" /\ ~f.policy.network

(* Past its entry, an offline call has hidden every module, and what a call*)
(* within it puts back is hidden too.                                      *)
OfflineHides ==
  /\ \A m \in Module : modules[m] # "absent"
  /\ \A i \in DOMAIN Stack : Offline(Stack[i]) /\ Stack[i].at \in {"run", "restoreModules"} =>
       \A m \in Module : modules[m] = "none"
  /\ \A i \in DOMAIN Stack : \A m \in Stack[i].patched : Stack[i].restored[m] # "absent"
  /\ \A i, j \in DOMAIN Stack : i < j /\ Offline(Stack[j]) =>
       \A m \in Stack[i].patched : Stack[i].restored[m] = "none"

ImportInv == OfflineHides /\ OfflineToolsImportNoNetwork

LEMMA ImportInit == AllLoaded /\ OneThread /\ HooksInit => ImportInv
<1>. SUFFICES ASSUME AllLoaded, OneThread, HooksInit PROVE ImportInv
  OBVIOUS
<1>1. Stack = <<>> /\ DOMAIN Stack = {}
  BY DEF HooksInit, OneThread, Stack
<1>. QED BY <1>1 DEF ImportInv, HooksInit, OfflineHides, OfflineToolsImportNoNetwork, AllLoaded

(* The calls around the innermost one are running, in a step of any kind.  *)
LEMMA AroundRuns ==
  ASSUME HooksInv, OneThread
  PROVE  /\ \A i \in DOMAIN Stack : i > 1 => Stack[i].at = "run"
         /\ modules \in [Module -> {"absent", "loaded", "none"}]
         /\ DOMAIN Stack = 1..Len(Stack) /\ Len(Stack) \in Nat /\ Stack \in Seq(Frame)
BY DEF HooksInv, HooksTypeOK, InnermostMoves, OneThread, Stack

LEMMA ImportEntering ==
  ASSUME HooksInv, ImportInv, OneThread, NEW p \in Policies, NEW mode \in Modes, Execute(Solo, p, mode)
  PROVE  ImportInv'
<1>. DEFINE f == [ policy |-> p, mode |-> mode, at |-> IF mode = "off" THEN "run" ELSE "enter",
                   saved |-> open, patched |-> {}, restored |-> modules ]
<1>1. /\ Stack \in Seq(Frame) /\ open \in Seq(Policy) /\ modules \in [Module -> {"absent", "loaded", "none"}]
      /\ frames \in [Thread -> Seq(Frame)] /\ Solo \in Thread
  BY DEF HooksInv, HooksTypeOK, OneThread, Stack
<1>2. f \in Frame /\ (mode = "off" \/ mode = "auto")
  BY <1>1, HooksAssumption DEF Frame
<1>3. f.mode = mode /\ f.at = (IF mode = "off" THEN "run" ELSE "enter") /\ f.patched = {}
  OBVIOUS
<1>4. /\ frames' = [frames EXCEPT ![Solo] = <<f>> \o @] /\ UNCHANGED <<modules, leaks>>
  BY DEF Execute
<1>. HIDE DEF f
<1>5. Stack' = <<f>> \o Stack
  BY <1>1, <1>4 DEF Stack
<1>6. /\ Stack'[1] = f
      /\ \A i \in DOMAIN Stack' : i = 1 \/ (i - 1 \in DOMAIN Stack /\ Stack'[i] = Stack[i - 1])
      /\ DOMAIN Stack' = 1..(Len(Stack) + 1) /\ DOMAIN Stack = 1..Len(Stack) /\ Len(Stack) \in Nat
  BY <1>1, <1>2, <1>5, PushedFrame
<1>. OfflineHides /\ OfflineToolsImportNoNetwork
  BY DEF ImportInv
<1>7. ASSUME NEW i \in DOMAIN Stack', Offline(Stack'[i]), Stack'[i].at \in {"run", "restoreModules"}
      PROVE \A m \in Module : modules'[m] = "none"
  <2>1. i # 1
    BY <1>2, <1>3, <1>6, <1>7 DEF Offline
  <2>. QED BY <1>4, <1>6, <1>7, <2>1 DEF OfflineHides
<1>8. ASSUME NEW i \in DOMAIN Stack', NEW m \in Stack'[i].patched
      PROVE i # 1 /\ Stack'[i].restored[m] # "absent"
  BY <1>3, <1>6, <1>8 DEF OfflineHides
<1>9. ASSUME NEW i \in DOMAIN Stack', NEW j \in DOMAIN Stack', i < j, Offline(Stack'[j]), NEW m \in Stack'[i].patched
      PROVE Stack'[i].restored[m] = "none"
  <2>1. /\ i - 1 \in DOMAIN Stack /\ j - 1 \in DOMAIN Stack /\ i - 1 < j - 1
        /\ Stack'[i] = Stack[i - 1] /\ Stack'[j] = Stack[j - 1]
    BY <1>6, <1>8, <1>9
  <2>. QED BY <1>9, <2>1 DEF OfflineHides
<1>10. OfflineHides'
  <2>1. \A m \in Module : modules'[m] # "absent"
    BY <1>4 DEF OfflineHides
  <2>. QED BY <1>7, <1>8, <1>9, <2>1 DEF OfflineHides
<1>. QED BY <1>4, <1>10 DEF ImportInv, OfflineToolsImportNoNetwork

LEMMA ImportPatchingOpen ==
  ASSUME HooksInv, ImportInv, OneThread, PatchOpen(Solo) \/ Leave(Solo)
  PROVE  ImportInv'
<1>. DEFINE f == [Stack[1] EXCEPT !.at = IF Stack[1].at = "enter" THEN "patchModules" ELSE "restoreModules"]
<1>1. /\ Stack # <<>> /\ Stack[1].at \in {"enter", "run"} /\ SetTop(Solo, f) /\ UNCHANGED <<modules, leaks>>
  BY DEF PatchOpen, Leave, At, InCall, InTool, Top, Stack
<1>2. Stack[1] \in Frame /\ Stack \in Seq(Frame)
  BY <1>1, PoppedFrame DEF HooksInv, HooksTypeOK, OneThread, Stack
<1>3. /\ f \in Frame /\ f.policy = Stack[1].policy /\ f.mode = Stack[1].mode
      /\ f.patched = Stack[1].patched /\ f.restored = Stack[1].restored
      /\ f.at \in {"run", "restoreModules"} => Stack[1].at = "run"
  BY <1>1, <1>2 DEF Frame
<1>. HIDE DEF f
<1>4. /\ DOMAIN Stack' = DOMAIN Stack /\ DOMAIN Stack = 1..Len(Stack) /\ Len(Stack) \in Nat \ {0}
      /\ Stack'[1] = f /\ (\A i \in DOMAIN Stack : i > 1 => Stack'[i] = Stack[i])
  BY <1>1, <1>3, ReplacingTop
<1>5. \A i \in DOMAIN Stack : /\ Stack'[i].policy = Stack[i].policy /\ Stack'[i].mode = Stack[i].mode
                              /\ Stack'[i].patched = Stack[i].patched /\ Stack'[i].restored = Stack[i].restored
                              /\ Stack'[i].at \in {"run", "restoreModules"} => Stack[i].at \in {"run", "restoreModules"}
  BY <1>3, <1>4
<1>6. \A i \in DOMAIN Stack : Offline(Stack'[i]) = Offline(Stack[i])
  BY <1>5 DEF Offline
<1>. OfflineHides /\ OfflineToolsImportNoNetwork
  BY DEF ImportInv
<1>7. OfflineHides'
  <2>1. \A m \in Module : modules'[m] # "absent"
    BY <1>1 DEF OfflineHides
  <2>2. ASSUME NEW i \in DOMAIN Stack', Offline(Stack'[i]), Stack'[i].at \in {"run", "restoreModules"}
        PROVE \A m \in Module : modules'[m] = "none"
    BY <1>1, <1>4, <1>5, <1>6, <2>2 DEF OfflineHides
  <2>3. ASSUME NEW i \in DOMAIN Stack', NEW m \in Stack'[i].patched PROVE Stack'[i].restored[m] # "absent"
    BY <1>4, <1>5, <2>3 DEF OfflineHides
  <2>4. ASSUME NEW i \in DOMAIN Stack', NEW j \in DOMAIN Stack', i < j, Offline(Stack'[j]), NEW m \in Stack'[i].patched
        PROVE Stack'[i].restored[m] = "none"
    BY <1>4, <1>5, <1>6, <2>4 DEF OfflineHides
  <2>. QED BY <2>1, <2>2, <2>3, <2>4 DEF OfflineHides
<1>. QED BY <1>1, <1>7 DEF ImportInv, OfflineToolsImportNoNetwork

LEMMA ImportPatchingModules ==
  ASSUME HooksInv, ImportInv, OneThread, PatchModules(Solo)
  PROVE  ImportInv'
<1>. DEFINE hidden == IF Stack[1].policy.network THEN {} ELSE {m \in Module : modules[m] # "absent"}
            f == [Stack[1] EXCEPT !.at = "run", !.patched = hidden, !.restored = modules]
<1>1. /\ Stack # <<>> /\ Stack[1].at = "patchModules" /\ SetTop(Solo, f)
      /\ modules' = [m \in Module |-> IF m \in hidden THEN "none" ELSE modules[m]] /\ UNCHANGED leaks
  BY DEF PatchModules, At, InCall, Top, Stack
<1>2. Stack[1] \in Frame /\ Stack \in Seq(Frame) /\ modules \in [Module -> {"absent", "loaded", "none"}]
  BY <1>1, PoppedFrame DEF HooksInv, HooksTypeOK, OneThread, Stack
<1>. OfflineHides /\ OfflineToolsImportNoNetwork
  BY DEF ImportInv
<1>3. hidden \subseteq Module /\ (~Stack[1].policy.network => hidden = Module)
  BY DEF OfflineHides
<1>. HIDE DEF hidden
<1>4. /\ f \in Frame /\ f.policy = Stack[1].policy /\ f.mode = Stack[1].mode /\ f.patched = hidden /\ f.restored = modules
  BY <1>2, <1>3 DEF Frame
<1>. HIDE DEF f
<1>5. /\ DOMAIN Stack' = DOMAIN Stack /\ DOMAIN Stack = 1..Len(Stack) /\ Len(Stack) \in Nat \ {0}
      /\ Stack'[1] = f /\ (\A i \in DOMAIN Stack : i > 1 => Stack'[i] = Stack[i])
  BY <1>1, <1>4, ReplacingTop
<1>6. \A i \in DOMAIN Stack : i > 1 => Stack[i].at = "run"
  BY AroundRuns
<1>7. ASSUME NEW i \in DOMAIN Stack', Offline(Stack'[i]) PROVE \A m \in Module : modules'[m] = "none"
  <2>1. CASE i = 1
    BY <1>1, <1>3, <1>4, <1>5, <1>7, <2>1 DEF Offline
  <2>2. CASE i # 1
    <3>1. \A m \in Module : modules[m] = "none"
      BY <1>5, <1>6, <1>7, <2>2 DEF OfflineHides
    <3>. QED BY <1>1, <3>1
  <2>. QED BY <2>1, <2>2
<1>8. ASSUME NEW i \in DOMAIN Stack', NEW m \in Stack'[i].patched PROVE Stack'[i].restored[m] # "absent"
  BY <1>3, <1>4, <1>5, <1>8 DEF OfflineHides
<1>9. ASSUME NEW i \in DOMAIN Stack', NEW j \in DOMAIN Stack', i < j, Offline(Stack'[j]), NEW m \in Stack'[i].patched
      PROVE Stack'[i].restored[m] = "none"
  <2>1. Stack'[j] = Stack[j] /\ j > 1
    BY <1>5, <1>9
  <2>2. CASE i = 1
    <3>1. \A n \in Module : modules[n] = "none"
      BY <1>5, <1>6, <1>9, <2>1 DEF OfflineHides
    <3>. QED BY <1>3, <1>4, <1>5, <1>9, <2>2, <3>1
  <2>3. CASE i # 1
    BY <1>5, <1>9, <2>1, <2>3 DEF OfflineHides
  <2>. QED BY <2>2, <2>3
<1>10. OfflineHides'
  <2>1. \A m \in Module : modules'[m] # "absent"
    BY <1>1 DEF OfflineHides
  <2>. QED BY <1>7, <1>8, <1>9, <2>1 DEF OfflineHides
<1>. QED BY <1>1, <1>10 DEF ImportInv, OfflineToolsImportNoNetwork

LEMMA ImportTool ==
  ASSUME HooksInv, ImportInv, OneThread, (\E path \in Path : WriteFile(Solo, path)) \/ (\E m \in Module : ImportModule(Solo, m))
  PROVE  ImportInv'
<1>1. /\ Stack # <<>> /\ Stack[1].at = "run" /\ Stack' = Stack /\ modules \in [Module -> {"absent", "loaded", "none"}]
  BY DEF WriteFile, ImportModule, InTool, InCall, Top, Stack, HooksInv, HooksTypeOK
<1>. OfflineHides /\ OfflineToolsImportNoNetwork
  BY DEF ImportInv
<1>2. ASSUME NEW path \in Path, WriteFile(Solo, path) PROVE ImportInv'
  <2>1. modules' = modules /\ leaks' \subseteq leaks \cup {[thread |-> Solo, kind |-> "write"]}
    BY <1>2 DEF WriteFile
  <2>2. OfflineHides'
    BY <1>1, <2>1 DEF OfflineHides
  <2>. QED BY <2>1, <2>2 DEF ImportInv, OfflineToolsImportNoNetwork
<1>3. ASSUME NEW n \in Module, ImportModule(Solo, n) PROVE ImportInv'
  <2>1. modules[n] # "none" /\ modules' = [modules EXCEPT ![n] = "loaded"]
    BY <1>3 DEF ImportModule
  <2>2. \A i \in DOMAIN Stack : ~Offline(Stack[i])
    <3>1. \A i \in DOMAIN Stack : Stack[i].at = "run"
      BY <1>1, AroundRuns
    <3>. QED BY <2>1, <3>1 DEF OfflineHides
  <2>3. leaks' = leaks
    <3>1. \A p \in Enforced(Solo) : p.network
      BY <2>2 DEF Enforced, Offline, Stack
    <3>. QED BY <1>3, <3>1 DEF ImportModule
  <2>4. OfflineHides'
    BY <1>1, <2>1, <2>2 DEF OfflineHides
  <2>. QED BY <2>3, <2>4 DEF ImportInv, OfflineToolsImportNoNetwork
<1>. QED BY <1>2, <1>3

LEMMA ImportPopping ==
  ASSUME HooksInv, ImportInv, OneThread, RestoreModules(Solo) \/ LeaveUnsandboxed(Solo)
  PROVE  ImportInv'
<1>1. Stack # <<>> /\ Pop(Solo) /\ UNCHANGED leaks
  BY DEF RestoreModules, LeaveUnsandboxed, At, InTool, InCall, Stack
<1>2. /\ Stack \in Seq(Frame) /\ frames \in [Thread -> Seq(Frame)] /\ Solo \in Thread /\ Stack[1] \in Frame
      /\ modules \in [Module -> {"absent", "loaded", "none"}]
  BY <1>1, PoppedFrame DEF HooksInv, HooksTypeOK, OneThread, Stack
<1>3. Stack' = Tail(Stack)
  BY <1>1, <1>2 DEF Pop, Stack
<1>4. /\ Len(Stack) \in Nat \ {0} /\ DOMAIN Stack = 1..Len(Stack) /\ DOMAIN Stack' = 1..(Len(Stack) - 1)
      /\ \A i \in DOMAIN Stack' : i + 1 \in DOMAIN Stack /\ Stack'[i] = Stack[i + 1]
  BY <1>1, <1>2, <1>3, PoppedFrame
<1>5. modules' = [m \in Module |-> IF m \in Stack[1].patched THEN Stack[1].restored[m] ELSE modules[m]]
  <2>1. CASE RestoreModules(Solo)
    BY <2>1 DEF RestoreModules, Top, Stack
  <2>2. CASE LeaveUnsandboxed(Solo)
    <3>1. Stack[1].patched = {} /\ modules' = modules
      BY <1>4, <2>2 DEF LeaveUnsandboxed, InTool, Top, Stack, HooksInv, InnermostMoves
    <3>. QED BY <1>2, <3>1
  <2>. QED BY <2>1, <2>2
<1>. OfflineHides /\ OfflineToolsImportNoNetwork
  BY DEF ImportInv
<1>6. ASSUME NEW i \in DOMAIN Stack', Offline(Stack'[i]) PROVE \A m \in Module : modules'[m] = "none"
  <2>1. i + 1 \in DOMAIN Stack /\ i + 1 > 1 /\ 1 \in DOMAIN Stack /\ Offline(Stack[i + 1]) /\ Stack[i + 1].at = "run"
    BY <1>4, <1>6, AroundRuns
  <2>2. \A m \in Stack[1].patched : Stack[1].restored[m] = "none"
    BY <2>1 DEF OfflineHides
  <2>3. \A m \in Module : modules[m] = "none"
    BY <2>1 DEF OfflineHides
  <2>. QED BY <1>5, <2>2, <2>3
<1>7. OfflineHides'
  <2>1. \A m \in Module : modules'[m] # "absent"
    BY <1>4, <1>5 DEF OfflineHides
  <2>2. ASSUME NEW i \in DOMAIN Stack', NEW m \in Stack'[i].patched PROVE Stack'[i].restored[m] # "absent"
    BY <1>4, <2>2 DEF OfflineHides
  <2>3. ASSUME NEW i \in DOMAIN Stack', NEW j \in DOMAIN Stack', i < j, Offline(Stack'[j]), NEW m \in Stack'[i].patched
        PROVE Stack'[i].restored[m] = "none"
    <3>1. /\ i + 1 \in DOMAIN Stack /\ j + 1 \in DOMAIN Stack /\ i + 1 < j + 1
          /\ Stack'[i] = Stack[i + 1] /\ Stack'[j] = Stack[j + 1]
      BY <1>4, <2>3
    <3>. QED BY <2>3, <3>1 DEF OfflineHides
  <2>. QED BY <1>6, <2>1, <2>2, <2>3 DEF OfflineHides
<1>. QED BY <1>1, <1>7 DEF ImportInv, OfflineToolsImportNoNetwork

LEMMA ImportStep == OneThread /\ HooksInv /\ ImportInv /\ [HooksNext]_hookvars => ImportInv'
<1>. SUFFICES ASSUME OneThread, HooksInv, ImportInv, [HooksNext]_hookvars PROVE ImportInv'
  OBVIOUS
<1>1. CASE HooksNext
  <2>1. PICK t \in Thread :
          \/ \E p \in Policies, mode \in Modes : Execute(t, p, mode)
          \/ \E path \in Path : WriteFile(t, path)
          \/ \E m \in Module : ImportModule(t, m)
          \/ HooksStep(t)
    BY <1>1 DEF HooksNext
  <2>2. t = Solo
    BY <2>1 DEF OneThread
  <2>. QED
    BY <2>1, <2>2, ImportEntering, ImportPatchingOpen, ImportPatchingModules, ImportTool, ImportPopping DEF HooksStep
<1>2. CASE UNCHANGED hookvars
  <2>1. Stack' = Stack
    BY <1>2 DEF hookvars, Stack
  <2>. QED BY <1>2, <2>1 DEF hookvars, ImportInv, OfflineHides, OfflineToolsImportNoNetwork
<1>. QED BY <1>1, <1>2

(* No tool gets a network module by an import inside an offline call, at   *)
(* any depth, if all of them are loaded when the process starts.           *)
THEOREM NestedImportsStayOffline ==
  ASSUME OneThread, AllLoaded PROVE HooksSpec => []OfflineToolsImportNoNetwork
<1>1. HooksInit => HooksInv /\ ImportInv
  BY HooksInitInvariant, ImportInit
<1>2. HooksInv /\ ImportInv /\ [HooksNext]_hookvars => (HooksInv /\ ImportInv)'
  BY HooksStepInvariant, ImportStep
<1>3. ImportInv => OfflineToolsImportNoNetwork
  BY DEF ImportInv
<1>. QED BY <1>1, <1>2, <1>3, PTL DEF HooksSpec

(* hooks.py: in one thread whose network modules are loaded, every policy  *)
(* around a tool holds for what it writes and what it imports.             *)
THEOREM NestedScopesHold ==
  ASSUME OneThread, AllLoaded PROVE HooksSpec => []ScopesHold
BY HooksTypes, NestedWritesStayInScope, NestedImportsStayOffline, PTL DEF ScopesHold

-----------------------------------------------------------------------------
(* SdkPatching                                                             *)

(* Sequences of layers                                                     *)

LEMMA PushType ==
  ASSUME NEW l \in Layer, NEW s \in Seq(Layer)
  PROVE  /\ <<l>> \o s \in Seq(Layer)
         /\ <<l>> \o s # <<>>
         /\ Len(<<l>> \o s) = Len(s) + 1
         /\ (<<l>> \o s)[1] = l
         /\ \A i \in 1..Len(s) : (<<l>> \o s)[i + 1] = s[i]
OBVIOUS

(* A wrap_llm layer adds no patch.                                         *)
LEMMA WrapAddsNoPatch ==
  ASSUME NEW l \in Layer, l.kind = "wrap", NEW s \in Seq(Layer), AtMostOnePatch(s)
  PROVE  AtMostOnePatch(<<l>> \o s)
<1> DEFINE t == <<l>> \o s
<1>1. t \in Seq(Layer) /\ Len(t) = Len(s) + 1 /\ t[1] = l /\ \A i \in 1..Len(s) : t[i + 1] = s[i]
      BY PushType
<1>2. DOMAIN t = 1..(Len(s) + 1) /\ DOMAIN s = 1..Len(s) /\ Len(s) \in Nat
      BY <1>1
<1> HIDE DEF t
<1>3. SUFFICES ASSUME NEW i \in DOMAIN t, NEW j \in DOMAIN t,
                      t[i].kind = "patch", t[j].kind = "patch"
               PROVE  i = j
      BY DEF AtMostOnePatch, t
<1>4. i # 1 /\ j # 1
      BY <1>1, <1>3
<1>5. i - 1 \in 1..Len(s) /\ j - 1 \in 1..Len(s)
      BY <1>2, <1>3, <1>4
<1>6. t[i] = s[i - 1] /\ t[j] = s[j - 1]
  <2>1. t[(i - 1) + 1] = s[i - 1] /\ t[(j - 1) + 1] = s[j - 1]
        BY <1>1, <1>5
  <2>2. (i - 1) + 1 = i /\ (j - 1) + 1 = j
        BY <1>2, <1>3
  <2>3. QED BY <2>1, <2>2
<1>7. i - 1 = j - 1
      BY <1>2, <1>3, <1>5, <1>6 DEF AtMostOnePatch
<1>8. QED BY <1>2, <1>3, <1>7

(* One layer holds one patch at most.                                      *)
LEMMA OneLayerOnePatch ==
  ASSUME NEW s \in Seq(Layer), Len(s) <= 1
  PROVE  AtMostOnePatch(s)
BY DEF AtMostOnePatch

(* What a call on a client enters is a path, and, for an SDK whose patch   *)
(* is guarded, has one patch at most.                                      *)
LEMMA ResolveType ==
  ASSUME TypeOK, GuardedOnce, NEW c \in Client
  PROVE  /\ Resolve(c) \in Seq(Layer)
         /\ ProviderOf[c] \in Guarded => AtMostOnePatch(Resolve(c))
<1>1. ProviderOf[c] \in Provider
      BY PatchingAssumption
<1>2. function[ProviderOf[c]] \in Seq(Layer) /\ method[c] \in Seq(Layer)
      BY <1>1 DEF TypeOK
<1>3. ProviderOf[c] \in Guarded => AtMostOnePatch(function[ProviderOf[c]])
      BY <1>2, OneLayerOnePatch DEF GuardedOnce
<1>4. QED BY <1>2, <1>3 DEF Resolve, GuardedOnce

(* What is left of the path of a call that enters a layer is a path.       *)
LEMMA InnerType ==
  ASSUME NEW s \in Seq(Layer), s # <<>>
  PROVE  Tail(s) \in Seq(Layer) /\ Head(s) \in Layer
OBVIOUS

-----------------------------------------------------------------------------
(* Switching                                                               *)

LEMMA AutoPatchStep ==
  ASSUME IInv, NEW S \in SUBSET Provider, NEW mode \in Mode, AutoPatch(S, mode)
  PROVE  IInv'
<1> DEFINE l == [kind |-> "patch", mode |-> mode]
           D == DOMAIN originals \cup {q \in S : NeedsPatch(q)}
<1>0. l \in Layer /\ TypeOK /\ OriginalsAreOwn /\ UnpatchedIsOriginal /\ GuardedOnce
      BY DEF Layer, IInv
<1>1. /\ \A p \in Provider : function[p] \in Seq(Layer)
      /\ DOMAIN originals \subseteq Provider
      /\ \A p \in DOMAIN originals : originals[p] = <<>>
      BY <1>0 DEF TypeOK, OriginalsAreOwn
<1>2. \A p \in Provider :
        function'[p] = IF p \in S /\ NeedsPatch(p) THEN <<l>> \o function[p] ELSE function[p]
      BY DEF AutoPatch
<1>3. \A p \in Provider : function'[p] \in Seq(Layer)
  <2>1. SUFFICES ASSUME NEW p \in Provider PROVE function'[p] \in Seq(Layer)
        OBVIOUS
  <2> HIDE DEF l
  <2>2. function[p] \in Seq(Layer) /\ <<l>> \o function[p] \in Seq(Layer)
        BY <1>0, <1>1, PushType
  <2>3. QED BY <1>2, <2>2
<1>4. \A p \in D : originals'[p] = <<>>
  <2>1. SUFFICES ASSUME NEW p \in D PROVE originals'[p] = <<>>
        OBVIOUS
  <2>2. originals'[p] = IF p \in S /\ NeedsPatch(p) THEN StoreOriginal(p) ELSE originals[p]
        BY <2>1 DEF AutoPatch
  <2>3. CASE p \in DOMAIN originals
        BY <2>2, <2>3, <1>1 DEF StoreOriginal
  <2>4. CASE p \notin DOMAIN originals
        BY <2>1, <2>2, <2>4, <1>0 DEF StoreOriginal, OriginalsAreOwn
  <2>5. QED BY <2>3, <2>4
<1>5. TypeOK'
  <2>1. function' \in [Provider -> Seq(Layer)]
        BY <1>3 DEF AutoPatch
  <2>2. DOMAIN originals' = D /\ D \in SUBSET Provider
        BY <1>1 DEF AutoPatch
  <2>3. originals' \in [D -> Seq(Layer)]
    <3>1. originals' = [p \in D |-> originals'[p]]
          BY DEF AutoPatch
    <3>2. <<>> \in Seq(Layer)
          OBVIOUS
    <3>3. QED BY <3>1, <3>2, <1>4
  <2>4. applied' \in SUBSET Provider
        BY <1>0 DEF AutoPatch, TypeOK
  <2>5. QED BY <2>1, <2>2, <2>3, <2>4, <1>0 DEF AutoPatch, TypeOK
<1>6. OriginalsAreOwn' /\ UnpatchedIsOriginal'
  <2>1. DOMAIN originals' = D
        BY DEF AutoPatch
  <2>2. \A p \in Provider \ D : function'[p] = <<>>
        BY <1>0, <1>2 DEF OriginalsAreOwn
  <2>3. \A p \in Provider \ applied' : function'[p] = <<>>
        BY <1>0, <1>2 DEF AutoPatch, UnpatchedIsOriginal
  <2>4. QED BY <1>4, <2>1, <2>2, <2>3 DEF OriginalsAreOwn, UnpatchedIsOriginal
<1>7. GuardedOnce'
  <2>1. \A p \in Guarded : Len(function'[p]) <= 1
    <3>1. SUFFICES ASSUME NEW p \in Guarded PROVE Len(function'[p]) <= 1
          OBVIOUS
    <3>2. p \in Provider
          BY PatchingAssumption
    <3>3. CASE p \in S /\ NeedsPatch(p)
      <4>1. function[p] = <<>> BY <3>3 DEF NeedsPatch, Patched
      <4>2. Len(<<l>> \o <<>>) = 1 BY <1>0, PushType
      <4>3. function'[p] = <<l>> \o <<>> BY <4>1, <3>2, <3>3, <1>2
      <4> HIDE DEF l
      <4>4. QED BY <4>2, <4>3
    <3>4. CASE ~(p \in S /\ NeedsPatch(p))
          BY <3>2, <3>4, <1>0, <1>2 DEF GuardedOnce
    <3>5. QED BY <3>3, <3>4
  <2>2. QED BY <2>1, <1>0 DEF AutoPatch, GuardedOnce
<1>8. CallsInOrder'
      BY DEF AutoPatch, IInv, CallsInOrder
<1>9. QED BY <1>5, <1>6, <1>7, <1>8 DEF IInv

LEMMA UnpatchAllStep ==
  ASSUME IInv, UnpatchAll
  PROVE  IInv'
<1>1. TypeOK /\ OriginalsAreOwn /\ GuardedOnce /\ CallsInOrder
      BY DEF IInv
<1>2. \A p \in Provider : function'[p] = <<>>
      BY <1>1 DEF UnpatchAll, OriginalsAreOwn
<1>3. TypeOK'
  <2>1. function' = [p \in Provider |-> function'[p]]
        BY DEF UnpatchAll
  <2>2. <<>> \in Seq(Layer)
        OBVIOUS
  <2>3. function' \in [Provider -> Seq(Layer)]
        BY <1>2, <2>1, <2>2
  <2>4. QED BY <2>3, <1>1 DEF UnpatchAll, TypeOK
<1>4. OriginalsAreOwn' /\ UnpatchedIsOriginal'
      BY <1>1, <1>2 DEF UnpatchAll, OriginalsAreOwn, UnpatchedIsOriginal
<1>5. GuardedOnce'
  <2>1. \A p \in Guarded : Len(function'[p]) <= 1
        BY <1>2, PatchingAssumption
  <2>2. QED BY <2>1, <1>1 DEF UnpatchAll, GuardedOnce
<1>6. CallsInOrder'
      BY <1>1 DEF UnpatchAll, CallsInOrder
<1>7. QED BY <1>3, <1>4, <1>5, <1>6 DEF IInv

LEMMA SwitchStep ==
  ASSUME IInv, DisableAutoPatch \/ EnableAutoPatch
  PROVE  IInv'
BY DEF DisableAutoPatch, EnableAutoPatch, IInv, TypeOK, OriginalsAreOwn,
       UnpatchedIsOriginal, GuardedOnce, CallsInOrder

LEMMA WrapLLMStep ==
  ASSUME IInv, NEW c \in Client, NEW mode \in Mode, WrapLLM(c, mode)
  PROVE  IInv'
<1> DEFINE l == [kind |-> "wrap", mode |-> mode]
           path == <<l>> \o Resolve(c)
<1>1. TypeOK /\ OriginalsAreOwn /\ UnpatchedIsOriginal /\ GuardedOnce /\ CallsInOrder
      BY DEF IInv
<1>2. l \in Layer /\ l.kind = "wrap"
      BY DEF Layer
<1>3. Resolve(c) \in Seq(Layer) /\ (ProviderOf[c] \in Guarded => AtMostOnePatch(Resolve(c)))
      BY <1>1, ResolveType
<1>4. path \in Seq(Layer)
      BY <1>2, <1>3, PushType
<1>5. ProviderOf[c] \in Guarded => AtMostOnePatch(path)
      BY <1>2, <1>3, WrapAddsNoPatch
<1>6. method' = [method EXCEPT ![c] = path] /\ UNCHANGED <<function, originals, applied, enabled, call>>
      BY DEF WrapLLM
<1> HIDE DEF path
<1>7. TypeOK'
      BY <1>1, <1>4, <1>6 DEF TypeOK
<1>8. GuardedOnce'
  <2>1. ASSUME NEW d \in Client, ProviderOf[d] \in Guarded PROVE AtMostOnePatch(method'[d])
    <3>1. method'[d] = IF d = c THEN path ELSE method[d]
          BY <1>1, <1>6 DEF TypeOK
    <3>2. CASE d = c
      <4>1. method'[d] = path BY <3>1, <3>2
      <4>2. AtMostOnePatch(path) BY <3>2, <2>1, <1>5
      <4>3. QED BY <4>1, <4>2
    <3>3. CASE d # c
      <4>1. method'[d] = method[d] BY <3>1, <3>3
      <4>2. AtMostOnePatch(method[d]) BY <2>1, <1>1 DEF GuardedOnce
      <4>3. QED BY <4>1, <4>2
    <3>4. QED BY <3>2, <3>3
  <2>2. \A p \in Guarded : Len(function'[p]) <= 1
        BY <1>1, <1>6 DEF GuardedOnce
  <2>3. QED BY <2>1, <2>2 DEF GuardedOnce
<1>9. OriginalsAreOwn' /\ UnpatchedIsOriginal' /\ CallsInOrder'
      BY <1>1, <1>6 DEF OriginalsAreOwn, UnpatchedIsOriginal, CallsInOrder
<1>10. QED BY <1>7, <1>8, <1>9 DEF IInv

-----------------------------------------------------------------------------
(* Calling.  A step of a call changes that call alone.                     *)

(* What CallsInOrder says of one call.                                     *)
InOrder(r) ==
  /\ r.pc \in {"idle", "out"} => ~r.failed /\ ~r.reached
  /\ r.failed => r.pc = "refused" /\ ~r.reached
  /\ r.scoped /\ r.seen => r.text = "processed"

LEMMA CallStep ==
  ASSUME IInv, NEW k \in Caller, NEW r \in CallRecord, InOrder(r), Update(k, r),
         UNCHANGED <<function, method, originals, applied, enabled>>
  PROVE  IInv'
<1>1. TypeOK /\ OriginalsAreOwn /\ UnpatchedIsOriginal /\ GuardedOnce /\ CallsInOrder
      BY DEF IInv
<1>2. \A j \in Caller : call'[j] = IF j = k THEN r ELSE call[j]
      BY <1>1 DEF Update, TypeOK
<1>3. call' \in [Caller -> CallRecord]
      BY <1>1 DEF Update, TypeOK
<1>4. TypeOK'
      BY <1>1, <1>3 DEF TypeOK
<1>5. CallsInOrder'
  <2>1. ASSUME NEW j \in Caller PROVE InOrder(call'[j])
    <3>1. CASE j = k
          BY <1>2, <3>1
    <3>2. CASE j # k
          BY <1>1, <1>2, <3>2 DEF CallsInOrder, InOrder
    <3>3. QED BY <3>1, <3>2
  <2>2. QED BY <2>1 DEF CallsInOrder, InOrder
<1>6. OriginalsAreOwn' /\ UnpatchedIsOriginal' /\ GuardedOnce'
      BY <1>1 DEF OriginalsAreOwn, UnpatchedIsOriginal, GuardedOnce
<1>7. QED BY <1>4, <1>5, <1>6 DEF IInv

LEMMA StartCallStep ==
  ASSUME IInv, NEW k \in Caller, NEW c \in Client, NEW stream \in BOOLEAN, NEW seen \in BOOLEAN,
         StartCall(k, c, stream, seen)
  PROVE  IInv'
<1> DEFINE r == [Idle EXCEPT !.pc = "out", !.path = Resolve(c), !.stream = stream, !.seen = seen]
<1>1. Resolve(c) \in Seq(Layer)
      BY ResolveType DEF IInv
<1>2. r \in CallRecord /\ InOrder(r)
      BY <1>1 DEF Idle, CallRecord, InOrder
<1>3. QED BY <1>2, CallStep DEF StartCall

(* Entering a layer leaves the rest of the path and says nothing else of   *)
(* the call.                                                               *)
LEMMA EnteringType ==
  ASSUME IInv, NEW k \in Caller, NEW kind, Entering(k, kind)
  PROVE  /\ Inner(k) \in CallRecord /\ InOrder(Inner(k)) /\ Inner(k).pc = "out"
         /\ ~Inner(k).failed /\ ~Inner(k).reached
         /\ Head(call[k].path) \in Layer
<1>1. call[k] \in CallRecord /\ InOrder(call[k])
      BY DEF IInv, TypeOK, CallsInOrder, InOrder
<1>2. call[k].pc = "out" /\ call[k].path # <<>> /\ call[k].path \in Seq(Layer)
      BY <1>1 DEF Entering, CallRecord
<1>3. Tail(call[k].path) \in Seq(Layer) /\ Head(call[k].path) \in Layer
      BY <1>2, InnerType
<1>4. Inner(k) = [call[k] EXCEPT !.path = Tail(call[k].path)]
      BY DEF Inner
<1>5. Inner(k) \in CallRecord
      BY <1>1, <1>3, <1>4 DEF CallRecord
<1>6. QED BY <1>1, <1>2, <1>3, <1>4, <1>5 DEF InOrder, CallRecord

(* A call that is refused on its way has not been sent.                    *)
LEMMA RefusedType ==
  ASSUME NEW r \in CallRecord, InOrder(r), ~r.reached
  PROVE  Refused(r) \in CallRecord /\ InOrder(Refused(r))
BY DEF Refused, CallRecord, InOrder

LEMMA EnterPatchStep ==
  ASSUME IInv, NEW k \in Caller, EnterPatch(k)
  PROVE  IInv'
<1> DEFINE mode == Head(call[k].path).mode
           inside == [Inner(k) EXCEPT !.guarded = TRUE, !.patched = TRUE,
                                      !.text = CoercePatched(@, mode)]
<1>1. Entering(k, "patch") /\ UNCHANGED <<function, method, originals, applied, enabled>>
      BY DEF EnterPatch
<1>2. /\ Inner(k) \in CallRecord /\ InOrder(Inner(k)) /\ Inner(k).pc = "out"
      /\ ~Inner(k).failed /\ ~Inner(k).reached
      BY <1>1, EnteringType
<1>3. inside \in CallRecord /\ InOrder(inside)
      BY <1>2 DEF CoercePatched, CallRecord, InOrder
<1>4. Refused(Inner(k)) \in CallRecord /\ InOrder(Refused(Inner(k)))
      BY <1>2, RefusedType
<1>5. Update(k, Inner(k)) \/ Update(k, inside) \/ Update(k, Refused(Inner(k)))
      BY DEF EnterPatch
<1> HIDE DEF inside
<1>6. QED BY <1>1, <1>2, <1>3, <1>4, <1>5, CallStep

LEMMA EnterWrapStep ==
  ASSUME IInv, NEW k \in Caller, EnterWrap(k)
  PROVE  IInv'
<1> DEFINE mode == Head(call[k].path).mode
           inside == [Inner(k) EXCEPT !.guarded = @ \/ mode # "off", !.scoped = @ \/ mode # "off",
                                      !.wrapped = TRUE, !.text = IF call[k].seen THEN Coerce(@, mode) ELSE @]
<1>1. Entering(k, "wrap") /\ UNCHANGED <<function, method, originals, applied, enabled>>
      BY DEF EnterWrap
<1>2. /\ Inner(k) \in CallRecord /\ InOrder(Inner(k)) /\ Inner(k).pc = "out"
      /\ ~Inner(k).failed /\ ~Inner(k).reached
      BY <1>1, EnteringType
<1>3. inside \in CallRecord /\ InOrder(inside)
  <2>1. Inner(k).seen = call[k].seen
        BY <1>2 DEF Inner, CallRecord
  <2>2. QED BY <1>2, <2>1 DEF Coerce, CallRecord, InOrder
<1>4. Refused(Inner(k)) \in CallRecord /\ InOrder(Refused(Inner(k)))
      BY <1>2, RefusedType
<1>5. Update(k, inside) \/ Update(k, Refused(Inner(k)))
      BY DEF EnterWrap
<1> HIDE DEF inside
<1>6. QED BY <1>1, <1>3, <1>4, <1>5, CallStep

(* The steps of a call that has left the layers behind.                    *)
LEMMA TransportStep ==
  ASSUME IInv, NEW k \in Caller,
         Send(k) \/ Answer(k) \/ TransportError(k) \/ StreamEnds(k) \/ StreamBreaks(k)
  PROVE  IInv'
<1>1. call[k] \in CallRecord /\ InOrder(call[k])
      BY DEF IInv, TypeOK, CallsInOrder, InOrder
<1>2. CASE Send(k)
  <2> DEFINE r == [call[k] EXCEPT !.pc = "sent", !.reached = TRUE]
  <2>1. r \in CallRecord /\ InOrder(r)
        BY <1>1, <1>2 DEF Send, CallRecord, InOrder
  <2>2. QED BY <1>2, <2>1, CallStep DEF Send
<1>3. CASE ~Send(k)
  <2>1. /\ UNCHANGED <<function, method, originals, applied, enabled>>
        /\ call[k].pc \in {"sent", "streaming"}
        BY <1>3 DEF Answer, TransportError, StreamEnds, StreamBreaks
  <2>2. PICK q \in {"streaming", "answered", "refused", "transport"} :
          Update(k, [call[k] EXCEPT !.pc = q])
        BY <1>3 DEF Answer, TransportError, StreamEnds, StreamBreaks
  <2> DEFINE r == [call[k] EXCEPT !.pc = q]
  <2>3. r \in CallRecord /\ InOrder(r)
        BY <1>1, <2>1 DEF CallRecord, InOrder
  <2>4. QED BY <2>1, <2>2, <2>3, CallStep
<1>4. QED BY <1>2, <1>3

-----------------------------------------------------------------------------
LEMMA PatchingInit ==
  ASSUME Init
  PROVE  IInv
<1>1. <<>> \in Seq(Layer) /\ AtMostOnePatch(<<>>)
      BY DEF AtMostOnePatch
<1>2. Idle \in CallRecord /\ InOrder(Idle)
      BY <1>1 DEF Idle, CallRecord, InOrder
<1>3. TypeOK
  <2>1. originals \in [{} -> Seq(Layer)]
        BY DEF Init
  <2>2. QED BY <1>1, <1>2, <2>1 DEF Init, TypeOK
<1>4. OriginalsAreOwn /\ UnpatchedIsOriginal
      BY DEF Init, OriginalsAreOwn, UnpatchedIsOriginal
<1>5. GuardedOnce
  <2>1. \A p \in Guarded : Len(function[p]) <= 1
        BY PatchingAssumption DEF Init
  <2>2. QED BY <1>1, <2>1 DEF Init, GuardedOnce
<1>6. CallsInOrder
      BY <1>2 DEF Init, CallsInOrder, InOrder
<1>7. QED BY <1>3, <1>4, <1>5, <1>6 DEF IInv

LEMMA PatchingStep ==
  ASSUME IInv, [Next]_vars
  PROVE  IInv'
<1>1. CASE Switch
      BY <1>1, AutoPatchStep, UnpatchAllStep, SwitchStep, WrapLLMStep DEF Switch
<1>2. ASSUME NEW k \in Caller, Step(k) PROVE IInv'
      BY <1>2, StartCallStep, EnterPatchStep, EnterWrapStep, TransportStep DEF Step
<1>3. CASE UNCHANGED vars
      BY <1>3 DEF vars, IInv, TypeOK, OriginalsAreOwn, UnpatchedIsOriginal, GuardedOnce, CallsInOrder
<1>4. QED BY <1>1, <1>2, <1>3 DEF Next

THEOREM PatchingInvariance == Spec => []IInv
<1>1. Init => IInv
      BY PatchingInit
<1>2. IInv /\ [Next]_vars => IInv'
      BY PatchingStep
<1>3. QED BY <1>1, <1>2, PTL DEF Spec

(* Every state is typed, for any SDKs, clients, callers and bound.         *)
THEOREM PatchingTypes == Spec => []TypeOK
<1>1. IInv => TypeOK
      BY DEF IInv
<1>2. QED BY <1>1, PatchingInvariance, PTL

(* _unpatch_all and _store_original: an SDK that is not listed as patched  *)
(* has its own function, whatever patching and unpatching came before.     *)
THEOREM OriginalsComeBack == Spec => []UnpatchedIsOriginal
<1>1. IInv => UnpatchedIsOriginal
      BY DEF IInv
<1>2. QED BY <1>1, PatchingInvariance, PTL

(* _asha_patched: no call meets two patches of a guarded SDK.              *)
THEOREM GuardedPatchOnce == Spec => []PatchedOnce
<1>1. IInv => PatchedOnce
      BY ResolveType DEF IInv, PatchedOnce
<1>2. QED BY <1>1, PatchingInvariance, PTL

(* ASHAProcessingError: what failed in process() never reaches a provider. *)
THEOREM FailuresStayIn == Spec => []FailedIsNotSent
<1>1. IInv => FailedIsNotSent
      BY DEF IInv, CallsInOrder, FailedIsNotSent
<1>2. QED BY <1>1, PatchingInvariance, PTL

(* wrap_llm: a call through a processing layer that sees its prompt        *)
(* arrives processed, whatever other layers it crosses and however         *)
(* patching is switched meanwhile.                                         *)
THEOREM WrappedCallsAreProcessed == Spec => []ScopedCallsSendProcessed
<1>1. IInv => ScopedCallsSendProcessed
      BY DEF IInv, CallsInOrder, ScopedCallsSendProcessed
<1>2. QED BY <1>1, PatchingInvariance, PTL

(* auto_patch.py: an SDK that is not patched is the original, and one whose *)
(* patch is guarded carries it once.                                       *)
THEOREM PatchesAreUndone == Spec => []PatchesComeOff
BY PatchingTypes, OriginalsComeBack, GuardedPatchOnce, PTL DEF PatchesComeOff

(* llm_wrap.py: what failed is not sent, and a prompt that a processing     *)
(* wrapper looks for is sent processed.                                    *)
THEOREM WrappersProcess == Spec => []WrappersSendProcessed
BY FailuresStayIn, WrappedCallsAreProcessed, PTL DEF WrappersSendProcessed
=============================================================================
