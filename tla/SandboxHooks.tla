---------------------------- MODULE SandboxHooks ----------------------------
(***************************************************************************)
(* SandboxManager.execute and the hooks it installs (runtime/anchor/       *)
(* sandbox/).  builtins.open and sys.modules belong to the process; every  *)
(* governed call patches them on entry and restores on exit what it found  *)
(* on entry.  Calls nest in a thread (a tool that calls a tool) and        *)
(* overlap between threads, which may belong to different runtimes.        *)
(*                                                                         *)
(* builtins.open is the chain of guards a call of open() goes through,     *)
(* newest first; the empty chain is Python's own open.  A guard is known   *)
(* by the policy it closes over.  Hard isolation, which installs no hooks  *)
(* in this process, is left out.                                           *)
(***************************************************************************)
EXTENDS Naturals, Sequences

CONSTANTS
  Thread,
  Module,      \* SandboxPolicy.blocked_modules
  Preloaded,   \* those that are in sys.modules when the process starts
  Path,        \* the paths tools write, up to the prefix they match
  Policies,    \* the policies missions give: allow_network, allowed_write_paths
  Modes,       \* isolation modes in use
  MaxDepth,    \* BOUND: calls nested in one thread
  MaxCalls     \* BOUND: governed calls overall

Policy == [network : BOOLEAN, writePaths : SUBSET Path]

ASSUME HooksAssumption ==
  /\ Preloaded \subseteq Module
  /\ Policies \subseteq Policy
  /\ Modes \subseteq {"off", "auto"}
  /\ MaxDepth \in Nat /\ MaxCalls \in Nat

VARIABLES
  open,     \* builtins.open
  modules,  \* sys.modules restricted to Module: "absent", "loaded" or "none"
  frames,   \* the governed calls each thread is in, innermost first
  calls,    \* governed calls so far
  leaks     \* history: what a tool did that a policy around it forbids

hookvars == <<open, modules, frames, calls, leaks>>

(* original_open and patched_modules are the call's own variables.         *)
Frame ==
  [ policy   : Policy,
    mode     : Modes,
    at       : {"enter", "patchModules", "run", "restoreModules"},
    saved    : Seq(Policy),
    patched  : SUBSET Module,
    restored : [Module -> {"absent", "loaded", "none"}] ]

Leak == [thread : Thread, kind : {"write", "network"}]

HooksTypeOK ==
  /\ open \in Seq(Policy)
  /\ modules \in [Module -> {"absent", "loaded", "none"}]
  /\ frames \in [Thread -> Seq(Frame)]
  /\ calls \in 0..MaxCalls
  /\ leaks \in SUBSET Leak

HooksInit ==
  /\ open = <<>>
  /\ modules = [m \in Module |-> IF m \in Preloaded THEN "loaded" ELSE "absent"]
  /\ frames = [t \in Thread |-> <<>>]
  /\ calls = 0 /\ leaks = {}

Top(t)      == frames[t][1]
InCall(t)   == frames[t] # <<>>
At(t, where) == InCall(t) /\ Top(t).at = where
InTool(t)  == InCall(t) /\ Top(t).at = "run"
SetTop(t, f) == frames' = [frames EXCEPT ![t] = <<f>> \o Tail(@)]
Pop(t)      == frames' = [frames EXCEPT ![t] = Tail(@)]

(* The enforcing calls a thread is inside of.                              *)
Enforced(t) == {frames[t][i].policy : i \in {j \in DOMAIN frames[t] : frames[t][j].mode = "auto"}}

-----------------------------------------------------------------------------
(* SandboxManager.execute is entered by an idle thread or by the tool that *)
(* is running.  With mode "off" the tool runs at once.  enforcement_hooks  *)
(* begins with original_open = builtins.open.                              *)
Execute(t, p, mode) ==
  /\ ~InCall(t) \/ InTool(t)
  /\ Len(frames[t]) < MaxDepth /\ calls < MaxCalls
  /\ frames' = [frames EXCEPT ![t] =
       <<[ policy |-> p, mode |-> mode, at |-> IF mode = "off" THEN "run" ELSE "enter",
           saved |-> open, patched |-> {}, restored |-> modules ]>> \o @]
  /\ calls' = calls + 1
  /\ UNCHANGED <<open, modules, leaks>>

(* For mutation: the guard replaces builtins.open instead of wrapping it.  *)
PatchOpenUnchained(t) ==
  /\ At(t, "enter")
  /\ open' = <<Top(t).policy>>
  /\ SetTop(t, [Top(t) EXCEPT !.at = "patchModules"])
  /\ UNCHANGED <<modules, calls, leaks>>

PatchOpen(t) ==
  /\ At(t, "enter")
  /\ open' = <<Top(t).policy>> \o Top(t).saved
  /\ SetTop(t, [Top(t) EXCEPT !.at = "patchModules"])
  /\ UNCHANGED <<modules, calls, leaks>>

(* Only the modules sys.modules has a key for are hidden, those that an    *)
(* enclosing or concurrent call has set to None among them.                *)
PatchModules(t) ==
  LET hidden == IF Top(t).policy.network THEN {} ELSE {m \in Module : modules[m] # "absent"}
  IN  /\ At(t, "patchModules")
      /\ modules' = [m \in Module |-> IF m \in hidden THEN "none" ELSE modules[m]]
      /\ SetTop(t, [Top(t) EXCEPT !.at = "run", !.patched = hidden, !.restored = modules])
      /\ UNCHANGED <<open, calls, leaks>>

-----------------------------------------------------------------------------
(* What a running tool does.                                               *)

(* open(path, "w"): every guard of the chain must let it pass.             *)
WriteFile(t, path) ==
  /\ InTool(t)
  /\ \A i \in DOMAIN open : path \in open[i].writePaths
  /\ leaks' = IF \A p \in Enforced(t) : path \in p.writePaths THEN leaks
              ELSE leaks \cup {[thread |-> t, kind |-> "write"]}
  /\ UNCHANGED <<open, modules, frames, calls>>

(* import m: None in sys.modules refuses it, a missing key loads it.       *)
ImportModule(t, m) ==
  /\ InTool(t) /\ modules[m] # "none"
  /\ modules' = [modules EXCEPT ![m] = "loaded"]
  /\ leaks' = IF \A p \in Enforced(t) : p.network THEN leaks
              ELSE leaks \cup {[thread |-> t, kind |-> "network"]}
  /\ UNCHANGED <<open, frames, calls>>

-----------------------------------------------------------------------------
(* For mutation: a tool that raises skips the restore.                     *)
LeaveWithoutRestore(t) ==
  /\ InTool(t) /\ Top(t).mode = "auto"
  /\ Pop(t)
  /\ UNCHANGED <<open, modules, calls, leaks>>

(* The tool returns or raises; "finally" puts back the open that was found *)
(* on entry, then the modules that were hidden.                            *)
Leave(t) ==
  /\ InTool(t) /\ Top(t).mode = "auto"
  /\ open' = Top(t).saved
  /\ SetTop(t, [Top(t) EXCEPT !.at = "restoreModules"])
  /\ UNCHANGED <<modules, calls, leaks>>

RestoreModules(t) ==
  /\ At(t, "restoreModules")
  /\ modules' = [m \in Module |-> IF m \in Top(t).patched THEN Top(t).restored[m] ELSE modules[m]]
  /\ Pop(t)
  /\ UNCHANGED <<open, calls, leaks>>

LeaveUnsandboxed(t) ==
  /\ InTool(t) /\ Top(t).mode = "off"
  /\ Pop(t)
  /\ UNCHANGED <<open, modules, calls, leaks>>

HooksStep(t) == PatchOpen(t) \/ PatchModules(t) \/ Leave(t) \/ RestoreModules(t) \/ LeaveUnsandboxed(t)

HooksNext ==
  \E t \in Thread :
    \/ \E p \in Policies, mode \in Modes : Execute(t, p, mode)
    \/ \E path \in Path : WriteFile(t, path)
    \/ \E m \in Module : ImportModule(t, m)
    \/ HooksStep(t)

HooksSpec == HooksInit /\ [][HooksNext]_hookvars

-----------------------------------------------------------------------------
(* hooks.py: the builtins are patched "while a governed tool executes":    *)
(* when no governed call is left, the process has its own open and every   *)
(* module back.                                                            *)
HooksOnlyWhileExecuting ==
  (\A t \in Thread : ~InCall(t)) => open = <<>> /\ \A m \in Module : modules[m] # "none"

(* What a tool writes lies in the write scope of every sandboxed call it   *)
(* runs in, however deep tools call tools.                                 *)
WritesStayInScope == \A l \in leaks : l.kind # "write"

(* docs/anchor.md: "auto" means "guarded open(), blocked network modules". *)
(* No tool gets a network module from an import inside an offline call.    *)
OfflineToolsImportNoNetwork == \A l \in leaks : l.kind # "network"

(* Every scope around a tool holds for it.                                 *)
ScopesHold == HooksTypeOK /\ WritesStayInScope /\ OfflineToolsImportNoNetwork
=============================================================================
