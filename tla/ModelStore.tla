------------------------------- MODULE ModelStore -------------------------------
(***************************************************************************)
(* Downloading the detectors' models on first use (core/ml/model_store.py).*)
(* Threads of one process ask for one of several directories; at most one  *)
(* of them copies at a time, file by file, and any step may fail.  The     *)
(* process may die and be started again: the directories stay as they are. *)
(***************************************************************************)
EXTENDS FiniteSets, Naturals

CONSTANTS
  Asker,    \* threads
  Dir,      \* directories they ask for
  Model,    \* the files of the release
  Probe,    \* those by which a directory is told to be populated
  Nobody,
  MaxAsked,    \* bound: calls of one process
  MaxRestarts  \* bound: restarts

ASSUME StoreAssumption == Probe \subseteq Model /\ Probe # {} /\ Dir # {} /\ Nobody \notin Asker

VARIABLES
  whole,     \* per directory: the files copied to their end
  torn,      \* per directory: the files begun and not finished
  marked,    \* the directories with a marker
  attempted, \* _download_attempted, of the process
  downloads, \* downloads begun by this process
  disabled, localZip,
  holder,    \* who has the lock
  at,        \* per thread: idle, waiting, entered, copying, marking, returned
  target, from,
  left,      \* per thread: the files still to copy
  filling,   \* per thread: the one being filled
  told,      \* per thread: what the last call found
  entered, restarts

storevars == <<whole, torn, marked, attempted, downloads, disabled, localZip, holder, at, target, from, left, filling, told, entered, restarts>>
files == <<whole, torn, marked>>

Populated(d) == d \in marked \/ (whole[d] \cup torn[d]) \cap Probe # {}

StoreInit ==
  /\ whole = [d \in Dir |-> {}] /\ torn = [d \in Dir |-> {}] /\ marked = {}
  /\ attempted = FALSE /\ downloads = 0
  /\ disabled \in BOOLEAN /\ localZip \in BOOLEAN
  /\ holder = Nobody
  /\ at = [t \in Asker |-> "idle"] /\ target = [t \in Asker |-> CHOOSE d \in Dir : TRUE]
  /\ from = [t \in Asker |-> "download"] /\ left = [t \in Asker |-> {}] /\ filling = [t \in Asker |-> {}]
  /\ told = [t \in Asker |-> "nothing"]
  /\ entered = 0 /\ restarts = 0

(* ensure_models: the first look is without the lock.                      *)
Ensure(t, d) ==
  /\ at[t] = "idle" /\ entered < MaxAsked
  /\ entered' = entered + 1
  /\ target' = [target EXCEPT ![t] = d]
  /\ IF Populated(d)
     THEN at' = [at EXCEPT ![t] = "returned"] /\ told' = [told EXCEPT ![t] = "ready"]
     ELSE at' = [at EXCEPT ![t] = "waiting"] /\ UNCHANGED told
  /\ UNCHANGED <<files, attempted, downloads, disabled, localZip, holder, from, left, restarts, filling>>

Enter(t) ==
  /\ at[t] = "waiting" /\ holder = Nobody
  /\ holder' = t
  /\ at' = [at EXCEPT ![t] = "entered"]
  /\ UNCHANGED <<files, attempted, downloads, disabled, localZip, target, from, left, told, entered, restarts, filling>>

LeaveWith(t, found) ==
  /\ holder' = Nobody
  /\ at' = [at EXCEPT ![t] = "returned"]
  /\ told' = [told EXCEPT ![t] = found]

Copying(t, source) ==
  /\ from' = [from EXCEPT ![t] = source]
  /\ left' = [left EXCEPT ![t] = Model]
  /\ at' = [at EXCEPT ![t] = "copying"]

(* What failed falls back to a local archive once; if that is the one that *)
(* failed, or there is none, the caller goes on without models.            *)
Fails(t) ==
  IF from[t] = "download" /\ localZip
  THEN Copying(t, "zip") /\ UNCHANGED <<holder, told>>
  ELSE LeaveWith(t, "missing") /\ UNCHANGED <<from, left>>

(* The second look, under the lock.                                        *)
LookAgain(t) ==
  LET d == target[t] IN
  /\ at[t] = "entered"
  /\ \/ Populated(d) /\ LeaveWith(t, "ready") /\ UNCHANGED <<attempted, downloads, from, left>>
     \/ ~Populated(d) /\ (disabled \/ attempted) /\ LeaveWith(t, "missing")
        /\ UNCHANGED <<attempted, downloads, from, left>>
     \/ ~Populated(d) /\ ~disabled /\ ~attempted
        /\ attempted' = TRUE /\ downloads' = downloads + 1
        /\ Copying(t, "download") /\ UNCHANGED <<holder, told>>
  /\ UNCHANGED <<files, disabled, localZip, target, entered, restarts, filling>>

(* A mutant: a failed copy of a populated directory is marked as well.     *)
MarksFailures(t) ==
  /\ at[t] = "copying"
  /\ marked' = marked \cup {d \in {target[t]} : Populated(d)} /\ LeaveWith(t, "missing")
  /\ filling' = [filling EXCEPT ![t] = {}]
  /\ UNCHANGED <<whole, torn, attempted, downloads, disabled, localZip, target, from, left, entered, restarts>>

(* The request, the unpacking, or one file's copy fails.                   *)
StepFails(t) ==
  /\ at[t] = "copying"
  /\ Fails(t)
  /\ filling' = [filling EXCEPT ![t] = {}]
  /\ UNCHANGED <<files, attempted, downloads, disabled, localZip, target, entered, restarts>>

(* _merge_tree: one file, opened for writing and then filled.              *)
BeginFile(t) ==
  /\ at[t] = "copying" /\ filling[t] = {}
  /\ \E f \in left[t] :
       /\ torn' = [torn EXCEPT ![target[t]] = @ \cup {f}]
       /\ whole' = [whole EXCEPT ![target[t]] = @ \ {f}]
       /\ filling' = [filling EXCEPT ![t] = {f}]
  /\ UNCHANGED <<marked, attempted, downloads, disabled, localZip, holder, at, target, from, left, told, entered, restarts>>

EndFile(t) ==
  /\ at[t] = "copying" /\ filling[t] # {}
  /\ torn' = [torn EXCEPT ![target[t]] = @ \ filling[t]]
  /\ whole' = [whole EXCEPT ![target[t]] = @ \cup filling[t]]
  /\ left' = [left EXCEPT ![t] = @ \ filling[t]]
  /\ filling' = [filling EXCEPT ![t] = {}]
  /\ UNCHANGED <<marked, attempted, downloads, disabled, localZip, holder, at, target, from, told, entered, restarts>>

Copied(t) ==
  /\ at[t] = "copying" /\ left[t] = {}
  /\ at' = [at EXCEPT ![t] = "marking"]
  /\ UNCHANGED <<files, attempted, downloads, disabled, localZip, holder, target, from, left, told, entered, restarts, filling>>

(* A mutant: the lock is kept where the marker cannot be written.          *)
MarkKeepsLock(t) ==
  /\ at[t] = "marking"
  /\ \/ marked' = marked \cup {target[t]} /\ LeaveWith(t, "ready")
     \/ at' = [at EXCEPT ![t] = "returned"] /\ told' = [told EXCEPT ![t] = "raised"] /\ UNCHANGED <<marked, holder>>
  /\ UNCHANGED <<whole, torn, attempted, downloads, disabled, localZip, target, from, left, entered, restarts, filling>>

(* The marker is written last; that may fail too, and the call raises.     *)
Mark(t) ==
  /\ at[t] = "marking"
  /\ \/ marked' = marked \cup {target[t]} /\ LeaveWith(t, "ready")
     \/ UNCHANGED marked /\ LeaveWith(t, "raised")
  /\ UNCHANGED <<whole, torn, attempted, downloads, disabled, localZip, target, from, left, entered, restarts, filling>>

Reply(t) ==
  /\ at[t] = "returned"
  /\ at' = [at EXCEPT ![t] = "idle"]
  /\ UNCHANGED <<files, attempted, downloads, disabled, localZip, holder, target, from, left, told, entered, restarts, filling>>

(* The process dies, in the middle of a file perhaps, and is started again.*)
Restart ==
  /\ restarts < MaxRestarts
  /\ restarts' = restarts + 1
  /\ attempted' = FALSE /\ downloads' = 0 /\ holder' = Nobody /\ entered' = 0
  /\ at' = [t \in Asker |-> "idle"] /\ told' = [t \in Asker |-> "nothing"] /\ left' = [t \in Asker |-> {}] /\ filling' = [t \in Asker |-> {}]
  /\ from' = [t \in Asker |-> "download"]
  /\ disabled' \in BOOLEAN /\ localZip' \in BOOLEAN
  /\ UNCHANGED <<files, target>>

StoreStep(t) ==
  Enter(t) \/ LookAgain(t) \/ StepFails(t) \/ BeginFile(t) \/ EndFile(t) \/ Copied(t) \/ Mark(t) \/ Reply(t)

StoreNext == Restart \/ \E t \in Asker : StoreStep(t) \/ \E d \in Dir : Ensure(t, d)

StoreSpec == StoreInit /\ [][StoreNext]_storevars

-----------------------------------------------------------------------------
StoreTypeOK ==
  /\ whole \in [Dir -> SUBSET Model] /\ torn \in [Dir -> SUBSET Model] /\ marked \subseteq Dir
  /\ attempted \in BOOLEAN /\ disabled \in BOOLEAN /\ downloads \in Nat
  /\ holder \in Asker \cup {Nobody}
  /\ at \in [Asker -> {"idle", "waiting", "entered", "copying", "marking", "returned"}]
  /\ target \in [Asker -> Dir] /\ left \in [Asker -> SUBSET Model] /\ filling \in [Asker -> SUBSET Model]
  /\ told \in [Asker -> {"nothing", "ready", "missing", "raised"}]

(* "Safe to call from hot paths (locked, once)" (model_store.py:160): a    *)
(* process downloads at most once, whatever its threads ask for and        *)
(* whichever attempt fails, and only where downloads are not disabled.     *)
DownloadedOnce == downloads <= 1 /\ (downloads = 1 => attempted /\ ~disabled)

(* A directory that has the marker has every file of the release, to its   *)
(* end: no copy that stopped midway, no restart and no second source of    *)
(* the files leaves a marker on less.  (A directory without it is taken to *)
(* be populated as soon as one probe file has been begun.)                 *)
MarkerMeansWhole == \A d \in marked : whole[d] = Model /\ torn[d] = {}

(* What is fetched is fetched once, and is whole where it is said to be.   *)
StoreIsSound == StoreTypeOK /\ DownloadedOnce /\ MarkerMeansWhole

(* Every call of ensure_models comes back: whoever has the lock gives it   *)
(* up, for every wait has a timeout and every failure is caught.           *)
EveryAskReturns == \A t \in Asker : at[t] # "idle" ~> at[t] = "idle"
=============================================================================
