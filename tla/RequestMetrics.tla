----------------------------- MODULE RequestMetrics -----------------------------
(***************************************************************************)
(* The process-wide dashboard (core/metrics_dashboard.py), written by      *)
(* threads at the end of their calls (utils/metrics_hook.py) without a     *)
(* lock: an event is appended in one step, its counter is read and written *)
(* back in two.  The queue keeps the newest MaxEvents events.              *)
(***************************************************************************)
EXTENDS Integers, Sequences, SequencesExt, FiniteSets

CONSTANTS
  Recorder,   \* threads
  MaxEvents,  \* max_events
  Threats,    \* how many threats a request may have had blocked
  MaxRequests \* bound: requests recorded

ASSUME DashboardAssumption ==
  IsFiniteSet(Recorder) /\ MaxEvents \in Nat /\ Threats \subseteq Nat /\ MaxRequests \in Nat

Kind == {"request", "success", "error", "latency", "threat_blocked"}

VARIABLES
  events,   \* the kinds in the queue, oldest first
  counters,
  pending,  \* per thread: the kinds it has yet to record
  read,     \* per thread: the counter it read and has not written back, or -1
  given,    \* per kind: events recorded in all
  dropped,  \* has the queue let any go?
  requests

mdvars == <<events, counters, pending, read, given, dropped, requests>>

MdInit ==
  /\ events = <<>> /\ counters = [k \in Kind |-> 0]
  /\ pending = [r \in Recorder |-> <<>>] /\ read = [r \in Recorder |-> -1]
  /\ given = [k \in Kind |-> 0] /\ dropped = FALSE /\ requests = 0

(* A mutant: the failure's branch lost its else.                           *)
BothOutcomes(success, threats) ==
  <<"request">> \o (IF success THEN <<"success">> ELSE <<>>) \o <<"error", "latency">> \o [i \in 1..threats |-> "threat_blocked"]

(* record_request, from record_process_metrics.  A call that timed out or  *)
(* was refused does not get here.                                          *)
EventsOf(success, threats) ==
  <<"request", IF success THEN "success" ELSE "error", "latency">> \o [i \in 1..threats |-> "threat_blocked"]

RecordRequest(r) ==
  /\ pending[r] = <<>> /\ requests < MaxRequests
  /\ \E success \in BOOLEAN, threats \in Threats : pending' = [pending EXCEPT ![r] = EventsOf(success, threats)]
  /\ requests' = requests + 1
  /\ UNCHANGED <<events, counters, read, given, dropped>>

(* record_event: append, and let the oldest go ...                         *)
AppendEvent(r) ==
  /\ pending[r] # <<>> /\ read[r] = -1
  /\ LET k == Head(pending[r])
         all == Append(events, k)
     IN /\ events' = IF Len(all) > MaxEvents THEN Tail(all) ELSE all
        /\ dropped' = (dropped \/ Len(all) > MaxEvents)
        /\ given' = [given EXCEPT ![k] = @ + 1]
        /\ read' = [read EXCEPT ![r] = counters[k]]
  /\ UNCHANGED <<counters, pending, requests>>

(* ... and add to the counter what was read.                               *)
WriteBack(r) ==
  /\ read[r] # -1
  /\ counters' = [counters EXCEPT ![Head(pending[r])] = read[r] + 1]
  /\ pending' = [pending EXCEPT ![r] = Tail(@)]
  /\ read' = [read EXCEPT ![r] = -1]
  /\ UNCHANGED <<events, given, dropped, requests>>

MdNext ==
  \E r \in Recorder : RecordRequest(r) \/ AppendEvent(r) \/ WriteBack(r)

MdSpec == MdInit /\ [][MdNext]_mdvars

-----------------------------------------------------------------------------
(* get_usage_stats over a window: the events from the n-th on.             *)
UsageStats(n) ==
  LET in(k) == Cardinality({i \in n..Len(events) : events[i] = k})
  IN [ total |-> in("request"), successful |-> in("success"),
       failed |-> in("request") - in("success"), errors |-> in("error") ]

MdTypeOK ==
  /\ Len(events) <= MaxEvents
  /\ counters \in [Kind -> Nat] /\ given \in [Kind -> Nat]
  /\ \A r \in Recorder : read[r] \in Nat \cup {-1}

(* Two threads that add to one counter at a time may lose additions, and   *)
(* so the counters of an export may be below what was recorded; they are   *)
(* never above it.                                                         *)
CountersNeverOverstate == \A k \in Kind : counters[k] <= given[k]

(* The statistics of any window are off by at most one request a thread    *)
(* in either direction: an outcome whose request is outside the window or  *)
(* has been dropped, a request whose outcome is not recorded yet.  (So the *)
(* failed requests may be -1 and the success rate above 1.)                *)
StatsOffByThreads ==
  \A n \in DOMAIN events :
    LET s == UsageStats(n)
        gap == s.total - (s.successful + s.errors)
    IN -Cardinality(Recorder) <= gap /\ gap <= Cardinality(Recorder)

(* With nothing dropped and nobody recording, the failures of the session  *)
(* are the errors recorded.                                                *)
QuietStatsAreExact ==
  ~dropped /\ (\A r \in Recorder : pending[r] = <<>>) => UsageStats(1).failed = UsageStats(1).errors

(* How far the dashboard can be trusted.                                   *)
StatsAreSound == MdTypeOK /\ CountersNeverOverstate /\ StatsOffByThreads /\ QuietStatsAreExact
=============================================================================
