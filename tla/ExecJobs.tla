------------------------------ MODULE ExecJobs -----------------------------
(***************************************************************************)
(* One command on many hosts: the page that runs it (Run.tsx), the jobs    *)
(* the window keeps (store.ts, runExec and the events exec and exec_done)  *)
(* and the core that runs them (api/exec.go, api/hub.go).  Results reach   *)
(* the window as events only, over a WebSocket that may be down.           *)
(***************************************************************************)
EXTENDS Naturals, Sequences

CONSTANTS
  Job,          \* ids of jobs, made by the window
  ExecHost,     \* the hosts of each job
  NoJob,
  MaxQueue      \* the places of a subscriber's channel (256 in the hub)

\* What the constants must satisfy: startExec refuses a job without hosts.
ExecAssumption == ExecHost # {} /\ NoJob \notin Job /\ MaxQueue \in Nat

VARIABLES
  jobReq,       \* each job's request: "none", "posted", "accepted", "refused"
  progress,     \* in the core, the state of each job's hosts; "none" without a job
  finished,     \* jobs whose exec_done the core published
  wireUp,       \* the window's WebSocket is connected
  wire,         \* events on their way to the window
  jobs,         \* the jobs of the window: results and whether they are done
  lastJob,      \* the job the page shows
  missed        \* jobs with an event the window never got

execVars == <<jobReq, progress, finished, wireUp, wire, jobs, lastJob, missed>>

State == {"none", "waiting", "running", "done", "error"}
Final == {"done", "error"}
ExecEvent == [job: Job, host: ExecHost, state: {"running", "done", "error"}]
DoneEvent == [job: Job, state: {"exec_done"}]
FreshJob == [results |-> [h \in ExecHost |-> "none"], done |-> FALSE]

ExecTypeOK ==
  /\ jobReq \in [Job -> {"none", "posted", "accepted", "refused"}]
  /\ progress \in [Job -> [ExecHost -> State]]
  /\ finished \subseteq Job
  /\ wireUp \in BOOLEAN
  /\ wire \in Seq(ExecEvent \cup DoneEvent) /\ Len(wire) <= MaxQueue
  /\ jobs \in [Job -> [results: [ExecHost -> State], done: BOOLEAN]]
  /\ lastJob \in Job \cup {NoJob}
  /\ missed \subseteq Job

ExecInit ==
  /\ jobReq = [j \in Job |-> "none"]
  /\ progress = [j \in Job |-> [h \in ExecHost |-> "none"]]
  /\ finished = {}
  /\ wireUp = TRUE /\ wire = <<>>
  /\ jobs = [j \in Job |-> FreshJob] /\ lastJob = NoJob
  /\ missed = {}

Started(j) == progress[j] # [h \in ExecHost |-> "none"]

-----------------------------------------------------------------------------
(* The core. *)

\* Mutated form of Publish: a full channel is not looked at.
PublishUncapped(e) ==
  IF wireUp
  THEN wire' = Append(wire, e) /\ UNCHANGED missed
  ELSE missed' = missed \cup {e.job} /\ UNCHANGED wire

\* Hub.Publish: a full channel loses the event, a window that is away never sees it.
Publish(e) ==
  IF wireUp /\ Len(wire) < MaxQueue
  THEN wire' = Append(wire, e) /\ UNCHANGED missed
  ELSE missed' = missed \cup {e.job} /\ UNCHANGED wire

\* startExec: the request is good, a goroutine for each host waits for one of 16 places.
StartExec(j) ==
  /\ jobReq[j] = "posted" /\ ~Started(j)
  /\ progress' = [progress EXCEPT ![j] = [h \in ExecHost |-> "waiting"]]
  /\ UNCHANGED <<jobReq, finished, wireUp, wire, jobs, lastJob, missed>>

HostRuns(j, h) ==
  /\ progress[j][h] = "waiting"
  /\ progress' = [progress EXCEPT ![j][h] = "running"]
  /\ Publish([job |-> j, host |-> h, state |-> "running"])
  /\ UNCHANGED <<jobReq, finished, wireUp, jobs, lastJob>>

\* The command ends, times out or is cancelled (cancelExec).
HostEnds(j, h) ==
  /\ progress[j][h] = "running"
  /\ \E s \in Final :
       /\ progress' = [progress EXCEPT ![j][h] = s]
       /\ Publish([job |-> j, host |-> h, state |-> s])
  /\ UNCHANGED <<jobReq, finished, wireUp, jobs, lastJob>>

\* Mutated form of JobFinishes: after the first host.
JobFinishesEarly(j) ==
  /\ j \notin finished /\ \E h \in ExecHost : progress[j][h] \in Final
  /\ finished' = finished \cup {j}
  /\ Publish([job |-> j, state |-> "exec_done"])
  /\ UNCHANGED <<jobReq, progress, wireUp, jobs, lastJob>>

\* wg.Wait() returns.
JobFinishes(j) ==
  /\ j \notin finished /\ \A h \in ExecHost : progress[j][h] \in Final
  /\ finished' = finished \cup {j}
  /\ Publish([job |-> j, state |-> "exec_done"])
  /\ UNCHANGED <<jobReq, progress, wireUp, jobs, lastJob>>

-----------------------------------------------------------------------------
(* The window. *)

Running == lastJob # NoJob /\ ~jobs[lastJob].done

\* runExec: "Run", which "Cancel" replaces while the last job runs, or Ctrl+Enter, which
\* does not look.
RunExec(j) ==
  /\ jobReq[j] = "none"
  /\ jobReq' = [jobReq EXCEPT ![j] = "posted"]
  /\ jobs' = [jobs EXCEPT ![j] = FreshJob] /\ lastJob' = j
  /\ UNCHANGED <<progress, finished, wireUp, wire, missed>>

Accepted(j) ==
  /\ jobReq[j] = "posted" /\ Started(j)
  /\ jobReq' = [jobReq EXCEPT ![j] = "accepted"]
  /\ UNCHANGED <<progress, finished, wireUp, wire, jobs, lastJob, missed>>

\* The core refuses, or its answer does not arrive; what events brought is dropped.
ExecRefused(j) ==
  /\ jobReq[j] = "posted"
  /\ jobReq' = [jobReq EXCEPT ![j] = "refused"]
  /\ jobs' = [jobs EXCEPT ![j] = [FreshJob EXCEPT !.done = TRUE]]
  /\ UNCHANGED <<progress, finished, wireUp, wire, lastJob, missed>>

\* onEvent: exec and exec_done, of jobs this window started.
OnExecEvent ==
  /\ wire # <<>>
  /\ wire' = Tail(wire)
  /\ LET e == Head(wire) IN
       jobs' = IF e.state = "exec_done"
               THEN [jobs EXCEPT ![e.job].done = TRUE]
               ELSE [jobs EXCEPT ![e.job].results[e.host] = e.state]
  /\ UNCHANGED <<jobReq, progress, finished, wireUp, lastJob, missed>>

\* The socket breaks, with the events on their way, and connects again: jobs are not
\* asked for.
WireBreaks ==
  /\ wireUp
  /\ wireUp' = FALSE /\ wire' = <<>>
  /\ missed' = missed \cup {wire[i].job : i \in 1 .. Len(wire)}
  /\ UNCHANGED <<jobReq, progress, finished, jobs, lastJob>>

WireConnects ==
  /\ ~wireUp
  /\ wireUp' = TRUE
  /\ UNCHANGED <<jobReq, progress, finished, wire, jobs, lastJob, missed>>

-----------------------------------------------------------------------------
ExecNext ==
  \/ \E j \in Job :
       \/ RunExec(j) \/ StartExec(j) \/ Accepted(j) \/ ExecRefused(j) \/ JobFinishes(j)
       \/ \E h \in ExecHost : HostRuns(j, h) \/ HostEnds(j, h)
  \/ OnExecEvent \/ WireBreaks \/ WireConnects

\* Requests are answered, commands end, events are delivered, the socket reconnects.
ExecFairness ==
  /\ \A j \in Job :
       /\ WF_execVars(StartExec(j)) /\ WF_execVars(Accepted(j) \/ ExecRefused(j))
       /\ WF_execVars(JobFinishes(j))
       /\ \A h \in ExecHost : WF_execVars(HostRuns(j, h)) /\ WF_execVars(HostEnds(j, h))
  /\ WF_execVars(OnExecEvent) /\ WF_execVars(WireConnects)

ExecSpec == ExecInit /\ [][ExecNext]_execVars /\ ExecFairness

-----------------------------------------------------------------------------
(* Properties. *)

\* A job shown as done shows the outcome of every host: exec_done comes after all of
\* them and none is overwritten by an earlier state (startExec, onEvent).  A refused
\* request and lost events are the exceptions.
DoneShowsAll ==
  \A j \in Job :
    jobs[j].done /\ jobReq[j] # "refused" /\ j \notin missed =>
      \A h \in ExecHost : jobs[j].results[h] \in Final

\* A job of the window ends: losing events is no harm, since a window that lost some
\* catches up by asking (the comment in Hub.Publish).
JobEnds == \A j \in Job : lastJob = j /\ Running ~> ~(lastJob = j /\ Running)

=============================================================================
