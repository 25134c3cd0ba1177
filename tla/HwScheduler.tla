---------------------------- MODULE HwScheduler ----------------------------
(***************************************************************************)
(* The unattended hardware checks of the Go core: the schedule, the "check *)
(* every server" run, the goroutine of one queued check, the check itself  *)
(* (shared with checks started by hand), deletion of a host meanwhile,     *)
(* quitting and restarting.  Source: core/internal/api/hwsched.go and      *)
(* runCheck in hardware.go.                                                *)
(*                                                                         *)
(* hs.mu makes one action of what the code does under it; every step       *)
(* between two critical sections, and every access to hwBusy or the store, *)
(* is an action of its own.  Times are abstracted to what the code         *)
(* compares: a next run is unset (or there is no plan), due, later (inside *)
(* one daily period) or far (beyond it, so only under the weekly           *)
(* schedule). Saved results are not modelled here.                         *)
(***************************************************************************)
EXTENDS Naturals, FiniteSets

CONSTANTS Host,           \* host ids that can ever exist
          Job,            \* goroutines of hwScheduler.job alive at once
          Req,            \* requests for a check by hand alive at once
          NoJob, NoHost,
          MaxConcurrent,  \* hwMaxConcurrent
          Intervals,      \* settings of the schedule that are chosen
          Failures        \* ways collecting fails

ASSUME HwAssumption ==
  /\ IsFiniteSet(Host) /\ IsFiniteSet(Job)
  /\ NoJob \notin Job /\ NoHost \notin Host
  /\ Job \cap Req = {}
  /\ MaxConcurrent \in Nat \ {0}
  /\ Intervals \subseteq {"off", "daily", "weekly"}
  /\ Failures \subseteq {"sudo", "canceled", "failed"}

VARIABLES
  hosts,      \* hosts in the store
  monitored,  \* hosts with Monitor set
  interval,   \* Settings.HardwareInterval
  plan,       \* plans[h].NextRun
  queued,     \* queued[h]: the goroutine whose number the map holds
  running,    \* the running map
  job,        \* goroutines and requests: where each one is
  run,        \* the last "check every server" run
  busy,       \* Server.hwBusy: the source of the check under way
  tick,       \* what tick read before it took the lock
  quitting    \* Server.ctx is done

store == <<hosts, monitored, interval>>
vars == <<hosts, monitored, interval, plan, queued, running, job, run,
          busy, tick, quitting>>

-----------------------------------------------------------------------------

Proc == Job \cup Req
Plan == {"unset", "due", "later", "far"}
Source == {"manual", "schedule", "fleet"}
Result == {"ok", "sudo", "busy", "canceled", "failed"}
PC == {"idle", "waiting", "slot", "checking", "collecting", "recording",
       "unbusy", "finishing"}

JobState == [pc : PC, host : Host \cup {NoHost}, src : Source, res : Result]
RunState == [active : BOOLEAN, hosts : SUBSET Host, pending : SUBSET Host,
             done : Nat, ok : SUBSET Host, needsSudo : SUBSET Host,
             failed : SUBSET Host, skipped : SUBSET Host]

Idle == [pc |-> "idle", host |-> NoHost, src |-> "manual", res |-> "ok"]
NoRun == [active |-> FALSE, hosts |-> {}, pending |-> {}, done |-> 0,
          ok |-> {}, needsSudo |-> {}, failed |-> {}, skipped |-> {}]
NoTick == [planning |-> FALSE, covered |-> {}, daily |-> FALSE]

FreeJobs == {j \in Job : job[j].pc = "idle"}

\* Goroutines that have sent on hs.sem and not yet received from it.
Holders == {j \in Job : job[j].pc \notin {"idle", "waiting"}}
\* Between LoadOrStore and Delete on hwBusy in runCheck.
InCheck(p) == job[p].pc \in {"collecting", "recording", "unbusy"}
\* A goroutine that has set running[id] and not yet deleted it.
Started(j) == InCheck(j) \/ job[j].pc \in {"checking", "finishing"}

TypeOK ==
  /\ hosts \in SUBSET Host
  /\ monitored \in SUBSET Host
  /\ interval \in Intervals
  /\ plan \in [Host -> Plan]
  /\ queued \in [Host -> Job \cup {NoJob}]
  /\ running \in SUBSET Host
  /\ job \in [Proc -> JobState]
  /\ \A p \in Proc : job[p].pc # "idle" => job[p].host \in Host
  /\ run \in RunState
  /\ busy \in [Host -> Source \cup {"free"}]
  /\ tick \in [planning : BOOLEAN, covered : SUBSET Host, daily : BOOLEAN]
  /\ quitting \in BOOLEAN

Init ==
  /\ hosts = Host
  /\ monitored \in SUBSET Host
  /\ interval \in Intervals
  /\ plan = [h \in Host |-> "unset"]
  /\ queued = [h \in Host |-> NoJob]
  /\ running = {}
  /\ job = [p \in Proc |-> Idle]
  /\ run = NoRun
  /\ busy = [h \in Host |-> "free"]
  /\ tick = NoTick
  /\ quitting = FALSE

-----------------------------------------------------------------------------
(* Helpers of the critical sections *)

\* A plan one period ahead: SavedAt.Add(iv + jitter).
Period == IF interval = "weekly" THEN "far" ELSE "later"

\* retryDelay: what needs a person waits a whole period, the rest less.
RetryPlans(res) ==
  CASE res = "sudo" -> {Period}
    [] res \in {"busy", "canceled"} -> {"later"}
    [] OTHER -> {Period, "later"}

\* failedLocked's effect on the plan of h.
FailedPlans(h, res) ==
  IF interval = "off" THEN {plan[h]} ELSE RetryPlans(res)

\* enqueueLocked for every host of H: a goroutine for each not queued yet.
HostOf(q, New, j) == CHOOSE h \in New : q[h] = j

Enqueue(H, src) ==
  LET New == {h \in H : queued[h] = NoJob}
  IN \E q \in [Host -> Job \cup {NoJob}] :
       /\ \A h \in Host \ New : q[h] = queued[h]
       /\ \A h \in New : q[h] \in FreeJobs
       /\ \A g, h \in New : q[g] = q[h] => g = h
       /\ queued' = q
       /\ job' = [p \in Proc |->
                    IF \E h \in New : q[h] = p
                    THEN [pc |-> "waiting", host |-> HostOf(q, New, p),
                          src |-> src, res |-> "ok"]
                    ELSE job[p]]

\* Mutated forms of Settled: counting down; without endRunIfDoneLocked.
SettledCountingDown(S, list) ==
  [run EXCEPT !.pending = @ \ S, !.done = @ - Cardinality(S), !.active = run.pending \ S # {}]
SettledNeverEnding(S, list) ==
  [run EXCEPT !.pending = @ \ S, !.done = @ + Cardinality(S), !.skipped = @ \cup S]

\* Hosts of the run leave pending for a result list; endRunIfDoneLocked.
Settled(S, list) ==
  [active    |-> run.pending \ S # {},
   hosts     |-> run.hosts,
   pending   |-> run.pending \ S,
   done      |-> run.done + Cardinality(S),
   ok        |-> IF list = "ok" THEN run.ok \cup S ELSE run.ok,
   needsSudo |-> IF list = "needsSudo" THEN run.needsSudo \cup S ELSE run.needsSudo,
   failed    |-> IF list = "failed" THEN run.failed \cup S ELSE run.failed,
   skipped   |-> IF list = "skipped" THEN run.skipped \cup S ELSE run.skipped]

ListOf(res) ==
  CASE res = "ok" -> "ok"
    [] res = "sudo" -> "needsSudo"
    [] res \in {"busy", "canceled"} -> "skipped"
    [] OTHER -> "failed"

\* Mutated form of Finished: a failed check does not settle its host.
FinishedIfOk(h, res) ==
  IF run.active /\ h \in run.pending /\ res = "ok" THEN Settled({h}, "ok") ELSE run

\* finishRunLocked: the verdict of a host the run still waits for.
Finished(h, res) ==
  IF run.active /\ h \in run.pending THEN Settled({h}, ListOf(res)) ELSE run

\* A goroutine or request moves on; with a result; back to runCheck's caller.
Goto(p, pc) == job' = [job EXCEPT ![p].pc = pc]
Return(p, res, pc) ==
  job' = [job EXCEPT ![p] = [pc |-> pc, host |-> job[p].host, src |-> job[p].src, res |-> res]]

-----------------------------------------------------------------------------
(* The store, the settings and time *)

\* updateHost switches Monitor. (A host just created is in the state of one
\* that was never monitored and never checked, so hosts are not added.)
SaveHost(h, m) ==
  /\ h \in hosts
  /\ monitored' = IF m THEN monitored \cup {h} ELSE monitored \ {h}
  /\ UNCHANGED <<hosts, interval, plan, queued, running, job, run, busy, tick, quitting>>

SetInterval(i) ==
  /\ interval' = i
  /\ UNCHANGED <<hosts, monitored, plan, queued, running, job, run, busy, tick, quitting>>

\* deleteHost: the store first, the scheduler's plan some steps later.
DeleteHost(h) ==
  /\ h \in hosts
  /\ hosts' = hosts \ {h}
  /\ monitored' = monitored \ {h}
  /\ UNCHANGED <<interval, plan, queued, running, job, run, busy, tick, quitting>>

Forget(h) ==
  /\ h \notin hosts
  /\ plan' = [plan EXCEPT ![h] = "unset"]
  /\ UNCHANGED <<store, queued, running, job, run, busy, tick, quitting>>

\* Time passes over a planned run.
Elapse(h) ==
  /\ plan[h] \in {"far", "later"}
  /\ plan' = [plan EXCEPT ![h] = IF @ = "far" THEN "later" ELSE "due"]
  /\ UNCHANGED <<store, queued, running, job, run, busy, tick, quitting>>

-----------------------------------------------------------------------------
(* tick *)

\* Hosts() and interval() are read before the lock is taken.
TickRead ==
  /\ ~tick.planning
  /\ tick' = [planning |-> TRUE, daily |-> interval = "daily",
              covered |-> IF interval = "off" THEN {} ELSE monitored]
  /\ UNCHANGED <<store, plan, queued, running, job, run, busy, quitting>>

\* The first plan of a host is soon, or a period after its saved result. A
\* plan a period was shortened under is made anew; a deleted host has none.
Replanned(h) ==
  CASE h \notin tick.covered -> {"unset"}
    [] h \in tick.covered /\ plan[h] = "unset" ->
         IF tick.daily THEN {"later"} ELSE {"later", "far"}
    [] h \in tick.covered /\ plan[h] = "far" /\ tick.daily -> {"later"}
    [] OTHER -> {plan[h]}

DueHosts == {h \in tick.covered : plan[h] = "due" /\ queued[h] = NoJob}

TickPlan ==
  /\ tick.planning
  /\ plan' \in {f \in [Host -> Plan] : \A h \in Host : f[h] \in Replanned(h)}
  /\ Enqueue(DueHosts, "schedule")
  /\ tick' = NoTick
  /\ UNCHANGED <<store, running, run, busy, quitting>>

-----------------------------------------------------------------------------
(* Fleet runs *)

\* hardwareRunAll and startRun. The ids were looked up in the store before
\* the lock: a host may be deleted since. A second run answers run_active.
StartRun(ids) ==
  /\ ~run.active
  /\ ids # {}
  /\ run' = [NoRun EXCEPT !.active = TRUE, !.hosts = ids, !.pending = ids]
  /\ Enqueue(ids, "fleet")
  /\ UNCHANGED <<store, plan, running, busy, tick, quitting>>

\* Mutated form of CancelRun: running checks lose their entries too.
CancelRunningToo ==
  /\ run.active
  /\ run' = Settled(run.pending \ running, "skipped")
  /\ queued' = [h \in Host |-> IF h \in run.pending THEN NoJob ELSE queued[h]]
  /\ UNCHANGED <<store, plan, running, job, busy, tick, quitting>>

CancelRun ==
  /\ run.active
  /\ LET dropped == run.pending \ running
     IN /\ run' = Settled(dropped, "skipped")
        /\ queued' = [h \in Host |-> IF h \in dropped THEN NoJob ELSE queued[h]]
  /\ UNCHANGED <<store, plan, running, job, busy, tick, quitting>>

-----------------------------------------------------------------------------
(* The goroutine of a queued check. It gives its slot back as it returns,  *)
(* which is part of its last critical section here.                        *)

\* Mutated form of AcquireSlot: one slot too many.
AcquireSlotTooMany(j) ==
  /\ job[j].pc = "waiting"
  /\ Cardinality(Holders) <= MaxConcurrent
  /\ Goto(j, "slot")
  /\ UNCHANGED <<store, plan, queued, running, run, busy, tick, quitting>>

AcquireSlot(j) ==
  /\ job[j].pc = "waiting"
  /\ Cardinality(Holders) < MaxConcurrent
  /\ Goto(j, "slot")
  /\ UNCHANGED <<store, plan, queued, running, run, busy, tick, quitting>>

\* Mutated form of Abandon: the entry stays.
AbandonWithoutDelete(j) ==
  /\ job[j].pc = "waiting"
  /\ quitting
  /\ job' = [job EXCEPT ![j] = Idle]
  /\ UNCHANGED <<store, plan, queued, running, run, busy, tick, quitting>>

\* ctx.Done while waiting for a slot.
Abandon(j) ==
  /\ job[j].pc = "waiting"
  /\ quitting
  /\ queued' = [h \in Host |-> IF h = job[j].host /\ queued[h] = j THEN NoJob ELSE queued[h]]
  /\ job' = [job EXCEPT ![j] = Idle]
  /\ UNCHANGED <<store, plan, running, run, busy, tick, quitting>>

\* The map holds another number: cancelled while waiting.
DropCancelled(j) ==
  /\ job[j].pc = "slot"
  /\ queued[job[j].host] # j
  /\ job' = [job EXCEPT ![j] = Idle]
  /\ UNCHANGED <<store, plan, queued, running, run, busy, tick, quitting>>

\* Mutated form of NotDue: without looking at the run.
NotDueWhateverRuns(j) ==
  /\ job[j].src = "schedule"
  /\ interval = "off" \/ plan[job[j].host] \in {"later", "far"}

\* A scheduled check that is not due any more, and that no run waits for.
NotDue(j) ==
  LET h == job[j].host
  IN /\ job[j].src = "schedule"
     /\ interval = "off" \/ plan[h] \in {"later", "far"}
     /\ ~(run.active /\ h \in run.pending)

\* Mutated form of DropNotDue: the entry stays.
DropNotDueWithoutDelete(j) ==
  /\ job[j].pc = "slot"
  /\ queued[job[j].host] = j
  /\ NotDue(j)
  /\ job' = [job EXCEPT ![j] = Idle]
  /\ UNCHANGED <<store, plan, queued, running, run, busy, tick, quitting>>

DropNotDue(j) ==
  /\ job[j].pc = "slot"
  /\ queued[job[j].host] = j
  /\ NotDue(j)
  /\ queued' = [queued EXCEPT ![job[j].host] = NoJob]
  /\ job' = [job EXCEPT ![j] = Idle]
  /\ UNCHANGED <<store, plan, running, run, busy, tick, quitting>>

\* Mutated form of StartJob: whatever number the map holds.
StartJobUnchecked(j) ==
  /\ job[j].pc = "slot"
  /\ running' = running \cup {job[j].host}
  /\ Goto(j, "checking")
  /\ UNCHANGED <<store, plan, queued, run, busy, tick, quitting>>

StartJob(j) ==
  /\ job[j].pc = "slot"
  /\ queued[job[j].host] = j
  /\ ~NotDue(j)
  /\ running' = running \cup {job[j].host}
  /\ Goto(j, "checking")
  /\ UNCHANGED <<store, plan, queued, run, busy, tick, quitting>>

\* The second critical section: the failure, the verdict of the run.
Finish(j) ==
  LET h == job[j].host
      res == job[j].res
  IN /\ job[j].pc = "finishing"
     /\ running' = running \ {h}
     /\ queued' = [queued EXCEPT ![h] = NoJob]
     /\ IF res # "ok" /\ ~quitting
        THEN \E p \in FailedPlans(h, res) : plan' = [plan EXCEPT ![h] = p]
        ELSE UNCHANGED plan
     /\ run' = Finished(h, res)
     /\ job' = [job EXCEPT ![j] = Idle]
     /\ UNCHANGED <<store, busy, tick, quitting>>

-----------------------------------------------------------------------------
(* runCheck, by a goroutine of the scheduler or by a request *)

\* runHardware: the host was found in the store, now or some time ago.
RequestCheck(r, h) ==
  /\ job[r].pc = "idle"
  /\ job' = [job EXCEPT ![r] = [pc |-> "checking", host |-> h, src |-> "manual", res |-> "ok"]]
  /\ UNCHANGED <<store, plan, queued, running, run, busy, tick, quitting>>

\* Back in the caller of runCheck: the scheduler's goroutine goes on, the
\* request is answered.
Returned(p, res) ==
  IF p \in Job THEN Return(p, res, "finishing") ELSE job' = [job EXCEPT ![p] = Idle]

\* unattendedCheck looks the host up again.
HostNotFound(j) ==
  /\ job[j].pc = "checking"
  /\ job[j].host \notin hosts
  /\ Returned(j, "failed")
  /\ UNCHANGED <<store, plan, queued, running, run, busy, tick, quitting>>

FindBusy(p) ==
  /\ job[p].pc = "checking"
  /\ busy[job[p].host] # "free"
  /\ Returned(p, "busy")
  /\ UNCHANGED <<store, plan, queued, running, run, busy, tick, quitting>>

\* Mutated form of TakeHost: checks by hand do not look at hwBusy.
TakeHostByForce(p) ==
  /\ job[p].pc = "checking"
  /\ busy[job[p].host] = "free" \/ job[p].src = "manual"
  /\ busy' = [busy EXCEPT ![job[p].host] = job[p].src]
  /\ Goto(p, "collecting")
  /\ UNCHANGED <<store, plan, queued, running, run, tick, quitting>>

TakeHost(p) ==
  /\ job[p].pc = "checking"
  /\ busy[job[p].host] = "free"
  /\ busy' = [busy EXCEPT ![job[p].host] = job[p].src]
  /\ Goto(p, "collecting")
  /\ UNCHANGED <<store, plan, queued, running, run, tick, quitting>>

\* collectHardware fails: no root, cut off, or anything else.
CollectFails(p) ==
  /\ job[p].pc = "collecting"
  /\ \E res \in Failures : Return(p, res, "unbusy")
  /\ UNCHANGED <<store, plan, queued, running, run, busy, tick, quitting>>

\* The host may have been deleted while the check ran.
CollectEnds(p) ==
  /\ job[p].pc = "collecting"
  /\ Goto(p, IF job[p].host \in hosts THEN "recording" ELSE "unbusy")
  /\ UNCHANGED <<store, plan, queued, running, run, busy, tick, quitting>>

\* The result is saved and recorded, or saving fails.
Record(p) ==
  LET h == job[p].host
  IN /\ job[p].pc = "recording"
     /\ \/ /\ plan' = IF interval = "off" THEN plan ELSE [plan EXCEPT ![h] = Period]
           /\ Goto(p, "unbusy")
        \/ /\ Return(p, "failed", "unbusy")
           /\ UNCHANGED plan
     /\ UNCHANGED <<store, queued, running, run, busy, tick, quitting>>

LeaveHost(p) ==
  /\ job[p].pc = "unbusy"
  /\ busy' = [busy EXCEPT ![job[p].host] = "free"]
  /\ Returned(p, job[p].res)
  /\ UNCHANGED <<store, plan, queued, running, run, tick, quitting>>

-----------------------------------------------------------------------------
(* Quitting and starting again *)

Quit ==
  /\ ~quitting
  /\ quitting' = TRUE
  /\ UNCHANGED <<store, plan, queued, running, job, run, busy, tick>>

\* A crash at any moment, or the end of quitting, and the next start. Every
\* change of a plan is saved in its critical section, by a rename: the file
\* holds the plans as they were. loadLocked spreads what became overdue.
Reloaded(h) ==
  IF plan[h] = "due" /\ interval # "off" THEN "later" ELSE plan[h]

Restart ==
  /\ plan' = [h \in Host |-> Reloaded(h)]
  /\ queued' = [h \in Host |-> NoJob]
  /\ running' = {}
  /\ job' = [p \in Proc |-> Idle]
  /\ run' = NoRun
  /\ busy' = [h \in Host |-> "free"]
  /\ tick' = NoTick
  /\ quitting' = FALSE
  /\ UNCHANGED store

-----------------------------------------------------------------------------

CheckStep(p) ==
  \/ FindBusy(p) \/ TakeHost(p) \/ CollectFails(p) \/ CollectEnds(p)
  \/ Record(p) \/ LeaveHost(p)

\* What a goroutine does once it has its slot.
JobStep(j) ==
  \/ DropCancelled(j) \/ DropNotDue(j) \/ StartJob(j)
  \/ HostNotFound(j) \/ CheckStep(j) \/ Finish(j)

Next ==
  \/ \E h \in Host, m \in BOOLEAN : SaveHost(h, m)
  \/ \E i \in Intervals : SetInterval(i)
  \/ \E h \in Host : DeleteHost(h) \/ Forget(h) \/ Elapse(h)
  \/ TickRead \/ TickPlan
  \/ \E ids \in SUBSET Host : StartRun(ids)
  \/ CancelRun
  \/ \E j \in Job : AcquireSlot(j) \/ Abandon(j) \/ JobStep(j)
  \/ \E r \in Req, h \in Host : RequestCheck(r, h)
  \/ \E r \in Req : CheckStep(r)
  \/ Quit \/ Restart

Spec == Init /\ [][Next]_vars

(***************************************************************************)
(* Fairness.  The core's goroutines run; a check ends because              *)
(* hardwareTimeout bounds its context; Run ticks every 30 s at most; and   *)
(* blocked senders on hs.sem are served in their order, so a goroutine     *)
(* that finds a slot free again and again gets one.  Nothing is assumed of *)
(* people, of time, or of quitting and restarting.                         *)
(***************************************************************************)
Fairness ==
  /\ \A j \in Job : SF_vars(AcquireSlot(j)) /\ WF_vars(JobStep(j))
  /\ WF_vars(TickRead) /\ WF_vars(TickPlan)

FairSpec == Spec /\ Fairness

-----------------------------------------------------------------------------
(* Properties *)

\* A number in the queued map belongs to a goroutine of that host that has
\* not finished: no entry is left behind to keep the host from being queued
\* again (enqueueLocked refuses a host with an entry).
QueuedIsLive ==
  \A h \in Host : queued[h] # NoJob =>
    /\ job[queued[h]].host = h
    /\ job[queued[h]].pc # "idle"

\* A goroutine that checks its host owns both of the host's entries, however
\* often the host was cancelled and queued again before: what it deletes when
\* it finishes (unconditionally) is its own. Conversely a running entry is
\* never left behind.
RunningIsOwned ==
  /\ \A j \in Job : Started(j) => queued[job[j].host] = j /\ job[j].host \in running
  /\ \A h \in running : queued[h] # NoJob /\ Started(queued[h])

\* Every host a run still waits for has a goroutine that will report it, so
\* the run can end (until the core quits).
PendingIsQueued ==
  ~quitting => \A h \in run.pending : queued[h] # NoJob

\* Every host of a run is either waited for or in exactly one of the result
\* lists, counted once in Done, and the run is active exactly while it waits.
RunAccounting ==
  /\ run.pending \subseteq run.hosts
  /\ run.hosts \ run.pending = run.ok \cup run.needsSudo \cup run.failed \cup run.skipped
  /\ run.ok \cap (run.needsSudo \cup run.failed \cup run.skipped) = {}
  /\ run.needsSudo \cap (run.failed \cup run.skipped) = {}
  /\ run.failed \cap run.skipped = {}
  /\ run.done = Cardinality(run.hosts \ run.pending)
  /\ run.active <=> run.pending # {}

\* "never two on one host": checks started by hand included.
OneCheckPerHost ==
  \A p, q \in Proc : InCheck(p) /\ InCheck(q) /\ job[p].host = job[q].host => p = q

\* "at most hwMaxConcurrent checks at a time": of the schedule and of runs,
\* as the UI sees them.
AtMostMaxConcurrent == Cardinality(running) <= MaxConcurrent

\* The inductive invariant of the proofs: the properties above, that a check
\* under way holds its host, and that the slots are not exceeded.
CheckHoldsHost == \A p \in Proc : InCheck(p) => busy[job[p].host] # "free"
SlotsBounded == Cardinality(Holders) <= MaxConcurrent

SafetyInv ==
  /\ TypeOK
  /\ QueuedIsLive /\ RunningIsOwned /\ PendingIsQueued /\ RunAccounting
  /\ OneCheckPerHost /\ CheckHoldsHost /\ SlotsBounded

\* The scheduler implements a run as its users understand it: a set of hosts
\* each of which gets one verdict, which stays, until all have one.
Verdict(h) ==
  IF h \in run.pending THEN "open"
  ELSE IF h \in run.ok THEN "ok"
  ELSE IF h \in run.needsSudo THEN "sudo"
  ELSE IF h \in run.failed THEN "failed"
  ELSE IF h \in run.skipped THEN "skipped"
  ELSE "out"

Fleet == INSTANCE FleetRun WITH verdict <- [h \in Host |-> Verdict(h)], down <- quitting

\* Every run that starts ends (its part of the refinement is the fairness of
\* Settle), unless the core quits.
ImplementsFleetRun == Fleet!FairSpec

\* The schedule leaves no host due for ever: it is tried, or the schedule does
\* not cover it any more, or the core quits, or runs keep being started (whose
\* cancellation may drop the scheduled check each time).
DueIsTried ==
  \A h \in Host :
    []<>(plan[h] # "due" \/ h \notin monitored \/ interval = "off" \/ quitting \/ run.active)

=============================================================================
