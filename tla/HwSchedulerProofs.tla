------------------------- MODULE HwSchedulerProofs -------------------------
(***************************************************************************)
(* Proofs about HwScheduler: its type correctness, and the safety of its   *)
(* queue, its runs and its checks, for any number of hosts, goroutines,    *)
(* requests and slots.                                                     *)
(***************************************************************************)
EXTENDS HwScheduler, FiniteSetTheorems, TLAPS

LEMMA HostOfFact ==
  ASSUME NEW q, NEW New, NEW j, \E h \in New : q[h] = j
  PROVE  HostOf(q, New, j) \in New /\ q[HostOf(q, New, j)] = j
BY DEF HostOf

\* What enqueueLocked does: it touches only hosts without a goroutine, and
\* gives each a goroutine of its own that was idle.
LEMMA EnqueueFacts ==
  ASSUME TypeOK, NEW H \in SUBSET Host, NEW src \in Source, Enqueue(H, src)
  PROVE  /\ queued' \in [Host -> Job \cup {NoJob}]
         /\ job' \in [Proc -> JobState]
         /\ \A h \in H : queued'[h] # NoJob
         /\ \A h \in Host : queued[h] # NoJob => queued'[h] = queued[h]
         /\ \A h \in Host : h \notin H => queued'[h] = queued[h]
         /\ \A h \in Host : queued'[h] # queued[h] =>
              /\ queued'[h] \in FreeJobs
              /\ job'[queued'[h]].pc = "waiting"
              /\ job'[queued'[h]].host = h
         /\ \A p \in Proc : job'[p] # job[p] =>
              p \in FreeJobs /\ job'[p].pc = "waiting" /\ job'[p].host \in H
<1> DEFINE New == {h \in H : queued[h] = NoJob}
<1>1. PICK q \in [Host -> Job \cup {NoJob}] :
        /\ \A h \in Host \ New : q[h] = queued[h]
        /\ \A h \in New : q[h] \in FreeJobs
        /\ \A g, h \in New : q[g] = q[h] => g = h
        /\ queued' = q
        /\ job' = [p \in Proc |->
                     IF \E h \in New : q[h] = p
                     THEN [pc |-> "waiting", host |-> HostOf(q, New, p),
                           src |-> src, res |-> "ok"]
                     ELSE job[p]]
  BY DEF Enqueue
<1>2. \A p \in Proc : (\E h \in New : q[h] = p) =>
         HostOf(q, New, p) \in New /\ q[HostOf(q, New, p)] = p
  BY HostOfFact
<1>3. \A h \in New : q[h] \in Job /\ q[h] # NoJob
  BY <1>1, HwAssumption DEF FreeJobs
<1>4. queued' \in [Host -> Job \cup {NoJob}]
  BY <1>1
<1>5. job' \in [Proc -> JobState]
  BY <1>1, <1>2 DEF TypeOK, PC, Result, JobState
<1>6. \A h \in H : queued'[h] # NoJob
  BY <1>1, <1>3
<1>7. \A h \in Host : queued[h] # NoJob => queued'[h] = queued[h]
  BY <1>1
<1>8. \A h \in Host : h \notin H => queued'[h] = queued[h]
  BY <1>1
<1>9. ASSUME NEW h \in Host, queued'[h] # queued[h]
      PROVE  /\ queued'[h] \in FreeJobs
             /\ job'[queued'[h]].pc = "waiting"
             /\ job'[queued'[h]].host = h
  <2>1. h \in New
    BY <1>1, <1>9
  <2>2. q[h] \in Proc
    BY <2>1, <1>3 DEF Proc
  <2>3. HostOf(q, New, q[h]) = h
    BY <2>1, <2>2, <1>1, <1>2
  <2> QED
    BY <2>1, <2>2, <2>3, <1>1
<1>10. ASSUME NEW p \in Proc, job'[p] # job[p]
       PROVE  p \in FreeJobs /\ job'[p].pc = "waiting" /\ job'[p].host \in H
  BY <1>1, <1>2, <1>10
<1> QED
  BY <1>4, <1>5, <1>6, <1>7, <1>8, <1>9, <1>10

-----------------------------------------------------------------------------

LEMMA InitTypeOK == Init => TypeOK
<1>1. NoRun \in RunState
  BY DEF NoRun, RunState
<1>2. Idle \in JobState /\ Idle.pc = "idle"
  BY DEF Idle, JobState, PC, Source, Result
<1>3. NoTick \in [planning : BOOLEAN, covered : SUBSET Host, daily : BOOLEAN]
  BY DEF NoTick
<1> SUFFICES ASSUME Init PROVE TypeOK
  OBVIOUS
<1>4. job \in [Proc -> JobState] /\ \A p \in Proc : job[p].pc # "idle" => job[p].host \in Host
  BY <1>2 DEF Init
<1>5. plan \in [Host -> Plan] /\ queued \in [Host -> Job \cup {NoJob}]
  BY DEF Init, Plan
<1>6. busy \in [Host -> Source \cup {"free"}]
  BY DEF Init
<1> QED
  BY <1>1, <1>3, <1>4, <1>5, <1>6 DEF Init, TypeOK

LEMMA StoreTypeOK ==
  ASSUME TypeOK, NEW h \in Host, NEW m \in BOOLEAN, NEW i \in Intervals,
         SaveHost(h, m) \/ SetInterval(i) \/ DeleteHost(h) \/ Forget(h) \/ Elapse(h)
  PROVE  TypeOK'
BY DEF TypeOK, SaveHost, SetInterval, DeleteHost, Forget, Elapse, Plan, store

LEMMA TickTypeOK == ASSUME TypeOK, TickRead \/ TickPlan PROVE TypeOK'
<1>1. CASE TickRead
  BY <1>1 DEF TypeOK, TickRead, store
<1>2. CASE TickPlan
  <2>1. DueHosts \in SUBSET Host /\ "schedule" \in Source
    BY DEF TypeOK, DueHosts, Source
  <2> HIDE DEF Source
  <2>2. Enqueue(DueHosts, "schedule")
    BY <1>2 DEF TickPlan
  <2>3. /\ queued' \in [Host -> Job \cup {NoJob}]
        /\ job' \in [Proc -> JobState]
        /\ \A p \in Proc : job'[p] # job[p] => job'[p].host \in DueHosts
    BY <2>1, <2>2, EnqueueFacts
  <2>4. \A p \in Proc : job'[p].pc # "idle" => job'[p].host \in Host
    BY <2>1, <2>3 DEF TypeOK
  <2> QED
    BY <1>2, <2>3, <2>4 DEF TypeOK, TickPlan, NoTick, store
<1> QED
  BY <1>1, <1>2

\* Settling hosts keeps the run a run; the parts of the new run.
LEMMA SettledType ==
  ASSUME run \in RunState, NEW S \in SUBSET Host, NEW list
  PROVE  Settled(S, list) \in RunState
<1>1. Cardinality(S) \in Nat
  BY FS_Subset, FS_CardinalityType, HwAssumption
<1> QED
  BY <1>1 DEF Settled, RunState

LEMMA FinishedType ==
  ASSUME run \in RunState, NEW h \in Host, NEW res
  PROVE  Finished(h, res) \in RunState
BY SettledType DEF Finished

LEMMA RunTypeOK ==
  ASSUME TypeOK, NEW ids \in SUBSET Host, StartRun(ids) \/ CancelRun
  PROVE  TypeOK'
<1>1. CASE StartRun(ids)
  <2>1. "fleet" \in Source
    BY DEF Source
  <2>2. /\ queued' \in [Host -> Job \cup {NoJob}]
        /\ job' \in [Proc -> JobState]
        /\ \A p \in Proc : job'[p] # job[p] => job'[p].host \in ids
    BY <1>1, <2>1, EnqueueFacts DEF StartRun
  <2>3. \A p \in Proc : job'[p].pc # "idle" => job'[p].host \in Host
    BY <2>2 DEF TypeOK
  <2> QED
    BY <1>1, <2>2, <2>3 DEF TypeOK, RunState, StartRun, NoRun, store
<1>2. CASE CancelRun
  <2>1. run.pending \ running \in SUBSET Host
    BY DEF TypeOK, RunState
  <2>2. run' \in RunState
    BY <1>2, <2>1, SettledType DEF CancelRun, TypeOK
  <2> QED
    BY <1>2, <2>1, <2>2 DEF TypeOK, CancelRun, store
<1> QED
  BY <1>1, <1>2

\* A step of one goroutine or request to a state of its type.
LEMMA JobUpdate ==
  ASSUME TypeOK, NEW p \in Proc, NEW r \in JobState, r.pc # "idle" => r.host \in Host,
         job' = [job EXCEPT ![p] = r]
  PROVE  job' \in [Proc -> JobState] /\ \A q \in Proc : job'[q].pc # "idle" => job'[q].host \in Host
BY DEF TypeOK

LEMMA GotoType ==
  ASSUME TypeOK, NEW p \in Proc, NEW pc \in PC, job[p].pc # "idle", Goto(p, pc)
  PROVE  job' \in [Proc -> JobState] /\ \A q \in Proc : job'[q].pc # "idle" => job'[q].host \in Host
BY DEF TypeOK, Goto, JobState

LEMMA IdleType == Idle \in JobState /\ Idle.pc = "idle"
BY DEF Idle, JobState, PC, Source, Result

LEMMA ReturnType ==
  ASSUME TypeOK, NEW p \in Proc, NEW res \in Result, NEW pc \in PC, job[p].pc # "idle",
         Return(p, res, pc)
  PROVE  job' \in [Proc -> JobState] /\ \A q \in Proc : job'[q].pc # "idle" => job'[q].host \in Host
<1> DEFINE r == [pc |-> pc, host |-> job[p].host, src |-> job[p].src, res |-> res]
<1>1. r \in JobState /\ r.host \in Host
  BY DEF TypeOK, JobState
<1> QED
  BY <1>1, JobUpdate DEF Return

LEMMA ReturnedType ==
  ASSUME TypeOK, NEW p \in Proc, NEW res \in Result, job[p].pc # "idle", Returned(p, res)
  PROVE  job' \in [Proc -> JobState] /\ \A q \in Proc : job'[q].pc # "idle" => job'[q].host \in Host
<1>1. CASE p \in Job
  BY <1>1, ReturnType DEF Returned, PC
<1>2. CASE p \notin Job
  BY <1>2, IdleType, JobUpdate DEF Returned
<1> QED
  BY <1>1, <1>2

LEMMA JobTypeOK ==
  ASSUME TypeOK, NEW j \in Job,
         \/ AcquireSlot(j) \/ Abandon(j) \/ DropCancelled(j) \/ DropNotDue(j)
         \/ StartJob(j) \/ HostNotFound(j) \/ Finish(j)
  PROVE  TypeOK'
<1>p. j \in Proc
  BY DEF Proc
<1>pc. "slot" \in PC /\ "checking" \in PC /\ "failed" \in Result
  BY DEF PC, Result
<1>1. CASE AcquireSlot(j)
  BY <1>1, <1>p, <1>pc, GotoType DEF AcquireSlot, TypeOK, store
<1>2. CASE Abandon(j)
  BY <1>2, <1>p, IdleType, JobUpdate DEF Abandon, TypeOK, store
<1>3. CASE DropCancelled(j)
  BY <1>3, <1>p, IdleType, JobUpdate DEF DropCancelled, TypeOK, store
<1>4. CASE DropNotDue(j)
  BY <1>4, <1>p, IdleType, JobUpdate DEF DropNotDue, TypeOK, store
<1>5. CASE StartJob(j)
  BY <1>5, <1>p, <1>pc, GotoType DEF StartJob, TypeOK, store
<1>6. CASE HostNotFound(j)
  BY <1>6, <1>p, <1>pc, ReturnedType DEF HostNotFound, TypeOK, store
<1>7. CASE Finish(j)
  <2>1. job[j].host \in Host /\ job[j].res \in Result
    BY <1>7, <1>p DEF Finish, TypeOK, JobState
  <2>2. run' \in RunState
    BY <1>7, <2>1, FinishedType DEF Finish, TypeOK
  <2>3. plan' \in [Host -> Plan]
    BY <1>7, <2>1 DEF Finish, FailedPlans, RetryPlans, Period, Plan, TypeOK
  <2>4. job' \in [Proc -> JobState] /\ \A q \in Proc : job'[q].pc # "idle" => job'[q].host \in Host
    BY <1>7, <1>p, IdleType, JobUpdate DEF Finish
  <2>5. queued' \in [Host -> Job \cup {NoJob}] /\ running' \in SUBSET Host
    BY <1>7, <2>1 DEF Finish, TypeOK
  <2> QED
    BY <1>7, <2>2, <2>3, <2>4, <2>5 DEF Finish, TypeOK, store
<1> QED
  BY <1>1, <1>2, <1>3, <1>4, <1>5, <1>6, <1>7

LEMMA CheckTypeOK ==
  ASSUME TypeOK, NEW p \in Proc, NEW h \in Host,
         CheckStep(p) \/ RequestCheck(p, h)
  PROVE  TypeOK'
<1>pc. {"checking", "collecting", "recording", "unbusy"} \subseteq PC /\ "busy" \in Result
  BY DEF PC, Result
<1>1. CASE FindBusy(p)
  BY <1>1, <1>pc, ReturnedType DEF FindBusy, TypeOK, store
<1>2. CASE TakeHost(p)
  BY <1>2, <1>pc, GotoType DEF TakeHost, TypeOK, JobState, store
<1>3. CASE CollectFails(p)
  <2>1. PICK res \in Failures : Return(p, res, "unbusy")
    BY <1>3 DEF CollectFails
  <2>2. res \in Result
    BY HwAssumption DEF Result
  <2>3. job' \in [Proc -> JobState] /\ \A q \in Proc : job'[q].pc # "idle" => job'[q].host \in Host
    BY <1>3, <1>pc, <2>1, <2>2, ReturnType DEF CollectFails
  <2> QED
    BY <1>3, <2>3 DEF CollectFails, TypeOK, store
<1>4. CASE CollectEnds(p)
  BY <1>4, <1>pc, GotoType DEF CollectEnds, TypeOK, store
<1>5. CASE Record(p)
  <2>1. job' \in [Proc -> JobState] /\ \A q \in Proc : job'[q].pc # "idle" => job'[q].host \in Host
    <3>1. CASE Goto(p, "unbusy")
      BY <1>5, <1>pc, <3>1, GotoType DEF Record
    <3>2. CASE Return(p, "failed", "unbusy")
      BY <1>5, <1>pc, <3>2, ReturnType DEF Record, Result
    <3> QED
      BY <1>5, <3>1, <3>2 DEF Record
  <2>2. plan' \in [Host -> Plan]
    BY <1>5 DEF Record, TypeOK, Period, Plan
  <2> QED
    BY <1>5, <2>1, <2>2 DEF Record, TypeOK, store
<1>6. CASE LeaveHost(p)
  <2>1. job[p].res \in Result
    BY DEF TypeOK, JobState
  <2> QED
    BY <1>6, <2>1, ReturnedType DEF LeaveHost, TypeOK, store
<1>7. CASE RequestCheck(p, h)
  <2> DEFINE r == [pc |-> "checking", host |-> h, src |-> "manual", res |-> "ok"]
  <2>1. r \in JobState
    BY DEF JobState, PC, Source, Result
  <2> QED
    BY <1>7, <2>1, JobUpdate DEF RequestCheck, TypeOK, store
<1> QED
  BY <1>1, <1>2, <1>3, <1>4, <1>5, <1>6, <1>7 DEF CheckStep

LEMMA QuitTypeOK == ASSUME TypeOK, Quit \/ Restart PROVE TypeOK'
<1>1. CASE Quit
  BY <1>1 DEF Quit, TypeOK, store
<1>2. CASE Restart
  <2>1. plan' \in [Host -> Plan]
    BY <1>2 DEF Restart, Reloaded, TypeOK, Plan
  <2>2. run' \in RunState
    BY <1>2 DEF Restart, NoRun, RunState
  <2>3. job' \in [Proc -> JobState] /\ \A q \in Proc : job'[q].pc # "idle" => job'[q].host \in Host
    BY <1>2, IdleType DEF Restart
  <2> QED
    BY <1>2, <2>1, <2>2, <2>3 DEF Restart, TypeOK, NoTick, store
<1> QED
  BY <1>1, <1>2

\* The state of the scheduler is always of its types, and a goroutine or a
\* request at work has a host.
THEOREM TypeCorrect == Spec => []TypeOK
<1>1. Init => TypeOK
  BY InitTypeOK
<1>2. TypeOK /\ [Next]_vars => TypeOK'
  <2> SUFFICES ASSUME TypeOK, [Next]_vars PROVE TypeOK'
    OBVIOUS
  <2>1. CASE UNCHANGED vars
    BY <2>1 DEF TypeOK, vars
  <2>2. CASE \E h \in Host, m \in BOOLEAN : SaveHost(h, m)
    BY <2>2, StoreTypeOK DEF TypeOK
  <2>3. CASE \E i \in Intervals : SetInterval(i)
    BY <2>3 DEF TypeOK, SetInterval
  <2>4. CASE \E h \in Host : DeleteHost(h) \/ Forget(h) \/ Elapse(h)
    BY <2>4, StoreTypeOK DEF TypeOK
  <2>5. CASE TickRead \/ TickPlan
    BY <2>5, TickTypeOK
  <2>6. CASE \E ids \in SUBSET Host : StartRun(ids)
    BY <2>6, RunTypeOK
  <2>7. CASE CancelRun
    BY <2>7, RunTypeOK
  <2>8. CASE \E j \in Job : AcquireSlot(j) \/ Abandon(j) \/ JobStep(j)
    <3> SUFFICES ASSUME NEW j \in Job, AcquireSlot(j) \/ Abandon(j) \/ JobStep(j)
                 PROVE TypeOK'
      BY <2>8
    <3>1. CASE CheckStep(j)
      <4>1. PICK h \in Host : job[j].host = h
        BY <3>1 DEF CheckStep, FindBusy, TakeHost, CollectFails, CollectEnds, Record,
             LeaveHost, TypeOK, Proc
      <4> QED
        BY <3>1, <4>1, CheckTypeOK DEF Proc
    <3> QED
      BY <3>1, JobTypeOK DEF JobStep
  <2>9. CASE \E r \in Req, h \in Host : RequestCheck(r, h)
    BY <2>9, CheckTypeOK DEF Proc
  <2>10. CASE \E r \in Req : CheckStep(r)
    <3>1. PICK r \in Req : CheckStep(r)
      BY <2>10
    <3>2. PICK h \in Host : job[r].host = h
      BY <3>1 DEF CheckStep, FindBusy, TakeHost, CollectFails, CollectEnds, Record,
           LeaveHost, TypeOK, Proc
    <3> QED
      BY <3>1, <3>2, CheckTypeOK DEF Proc
  <2>11. CASE Quit \/ Restart
    BY <2>11, QuitTypeOK
  <2> QED
    BY <2>1, <2>2, <2>3, <2>4, <2>5, <2>6, <2>7, <2>8, <2>9, <2>10, <2>11 DEF Next
<1> QED
  BY <1>1, <1>2, PTL DEF Spec

-----------------------------------------------------------------------------
(***************************************************************************)
(* Safety.  SafetyInv is inductive.  Each part gets a lemma per group of   *)
(* actions that can disturb it; what a step of a check, of the store or of *)
(* the queue leaves alone is stated once.                                  *)
(***************************************************************************)

\* A step of a check moves one caller and touches neither queue nor run.
LEMMA CheckEffect ==
  ASSUME TypeOK, NEW p \in Proc, CheckStep(p) \/ (p \in Job /\ HostNotFound(p))
  PROVE  /\ UNCHANGED <<queued, running, run, quitting>>
         /\ \A q \in Proc : q # p => job'[q] = job[q]
         /\ p \in Job => /\ job'[p].host = job[p].host
                         /\ Started(p) /\ Started(p)'
                         /\ job[p].pc # "waiting" /\ job'[p].pc \notin {"idle", "waiting"}
         /\ p \notin Job => job[p].pc # "idle"
<1> USE DEF TypeOK, JobState, Goto, Return, Returned, Started, InCheck
<1>1. CASE FindBusy(p)
  BY <1>1 DEF FindBusy
<1>2. CASE TakeHost(p)
  BY <1>2 DEF TakeHost
<1>3. CASE CollectFails(p)
  BY <1>3 DEF CollectFails
<1>4. CASE CollectEnds(p)
  BY <1>4 DEF CollectEnds
<1>5. CASE Record(p)
  BY <1>5 DEF Record
<1>6. CASE LeaveHost(p)
  BY <1>6 DEF LeaveHost
<1>7. CASE p \in Job /\ HostNotFound(p)
  BY <1>7 DEF HostNotFound
<1> QED
  BY <1>1, <1>2, <1>3, <1>4, <1>5, <1>6, <1>7 DEF CheckStep

\* The queue's part of the invariant.
QueueInv == QueuedIsLive /\ RunningIsOwned /\ PendingIsQueued

\* It depends only on the entries, the run and the goroutines of the scheduler.
LEMMA QueueUnchanged ==
  ASSUME TypeOK, QueueInv, UNCHANGED <<queued, running, run, quitting>>,
         \A j \in Job : job'[j] = job[j]
  PROVE  QueueInv'
BY HwAssumption DEF TypeOK, QueueInv, QueuedIsLive, RunningIsOwned, PendingIsQueued, Started, InCheck

LEMMA CheckKeepsQueue ==
  ASSUME TypeOK, QueueInv, NEW p \in Proc, CheckStep(p) \/ (p \in Job /\ HostNotFound(p))
  PROVE  QueueInv'
<1>1. CASE p \in Job
  <2>1. QueuedIsLive'
    BY <1>1, CheckEffect DEF TypeOK, QueueInv, QueuedIsLive, Proc
  <2>2. RunningIsOwned'
    <3>1. \A j \in Job : Started(j)' <=> Started(j)
      BY <1>1, CheckEffect DEF Started, InCheck, Proc
    <3>2. \A j \in Job : job'[j].host = job[j].host
      BY <1>1, CheckEffect DEF Proc
    <3>3. \A h \in running : queued[h] \in Job
      BY DEF TypeOK, QueueInv, RunningIsOwned
    <3> QED
      BY <3>1, <3>2, <3>3, CheckEffect DEF QueueInv, RunningIsOwned
  <2>3. PendingIsQueued'
    BY CheckEffect DEF QueueInv, PendingIsQueued
  <2> QED
    BY <2>1, <2>2, <2>3 DEF QueueInv
<1>2. CASE p \notin Job
  BY <1>2, CheckEffect, QueueUnchanged DEF Proc
<1> QED
  BY <1>1, <1>2

\* Queueing hosts, for the schedule or for a run.
LEMMA EnqueueKeepsQueue ==
  ASSUME TypeOK, QueuedIsLive, RunningIsOwned, NEW H \in SUBSET Host, NEW src \in Source,
         Enqueue(H, src), UNCHANGED running
  PROVE  QueuedIsLive' /\ RunningIsOwned'
<1>1. \A h \in Host : queued[h] # NoJob => queued[h] \in Job /\ queued[h] \in Proc
  BY DEF TypeOK, Proc
<1>2. \A j \in Job : job'[j] # job[j] => j \in FreeJobs /\ job'[j].pc = "waiting"
  BY EnqueueFacts DEF Proc
<1>3. QueuedIsLive'
  <2> SUFFICES ASSUME NEW h \in Host, queued'[h] # NoJob
               PROVE  job'[queued'[h]].host = h /\ job'[queued'[h]].pc # "idle"
    BY DEF QueuedIsLive
  <2>1. CASE queued'[h] # queued[h]
    BY <2>1, EnqueueFacts
  <2>2. CASE queued'[h] = queued[h]
    BY <2>2, <1>1, <1>2 DEF QueuedIsLive, FreeJobs
  <2> QED
    BY <2>1, <2>2
<1>4. \A j \in Job : Started(j)' => job'[j] = job[j] /\ Started(j)
  BY <1>2 DEF Started, InCheck
<1>5. \A j \in Job : Started(j) => job'[j] = job[j] /\ Started(j)'
  BY <1>2 DEF Started, InCheck, FreeJobs
<1>6. \A h \in running : queued'[h] = queued[h] /\ queued[h] \in Job
  BY <1>1, EnqueueFacts DEF RunningIsOwned, TypeOK
<1>7. RunningIsOwned'
  BY <1>4, <1>5, <1>6 DEF RunningIsOwned
<1> QED
  BY <1>3, <1>7

LEMMA TickKeepsQueue == ASSUME TypeOK, QueueInv, TickPlan PROVE QueueInv'
<1>1. DueHosts \in SUBSET Host /\ "schedule" \in Source
  BY DEF TypeOK, DueHosts, Source
<1>2. Enqueue(DueHosts, "schedule") /\ UNCHANGED <<running, run, quitting>>
  BY DEF TickPlan
<1>3. QueuedIsLive' /\ RunningIsOwned'
  BY <1>1, <1>2, EnqueueKeepsQueue DEF QueueInv
<1>4. \A h \in Host : queued[h] # NoJob => queued'[h] # NoJob
  BY <1>1, <1>2, EnqueueFacts
<1>5. PendingIsQueued'
  BY <1>2, <1>4 DEF QueueInv, PendingIsQueued, TypeOK, RunState
<1> QED
  BY <1>3, <1>5 DEF QueueInv

LEMMA RunsKeepQueue ==
  ASSUME TypeOK, QueueInv, NEW ids \in SUBSET Host, StartRun(ids) \/ CancelRun
  PROVE  QueueInv'
<1>1. CASE StartRun(ids)
  <2>1. Enqueue(ids, "fleet") /\ UNCHANGED <<running, quitting>> /\ "fleet" \in Source
    BY <1>1 DEF StartRun, Source
  <2>2. QueuedIsLive' /\ RunningIsOwned'
    BY <2>1, EnqueueKeepsQueue DEF QueueInv
  <2>3. run'.pending = ids /\ \A h \in ids : queued'[h] # NoJob
    BY <1>1, <2>1, EnqueueFacts DEF StartRun, NoRun
  <2> QED
    BY <2>1, <2>2, <2>3 DEF QueueInv, PendingIsQueued
<1>2. CASE CancelRun
  <2>1. run'.pending = run.pending \ (run.pending \ running)
    BY <1>2 DEF CancelRun, Settled
  <2>2. \A h \in Host : queued'[h] = IF h \in run.pending \ running THEN NoJob ELSE queued[h]
    BY <1>2 DEF CancelRun
  <2>3. UNCHANGED <<running, job, quitting>>
    BY <1>2 DEF CancelRun
  <2>4. QueuedIsLive'
    BY <2>2, <2>3 DEF QueueInv, QueuedIsLive
  <2>5. RunningIsOwned'
    BY <2>2, <2>3 DEF QueueInv, RunningIsOwned, Started, InCheck, TypeOK
  <2>6. PendingIsQueued'
    BY <2>1, <2>2, <2>3 DEF QueueInv, PendingIsQueued, TypeOK, RunState
  <2> QED
    BY <2>4, <2>5, <2>6 DEF QueueInv
<1> QED
  BY <1>1, <1>2

LEMMA JobKeepsQueue ==
  ASSUME TypeOK, QueueInv, RunAccounting, NEW j \in Job,
         \/ AcquireSlot(j) \/ Abandon(j) \/ DropCancelled(j) \/ DropNotDue(j)
         \/ StartJob(j) \/ Finish(j)
  PROVE  QueueInv'
<1>p. j \in Proc /\ job[j].pc # "idle" /\ job[j].host \in Host
  BY DEF Proc, AcquireSlot, Abandon, DropCancelled, DropNotDue, StartJob, Finish, TypeOK
<1>q. \A h \in Host : queued[h] # NoJob => queued[h] \in Job /\ queued[h] \in Proc
  BY DEF TypeOK, Proc
<1>s. \A i \in Job : i \in Proc
  BY DEF Proc
<1>i. Idle.pc = "idle"
  BY DEF Idle
<1> USE <1>p, <1>q, <1>s, <1>i
<1>1. CASE AcquireSlot(j)
  <2>1. /\ UNCHANGED <<queued, running, run, quitting>>
        /\ \A i \in Job : i # j => job'[i] = job[i]
        /\ job'[j].host = job[j].host /\ job[j].pc = "waiting" /\ job'[j].pc = "slot"
    BY <1>1 DEF AcquireSlot, Goto, TypeOK, JobState
  <2>2. QueuedIsLive'
    BY <2>1 DEF QueueInv, QueuedIsLive
  <2>3. RunningIsOwned'
    BY <2>1 DEF QueueInv, RunningIsOwned, Started, InCheck, TypeOK
  <2>4. PendingIsQueued'
    BY <2>1 DEF QueueInv, PendingIsQueued
  <2> QED
    BY <2>2, <2>3, <2>4 DEF QueueInv
<1>2. CASE Abandon(j)
  <2>1. /\ UNCHANGED <<running, run>> /\ quitting'
        /\ \A i \in Job : i # j => job'[i] = job[i]
        /\ job[j].pc = "waiting" /\ job'[j].pc = "idle"
        /\ \A h \in Host : queued'[h] = IF h = job[j].host /\ queued[h] = j
                                        THEN NoJob ELSE queued[h]
    BY <1>2 DEF Abandon, TypeOK
  <2>2. QueuedIsLive'
    BY <2>1 DEF QueueInv, QueuedIsLive
  <2>3. RunningIsOwned'
    BY <2>1 DEF QueueInv, RunningIsOwned, Started, InCheck, TypeOK
  <2>4. PendingIsQueued'
    BY <2>1 DEF PendingIsQueued
  <2> QED
    BY <2>2, <2>3, <2>4 DEF QueueInv
<1>3. CASE DropCancelled(j)
  <2>1. /\ UNCHANGED <<queued, running, run, quitting>>
        /\ \A i \in Job : i # j => job'[i] = job[i]
        /\ job[j].pc = "slot" /\ job'[j].pc = "idle" /\ queued[job[j].host] # j
    BY <1>3 DEF DropCancelled, TypeOK
  <2>2. QueuedIsLive'
    BY <2>1 DEF QueueInv, QueuedIsLive
  <2>3. RunningIsOwned'
    BY <2>1 DEF QueueInv, RunningIsOwned, Started, InCheck, TypeOK
  <2>4. PendingIsQueued'
    BY <2>1 DEF QueueInv, PendingIsQueued
  <2> QED
    BY <2>2, <2>3, <2>4 DEF QueueInv
<1>4. CASE DropNotDue(j)
  <2>1. /\ UNCHANGED <<running, run, quitting>>
        /\ \A i \in Job : i # j => job'[i] = job[i]
        /\ job[j].pc = "slot" /\ job'[j].pc = "idle" /\ queued[job[j].host] = j
        /\ \A h \in Host : queued'[h] = IF h = job[j].host THEN NoJob ELSE queued[h]
        /\ ~(run.active /\ job[j].host \in run.pending)
    BY <1>4 DEF DropNotDue, NotDue, TypeOK
  <2>2. QueuedIsLive'
    BY <2>1 DEF QueueInv, QueuedIsLive
  <2>3. RunningIsOwned'
    BY <2>1 DEF QueueInv, RunningIsOwned, Started, InCheck, TypeOK
  <2>4. PendingIsQueued'
    BY <2>1 DEF QueueInv, PendingIsQueued, RunAccounting, TypeOK, RunState
  <2> QED
    BY <2>2, <2>3, <2>4 DEF QueueInv
<1>5. CASE StartJob(j)
  <2>1. /\ UNCHANGED <<queued, run, quitting>>
        /\ running' = running \cup {job[j].host}
        /\ \A i \in Job : i # j => job'[i] = job[i]
        /\ job'[j].host = job[j].host /\ job[j].pc = "slot" /\ job'[j].pc = "checking"
        /\ queued[job[j].host] = j
    BY <1>5 DEF StartJob, Goto, TypeOK, JobState
  <2>2. QueuedIsLive'
    BY <2>1 DEF QueueInv, QueuedIsLive
  <2>3. RunningIsOwned'
    BY <2>1, HwAssumption DEF QueueInv, RunningIsOwned, Started, InCheck, TypeOK
  <2>4. PendingIsQueued'
    BY <2>1 DEF QueueInv, PendingIsQueued
  <2> QED
    BY <2>2, <2>3, <2>4 DEF QueueInv
<1>6. CASE Finish(j)
  <2>1. /\ UNCHANGED quitting
        /\ running' = running \ {job[j].host}
        /\ \A i \in Job : i # j => job'[i] = job[i]
        /\ job[j].pc = "finishing" /\ job'[j].pc = "idle"
        /\ \A h \in Host : queued'[h] = IF h = job[j].host THEN NoJob ELSE queued[h]
        /\ run' = Finished(job[j].host, job[j].res)
    BY <1>6 DEF Finish, TypeOK
  <2>2. queued[job[j].host] = j
    BY <2>1 DEF QueueInv, RunningIsOwned, Started
  <2>3. QueuedIsLive'
    BY <2>1, <2>2 DEF QueueInv, QueuedIsLive
  <2>4. RunningIsOwned'
    <3>1. \A i \in Job : Started(i)' => i # j /\ Started(i)
      BY <2>1 DEF Started, InCheck
    <3>2. \A i \in Job : i # j /\ Started(i) =>
             Started(i)' /\ job[i].host \in running' /\ queued'[job[i].host] = i
      BY <2>1, <2>2 DEF QueueInv, RunningIsOwned, Started, InCheck, TypeOK
    <3>3. \A h \in running' : queued'[h] = queued[h] /\ queued[h] # NoJob
                              /\ queued[h] # j /\ Started(queued[h])
      BY <2>1 DEF QueueInv, RunningIsOwned, QueuedIsLive, TypeOK
    <3>4. \A h \in running' : queued[h] \in Job
      BY <2>1, <3>3 DEF TypeOK
    <3> QED
      BY <2>1, <3>1, <3>2, <3>3, <3>4 DEF RunningIsOwned
  <2>5. run'.pending \subseteq run.pending /\ job[j].host \notin run'.pending
    BY <2>1 DEF Finished, Settled, RunAccounting
  <2>6. PendingIsQueued'
    BY <2>1, <2>5 DEF QueueInv, PendingIsQueued, TypeOK, RunState
  <2> QED
    BY <2>3, <2>4, <2>6 DEF QueueInv
<1> QED
  BY <1>1, <1>2, <1>3, <1>4, <1>5, <1>6

-----------------------------------------------------------------------------
\* Settling hosts a run waits for keeps its accounts.
LEMMA SettledAccounting ==
  ASSUME TypeOK, RunAccounting, NEW S \in SUBSET run.pending,
         NEW list \in {"ok", "needsSudo", "failed", "skipped"}, run' = Settled(S, list)
  PROVE  RunAccounting'
<1>t. /\ run.pending \subseteq Host /\ run.hosts \subseteq Host /\ run.done \in Nat
      /\ S \subseteq run.hosts
  BY DEF TypeOK, RunState, RunAccounting
<1>1. run'.hosts \ run'.pending = (run.hosts \ run.pending) \cup S
  BY <1>t DEF Settled
<1>2. Cardinality(run'.hosts \ run'.pending) = run.done + Cardinality(S)
  <2>1. IsFiniteSet(run.hosts \ run.pending) /\ IsFiniteSet(S)
    BY <1>t, FS_Subset, HwAssumption
  <2>2. (run.hosts \ run.pending) \cap S = {}
    OBVIOUS
  <2>3. Cardinality((run.hosts \ run.pending) \cap S) = 0
    BY <2>2, FS_EmptySet
  <2>4. Cardinality(S) \in Nat /\ Cardinality(run.hosts \ run.pending) = run.done
    BY <2>1, FS_CardinalityType DEF RunAccounting
  <2>5. Cardinality((run.hosts \ run.pending) \cup S)
          = Cardinality(run.hosts \ run.pending) + Cardinality(S)
            - Cardinality((run.hosts \ run.pending) \cap S)
    BY <2>1, FS_Union
  <2>6. Cardinality(run'.hosts \ run'.pending) = Cardinality((run.hosts \ run.pending) \cup S)
    BY <1>1
  <2> QED
    BY ONLY <1>t, <2>3, <2>4, <2>5, <2>6
<1>3. /\ run'.ok = IF list = "ok" THEN run.ok \cup S ELSE run.ok
      /\ run'.needsSudo = IF list = "needsSudo" THEN run.needsSudo \cup S ELSE run.needsSudo
      /\ run'.failed = IF list = "failed" THEN run.failed \cup S ELSE run.failed
      /\ run'.skipped = IF list = "skipped" THEN run.skipped \cup S ELSE run.skipped
      /\ run'.done = run.done + Cardinality(S)
      /\ run'.active = (run.pending \ S # {})
      /\ run'.pending = run.pending \ S /\ run'.hosts = run.hosts
  BY DEF Settled
<1>4. \A l \in {run.ok, run.needsSudo, run.failed, run.skipped} : l \cap S = {}
  BY DEF RunAccounting
<1>5. run'.hosts \ run'.pending = run'.ok \cup run'.needsSudo \cup run'.failed \cup run'.skipped
  BY <1>1, <1>3 DEF RunAccounting
<1>6. /\ run'.ok \cap (run'.needsSudo \cup run'.failed \cup run'.skipped) = {}
      /\ run'.needsSudo \cap (run'.failed \cup run'.skipped) = {}
      /\ run'.failed \cap run'.skipped = {}
  BY <1>3, <1>4 DEF RunAccounting
<1> QED
  BY <1>t, <1>2, <1>3, <1>5, <1>6 DEF RunAccounting

LEMMA RunsKeepAccounts ==
  ASSUME TypeOK, RunAccounting, NEW ids \in SUBSET Host, StartRun(ids) \/ CancelRun
  PROVE  RunAccounting'
<1>1. CASE StartRun(ids)
  <2>1. /\ run'.pending = ids /\ run'.hosts = ids /\ run'.active /\ ids # {} /\ run'.done = 0
        /\ run'.ok = {} /\ run'.needsSudo = {} /\ run'.failed = {} /\ run'.skipped = {}
    BY <1>1 DEF StartRun, NoRun
  <2>2. Cardinality(run'.hosts \ run'.pending) = 0
    <3>1. run'.hosts \ run'.pending = {}
      BY <2>1
    <3> QED
      BY <3>1, FS_EmptySet
  <2> QED
    BY <2>1, <2>2 DEF RunAccounting
<1>2. CASE CancelRun
  BY <1>2, SettledAccounting DEF CancelRun
<1> QED
  BY <1>1, <1>2

LEMMA FinishKeepsAccounts ==
  ASSUME TypeOK, RunAccounting, NEW j \in Job, Finish(j)
  PROVE  RunAccounting'
<1> DEFINE h == job[j].host
           res == job[j].res
<1>1. run' = Finished(h, res)
  BY DEF Finish
<1>2. CASE run.active /\ h \in run.pending
  <2>1. ListOf(res) \in {"ok", "needsSudo", "failed", "skipped"}
    BY DEF ListOf
  <2>2. run' = Settled({h}, ListOf(res)) /\ {h} \in SUBSET run.pending
    BY <1>1, <1>2 DEF Finished
  <2> HIDE DEF h, res
  <2> QED
    BY <2>1, <2>2, SettledAccounting
<1>3. CASE ~(run.active /\ h \in run.pending)
  BY <1>1, <1>3 DEF Finished, RunAccounting
<1> QED
  BY <1>2, <1>3

-----------------------------------------------------------------------------
\* Checks hold their hosts, and no two are on one host.
CheckInv == OneCheckPerHost /\ CheckHoldsHost

\* A caller that is in a check after the step was in it before, on its host.
LEMMA ChecksUnchanged ==
  ASSUME TypeOK, CheckInv, UNCHANGED busy,
         \A p \in Proc : InCheck(p)' => InCheck(p) /\ job'[p].host = job[p].host
  PROVE  CheckInv'
BY DEF CheckInv, OneCheckPerHost, CheckHoldsHost

LEMMA CheckKeepsChecks ==
  ASSUME TypeOK, CheckInv, NEW p \in Proc, CheckStep(p)
  PROVE  CheckInv'
<1>i. Idle.pc = "idle"
  BY DEF Idle
<1>1. CASE FindBusy(p)
  BY <1>1, <1>i, ChecksUnchanged DEF FindBusy, Returned, Return, InCheck, TypeOK
<1>2. CASE TakeHost(p)
  <2>1. /\ \A q \in Proc : q # p => job'[q] = job[q]
        /\ job'[p].host = job[p].host /\ job'[p].pc = "collecting"
        /\ job[p].pc = "checking" /\ job[p].host \in Host /\ busy[job[p].host] = "free"
    BY <1>2 DEF TakeHost, Goto, TypeOK, JobState
  <2>2. \A h \in Host : busy'[h] = IF h = job[p].host THEN job[p].src ELSE busy[h]
    BY <1>2 DEF TakeHost, TypeOK
  <2>3. job[p].src # "free"
    BY DEF TypeOK, JobState, Source
  <2>4. \A q \in Proc : InCheck(q) => job[q].host \in Host /\ busy[job[q].host] # "free"
    BY DEF TypeOK, InCheck, CheckInv, CheckHoldsHost
  <2>5. \A q \in Proc : InCheck(q)' => q = p \/ InCheck(q)
    BY <2>1 DEF InCheck
  <2>6. OneCheckPerHost'
    BY <2>1, <2>4, <2>5 DEF CheckInv, OneCheckPerHost
  <2>7. CheckHoldsHost'
    BY <2>1, <2>2, <2>3, <2>4, <2>5 DEF CheckHoldsHost
  <2> QED
    BY <2>6, <2>7 DEF CheckInv
<1>3. CASE CollectFails(p)
  <2>1. PICK res \in Failures : Return(p, res, "unbusy")
    BY <1>3 DEF CollectFails
  <2>2. \A q \in Proc : InCheck(q)' => InCheck(q) /\ job'[q].host = job[q].host
    BY <1>3, <2>1 DEF CollectFails, Return, InCheck, TypeOK
  <2> QED
    BY <1>3, <2>2, ChecksUnchanged DEF CollectFails
<1>4. CASE CollectEnds(p)
  BY <1>4, ChecksUnchanged DEF CollectEnds, Goto, InCheck, TypeOK, JobState
<1>5. CASE Record(p)
  <2>1. \A q \in Proc : InCheck(q)' => InCheck(q) /\ job'[q].host = job[q].host
    <3>1. CASE Goto(p, "unbusy")
      BY <1>5, <3>1 DEF Record, Goto, InCheck, TypeOK, JobState
    <3>2. CASE Return(p, "failed", "unbusy")
      BY <1>5, <3>2 DEF Record, Return, InCheck, TypeOK
    <3> QED
      BY <1>5, <3>1, <3>2 DEF Record
  <2> QED
    BY <1>5, <2>1, ChecksUnchanged DEF Record
<1>6. CASE LeaveHost(p)
  <2>1. /\ \A q \in Proc : q # p => job'[q] = job[q]
        /\ InCheck(p) /\ ~InCheck(p)' /\ job[p].host \in Host
    BY <1>6, <1>i DEF LeaveHost, Returned, Return, InCheck, TypeOK
  <2>2. \A h \in Host : h # job[p].host => busy'[h] = busy[h]
    BY <1>6 DEF LeaveHost, TypeOK
  <2>3. \A q \in Proc : InCheck(q)' => /\ q # p /\ InCheck(q) /\ job'[q] = job[q]
                                       /\ job[q].host \in Host
    BY <2>1 DEF InCheck, TypeOK
  <2>4. OneCheckPerHost'
    BY <2>3 DEF CheckInv, OneCheckPerHost
  <2>5. \A q \in Proc : InCheck(q)' => job[q].host # job[p].host
    BY <2>1, <2>3 DEF CheckInv, OneCheckPerHost
  <2>6. CheckHoldsHost'
    BY <2>2, <2>3, <2>5 DEF CheckInv, CheckHoldsHost
  <2> QED
    BY <2>4, <2>6 DEF CheckInv
<1> QED
  BY <1>1, <1>2, <1>3, <1>4, <1>5, <1>6 DEF CheckStep

\* Every other step puts nobody into a check.
LEMMA OthersKeepChecks ==
  ASSUME TypeOK, CheckInv, NEW j \in Job,
         \/ AcquireSlot(j) \/ Abandon(j) \/ DropCancelled(j) \/ DropNotDue(j)
         \/ StartJob(j) \/ HostNotFound(j) \/ Finish(j)
  PROVE  CheckInv'
<1>p. j \in Proc /\ Idle.pc = "idle"
  BY DEF Proc, Idle
<1>1. UNCHANGED busy
  BY DEF AcquireSlot, Abandon, DropCancelled, DropNotDue, StartJob, HostNotFound, Finish
<1>2. ASSUME NEW p \in Proc, InCheck(p)'
      PROVE  InCheck(p) /\ job'[p].host = job[p].host
  <2>1. p # j => job'[p] = job[p]
    BY <1>p DEF AcquireSlot, Abandon, DropCancelled, DropNotDue, StartJob, HostNotFound,
         Finish, Goto, Returned, Return, TypeOK
  <2>2. p # j
    BY <1>p, <1>2 DEF AcquireSlot, Abandon, DropCancelled, DropNotDue, StartJob,
         HostNotFound, Finish, Goto, Returned, Return, TypeOK, InCheck, JobState
  <2> QED
    BY <1>2, <2>1, <2>2 DEF InCheck
<1> QED
  BY <1>1, <1>2, ChecksUnchanged

LEMMA RequestKeepsChecks ==
  ASSUME TypeOK, CheckInv, NEW r \in Req, NEW h \in Host, RequestCheck(r, h)
  PROVE  CheckInv'
<1>1. \A p \in Proc : InCheck(p)' => InCheck(p) /\ job'[p].host = job[p].host
  BY DEF RequestCheck, InCheck, TypeOK, Proc
<1> QED
  BY <1>1, ChecksUnchanged DEF RequestCheck

LEMMA EnqueueKeepsChecks ==
  ASSUME TypeOK, CheckInv, NEW H \in SUBSET Host, NEW src \in Source, Enqueue(H, src),
         UNCHANGED busy
  PROVE  CheckInv'
<1>1. \A p \in Proc : job'[p] # job[p] => job'[p].pc = "waiting"
  BY EnqueueFacts
<1>2. \A p \in Proc : InCheck(p)' => InCheck(p) /\ job'[p].host = job[p].host
  BY <1>1 DEF InCheck
<1> QED
  BY <1>2, ChecksUnchanged

-----------------------------------------------------------------------------
\* A step after which every holder of a slot held one before.
LEMMA SlotsNotTaken ==
  ASSUME SlotsBounded, Holders' \subseteq Holders
  PROVE  SlotsBounded'
<1>1. IsFiniteSet(Holders)
  BY FS_Subset, HwAssumption DEF Holders
<1>2. IsFiniteSet(Holders') /\ Cardinality(Holders') <= Cardinality(Holders)
  BY <1>1, FS_Subset
<1>3. Cardinality(Holders') \in Nat /\ Cardinality(Holders) \in Nat /\ MaxConcurrent \in Nat
  BY <1>1, <1>2, FS_CardinalityType, HwAssumption
<1>4. Cardinality(Holders) <= MaxConcurrent
  BY DEF SlotsBounded
<1>5. Cardinality(Holders') <= MaxConcurrent
  BY ONLY <1>2, <1>3, <1>4
<1> QED
  BY <1>5 DEF SlotsBounded

LEMMA AcquireKeepsSlots ==
  ASSUME TypeOK, SlotsBounded, NEW j \in Job, AcquireSlot(j)
  PROVE  SlotsBounded'
<1>1. Holders' \subseteq Holders \cup {j}
  BY DEF AcquireSlot, Goto, Holders, TypeOK, Proc
<1>2. IsFiniteSet(Holders) /\ Cardinality(Holders) \in Nat
  BY FS_Subset, FS_CardinalityType, HwAssumption DEF Holders
<1>3. /\ IsFiniteSet(Holders \cup {j})
      /\ Cardinality(Holders \cup {j}) = IF j \in Holders THEN Cardinality(Holders)
                                        ELSE Cardinality(Holders) + 1
  BY <1>2, FS_AddElement
<1>4. /\ IsFiniteSet(Holders')
      /\ Cardinality(Holders') <= Cardinality(Holders \cup {j})
  BY <1>1, <1>3, FS_Subset
<1>5. Cardinality(Holders') \in Nat
  BY <1>4, FS_CardinalityType
<1>6. Cardinality(Holders) < MaxConcurrent /\ MaxConcurrent \in Nat
  BY HwAssumption DEF AcquireSlot
<1>7. Cardinality(Holders') <= MaxConcurrent
  BY ONLY <1>2, <1>3, <1>4, <1>5, <1>6
<1> QED
  BY <1>7 DEF SlotsBounded

LEMMA OthersKeepSlots ==
  ASSUME TypeOK, SlotsBounded, NEW j \in Job,
         \/ Abandon(j) \/ DropCancelled(j) \/ DropNotDue(j) \/ StartJob(j) \/ Finish(j)
  PROVE  SlotsBounded'
<1>p. j \in Proc /\ Idle.pc = "idle" /\ \A i \in Job : i \in Proc
  BY DEF Proc, Idle
<1>1. Holders' \subseteq Holders
  BY <1>p DEF Abandon, DropCancelled, DropNotDue, StartJob, Finish, Goto, Holders, TypeOK
<1> QED
  BY <1>1, SlotsNotTaken

LEMMA CheckKeepsSlots ==
  ASSUME TypeOK, SlotsBounded, NEW p \in Proc, CheckStep(p) \/ (p \in Job /\ HostNotFound(p))
  PROVE  SlotsBounded'
<1>1. \A j \in Job : j # p => job'[j] = job[j]
  BY CheckEffect DEF Proc
<1>2. p \in Job => p \in Holders
  BY CheckEffect DEF Started, InCheck, Holders
<1>3. Holders' \subseteq Holders
  BY <1>1, <1>2 DEF Holders
<1> QED
  BY <1>3, SlotsNotTaken

LEMMA EnqueueKeepsSlots ==
  ASSUME TypeOK, SlotsBounded, NEW H \in SUBSET Host, NEW src \in Source, Enqueue(H, src)
  PROVE  SlotsBounded'
<1>1. \A j \in Job : job'[j] # job[j] => job'[j].pc = "waiting"
  BY EnqueueFacts DEF Proc
<1>2. Holders' \subseteq Holders
  BY <1>1 DEF Holders
<1> QED
  BY <1>2, SlotsNotTaken

-----------------------------------------------------------------------------
LEMMA InitSafety == Init => SafetyInv
<1> SUFFICES ASSUME Init PROVE SafetyInv
  OBVIOUS
<1>1. \A p \in Proc : job[p].pc = "idle"
  BY DEF Init, Idle
<1>2. TypeOK
  BY InitTypeOK
<1>3. QueuedIsLive /\ RunningIsOwned /\ PendingIsQueued
  BY <1>1 DEF Init, QueuedIsLive, RunningIsOwned, PendingIsQueued, NoRun, Started, InCheck, Proc
<1>4. RunAccounting
  <2>1. run.hosts \ run.pending = {}
    BY DEF Init, NoRun
  <2> QED
    BY <2>1, FS_EmptySet DEF Init, NoRun, RunAccounting
<1>5. OneCheckPerHost /\ CheckHoldsHost
  BY <1>1 DEF OneCheckPerHost, CheckHoldsHost, InCheck
<1>6. SlotsBounded
  <2>1. Holders = {}
    BY <1>1 DEF Holders, Proc
  <2> QED
    BY <2>1, FS_EmptySet, HwAssumption DEF SlotsBounded
<1> QED
  BY <1>2, <1>3, <1>4, <1>5, <1>6 DEF SafetyInv

LEMMA RestartSafety == ASSUME TypeOK, Restart PROVE SafetyInv'
<1>1. \A p \in Proc : job'[p].pc = "idle"
  BY DEF Restart, Idle
<1>2. TypeOK'
  BY QuitTypeOK
<1>3. QueuedIsLive' /\ RunningIsOwned' /\ PendingIsQueued'
  BY <1>1 DEF Restart, QueuedIsLive, RunningIsOwned, PendingIsQueued, NoRun, Started, InCheck, Proc
<1>4. RunAccounting'
  <2>1. run'.hosts \ run'.pending = {}
    BY DEF Restart, NoRun
  <2> QED
    BY <2>1, FS_EmptySet DEF Restart, NoRun, RunAccounting
<1>5. OneCheckPerHost' /\ CheckHoldsHost'
  BY <1>1 DEF OneCheckPerHost, CheckHoldsHost, InCheck
<1>6. SlotsBounded'
  <2>1. Holders' = {}
    BY <1>1 DEF Holders, Proc
  <2> QED
    BY <2>1, FS_EmptySet, HwAssumption DEF SlotsBounded
<1> QED
  BY <1>2, <1>3, <1>4, <1>5, <1>6 DEF SafetyInv

\* Steps that touch neither queue, run, callers nor hwBusy.
LEMMA ElsewhereSafety ==
  ASSUME SafetyInv, TypeOK', UNCHANGED <<queued, running, job, run, busy>>,
         quitting => quitting'
  PROVE  SafetyInv'
<1>1. QueuedIsLive' /\ RunningIsOwned'
  BY DEF SafetyInv, QueuedIsLive, RunningIsOwned, Started, InCheck
<1>2. PendingIsQueued'
  BY DEF SafetyInv, PendingIsQueued, TypeOK
<1>3. RunAccounting' /\ OneCheckPerHost' /\ CheckHoldsHost' /\ SlotsBounded'
  BY DEF SafetyInv, RunAccounting, OneCheckPerHost, CheckHoldsHost, SlotsBounded, Holders, InCheck
<1> QED
  BY <1>1, <1>2, <1>3 DEF SafetyInv

LEMMA JobSafety ==
  ASSUME SafetyInv, TypeOK', NEW j \in Job, AcquireSlot(j) \/ Abandon(j) \/ JobStep(j)
  PROVE  SafetyInv'
<1>i. TypeOK /\ QueueInv /\ RunAccounting /\ CheckInv /\ SlotsBounded /\ j \in Proc
  BY DEF SafetyInv, QueueInv, CheckInv, Proc
<1>1. CASE CheckStep(j)
  <2>1. QueueInv' /\ CheckInv' /\ SlotsBounded'
    BY <1>i, <1>1, CheckKeepsQueue, CheckKeepsChecks, CheckKeepsSlots
  <2>2. RunAccounting'
    BY <1>i, <1>1, CheckEffect DEF RunAccounting
  <2> QED
    BY <2>1, <2>2 DEF SafetyInv, QueueInv, CheckInv
<1>2. CASE HostNotFound(j)
  <2>1. QueueInv' /\ CheckInv' /\ SlotsBounded'
    BY <1>i, <1>2, CheckKeepsQueue, OthersKeepChecks, CheckKeepsSlots
  <2>2. RunAccounting'
    BY <1>i, <1>2, CheckEffect DEF RunAccounting
  <2> QED
    BY <2>1, <2>2 DEF SafetyInv, QueueInv, CheckInv
<1>3. CASE \/ AcquireSlot(j) \/ Abandon(j) \/ DropCancelled(j) \/ DropNotDue(j)
           \/ StartJob(j) \/ Finish(j)
  <2>1. QueueInv' /\ CheckInv'
    BY <1>i, <1>3, JobKeepsQueue, OthersKeepChecks
  <2>2. SlotsBounded'
    BY <1>i, <1>3, AcquireKeepsSlots, OthersKeepSlots
  <2>3. RunAccounting'
    <3>1. CASE Finish(j)
      BY <1>i, <3>1, FinishKeepsAccounts
    <3>2. CASE UNCHANGED run
      BY <1>i, <3>2 DEF RunAccounting
    <3> QED
      BY <1>3, <3>1, <3>2 DEF AcquireSlot, Abandon, DropCancelled, DropNotDue, StartJob
  <2> QED
    BY <2>1, <2>2, <2>3 DEF SafetyInv, QueueInv, CheckInv
<1> QED
  BY <1>1, <1>2, <1>3 DEF JobStep

LEMMA RequestSafety ==
  ASSUME SafetyInv, TypeOK', NEW r \in Req, NEW h \in Host,
         RequestCheck(r, h) \/ CheckStep(r)
  PROVE  SafetyInv'
<1>i. /\ TypeOK /\ QueueInv /\ RunAccounting /\ CheckInv /\ SlotsBounded
      /\ r \in Proc /\ r \notin Job
  BY HwAssumption DEF SafetyInv, QueueInv, CheckInv, Proc
<1>1. CASE RequestCheck(r, h)
  <2>1. UNCHANGED <<queued, running, run, quitting>> /\ \A j \in Job : job'[j] = job[j]
    BY <1>i, <1>1 DEF RequestCheck, TypeOK, Proc
  <2>2. QueueInv' /\ CheckInv'
    BY <1>i, <1>1, <2>1, QueueUnchanged, RequestKeepsChecks
  <2>3. Holders' \subseteq Holders
    BY <2>1 DEF Holders
  <2>4. SlotsBounded' /\ RunAccounting'
    BY <1>i, <2>1, <2>3, SlotsNotTaken DEF RunAccounting
  <2> QED
    BY <2>2, <2>4 DEF SafetyInv, QueueInv, CheckInv
<1>2. CASE CheckStep(r)
  <2>1. QueueInv' /\ CheckInv' /\ SlotsBounded'
    BY <1>i, <1>2, CheckKeepsQueue, CheckKeepsChecks, CheckKeepsSlots
  <2>2. RunAccounting'
    BY <1>i, <1>2, CheckEffect DEF RunAccounting
  <2> QED
    BY <2>1, <2>2 DEF SafetyInv, QueueInv, CheckInv
<1> QED
  BY <1>1, <1>2

LEMMA QueueingSafety ==
  ASSUME SafetyInv, TypeOK', NEW ids \in SUBSET Host, TickPlan \/ StartRun(ids) \/ CancelRun
  PROVE  SafetyInv'
<1>i. TypeOK /\ QueueInv /\ RunAccounting /\ CheckInv /\ SlotsBounded
  BY DEF SafetyInv, QueueInv, CheckInv
<1>s. DueHosts \in SUBSET Host /\ "schedule" \in Source /\ "fleet" \in Source
  BY <1>i DEF TypeOK, DueHosts, Source
<1>1. CASE TickPlan
  <2>1. Enqueue(DueHosts, "schedule") /\ UNCHANGED <<run, busy>>
    BY <1>1 DEF TickPlan
  <2>2. QueueInv' /\ CheckInv' /\ SlotsBounded'
    BY <1>i, <1>s, <1>1, <2>1, TickKeepsQueue, EnqueueKeepsChecks, EnqueueKeepsSlots
  <2>3. RunAccounting'
    BY <1>i, <2>1 DEF RunAccounting
  <2> QED
    BY <2>2, <2>3 DEF SafetyInv, QueueInv, CheckInv
<1>2. CASE StartRun(ids)
  <2>1. Enqueue(ids, "fleet") /\ UNCHANGED busy
    BY <1>2 DEF StartRun
  <2>2. QueueInv' /\ CheckInv' /\ SlotsBounded' /\ RunAccounting'
    BY <1>i, <1>s, <1>2, <2>1, RunsKeepQueue, RunsKeepAccounts, EnqueueKeepsChecks, EnqueueKeepsSlots
  <2> QED
    BY <2>2 DEF SafetyInv, QueueInv, CheckInv
<1>3. CASE CancelRun
  <2>1. UNCHANGED <<job, busy>>
    BY <1>3 DEF CancelRun
  <2>2. QueueInv' /\ RunAccounting'
    BY <1>i, <1>3, RunsKeepQueue, RunsKeepAccounts
  <2>3. CheckInv' /\ SlotsBounded'
    BY <1>i, <2>1 DEF CheckInv, OneCheckPerHost, CheckHoldsHost, InCheck, SlotsBounded, Holders
  <2> QED
    BY <2>2, <2>3 DEF SafetyInv, QueueInv, CheckInv
<1> QED
  BY <1>1, <1>2, <1>3

\* The inductive invariant holds in every state.
THEOREM Safety == Spec => []SafetyInv
<1>1. Init => SafetyInv
  BY InitSafety
<1>2. SafetyInv /\ TypeOK' /\ [Next]_vars => SafetyInv'
  <2> SUFFICES ASSUME SafetyInv, TypeOK', [Next]_vars PROVE SafetyInv'
    OBVIOUS
  <2>1. CASE UNCHANGED vars
    BY <2>1, ElsewhereSafety DEF vars
  <2>2. CASE \E h \in Host, m \in BOOLEAN : SaveHost(h, m)
    BY <2>2, ElsewhereSafety DEF SaveHost
  <2>3. CASE \E i \in Intervals : SetInterval(i)
    BY <2>3, ElsewhereSafety DEF SetInterval
  <2>4. CASE \E h \in Host : DeleteHost(h) \/ Forget(h) \/ Elapse(h)
    BY <2>4, ElsewhereSafety DEF DeleteHost, Forget, Elapse
  <2>5. CASE TickRead
    BY <2>5, ElsewhereSafety DEF TickRead
  <2>6. CASE TickPlan \/ (\E ids \in SUBSET Host : StartRun(ids)) \/ CancelRun
    BY <2>6, QueueingSafety
  <2>7. CASE \E j \in Job : AcquireSlot(j) \/ Abandon(j) \/ JobStep(j)
    BY <2>7, JobSafety
  <2>8. CASE \E r \in Req, h \in Host : RequestCheck(r, h)
    BY <2>8, RequestSafety
  <2>9. CASE \E r \in Req : CheckStep(r)
    <3>1. PICK r \in Req : CheckStep(r)
      BY <2>9
    <3>2. PICK h \in Host : job[r].host = h
      BY <3>1 DEF CheckStep, FindBusy, TakeHost, CollectFails, CollectEnds, Record,
           LeaveHost, SafetyInv, TypeOK, Proc
    <3> QED
      BY <3>1, <3>2, RequestSafety
  <2>10. CASE Quit
    BY <2>10, ElsewhereSafety DEF Quit
  <2>11. CASE Restart
    BY <2>11, RestartSafety DEF SafetyInv
  <2> QED
    BY <2>1, <2>2, <2>3, <2>4, <2>5, <2>6, <2>7, <2>8, <2>9, <2>10, <2>11 DEF Next
<1> QED
  BY <1>1, <1>2, TypeCorrect, PTL DEF Spec

\* Each host has at most one check under way, whoever started them.
THEOREM ChecksExclusive == Spec => []OneCheckPerHost
<1>1. SafetyInv => OneCheckPerHost
  BY DEF SafetyInv
<1> QED
  BY <1>1, Safety, PTL

\* Every queued host has a live goroutine of its own, however requests, cancellations
\* and runs repeat (hwEnqueue, hwCancelRun).
THEOREM QueuedHostsLive == Spec => []QueuedIsLive
<1>1. SafetyInv => QueuedIsLive
  BY DEF SafetyInv
<1> QED
  BY <1>1, Safety, PTL

\* A host shown as being checked is in the hands of the goroutine queued for it.
THEOREM RunningHostsOwned == Spec => []RunningIsOwned
<1>1. SafetyInv => RunningIsOwned
  BY DEF SafetyInv
<1> QED
  BY <1>1, Safety, PTL

\* Every host a run waits for is still being worked on.
THEOREM PendingHostsQueued == Spec => []PendingIsQueued
<1>1. SafetyInv => PendingIsQueued
  BY DEF SafetyInv
<1> QED
  BY <1>1, Safety, PTL

\* A run counts each of its hosts once and ends exactly when all have a verdict.
THEOREM AccountsBalance == Spec => []RunAccounting
<1>1. SafetyInv => RunAccounting
  BY DEF SafetyInv
<1> QED
  BY <1>1, Safety, PTL

\* hwMaxConcurrent bounds the hosts shown as being checked: each is the host of
\* a different holder of a slot.
LEMMA RunningBounded == SafetyInv => AtMostMaxConcurrent
<1> SUFFICES ASSUME SafetyInv PROVE Cardinality(running) <= MaxConcurrent
  BY DEF AtMostMaxConcurrent
<1>1. \A h \in running : queued[h] \in Holders /\ job[queued[h]].host = h
  BY DEF SafetyInv, TypeOK, RunningIsOwned, QueuedIsLive, Started, InCheck, Holders
<1> DEFINE owner == [h \in running |-> queued[h]]
<1>2. owner \in Injection(running, Holders)
  BY <1>1 DEF Injection, IsInjective
<1>3. IsFiniteSet(Holders) /\ Cardinality(Holders) \in Nat
  BY FS_Subset, FS_CardinalityType, HwAssumption DEF Holders
<1>4. IsFiniteSet(running) /\ Cardinality(running) <= Cardinality(Holders)
  BY <1>2, <1>3, FS_Injection DEF ExistsInjection
<1>5. Cardinality(running) \in Nat /\ MaxConcurrent \in Nat
  BY <1>4, FS_CardinalityType, HwAssumption
<1>6. Cardinality(Holders) <= MaxConcurrent
  BY DEF SafetyInv, SlotsBounded
<1> QED
  BY ONLY <1>3, <1>4, <1>5, <1>6

\* At most MaxConcurrent hosts are shown as running, whatever is cancelled meanwhile.
THEOREM ConcurrencyBounded == Spec => []AtMostMaxConcurrent
BY RunningBounded, Safety, PTL

-----------------------------------------------------------------------------
(***************************************************************************)
(* The scheduler implements FleetRun: every step starts a run, gives       *)
(* verdicts, quits, restarts, or changes nothing a user of runs sees.      *)
(***************************************************************************)

\* The verdict a host gets with its place in one of the result lists.
ListVerdict(list) == IF list = "needsSudo" THEN "sudo" ELSE list

\* Settling gives the settled hosts the verdict of their list, and every other host
\* keeps its own: no list takes a host from another.
LEMMA SettledVerdict ==
  ASSUME RunAccounting, NEW S \in SUBSET run.pending,
         NEW list \in {"ok", "needsSudo", "failed", "skipped"},
         run' = Settled(S, list), NEW h \in Host
  PROVE  Verdict(h)' = IF h \in S THEN ListVerdict(list) ELSE Verdict(h)
<1>1. /\ run'.ok = IF list = "ok" THEN run.ok \cup S ELSE run.ok
      /\ run'.needsSudo = IF list = "needsSudo" THEN run.needsSudo \cup S ELSE run.needsSudo
      /\ run'.failed = IF list = "failed" THEN run.failed \cup S ELSE run.failed
      /\ run'.skipped = IF list = "skipped" THEN run.skipped \cup S ELSE run.skipped
      /\ run'.pending = run.pending \ S
  BY DEF Settled
<1>2. \A l \in {run.ok, run.needsSudo, run.failed, run.skipped} : l \cap S = {}
  BY DEF RunAccounting
<1>3. CASE h \in S
  <2>1. h \in run.pending /\ h \notin run'.pending
    BY <1>1, <1>3
  <2>2. h \notin run.ok /\ h \notin run.needsSudo /\ h \notin run.failed /\ h \notin run.skipped
    BY <1>2, <1>3
  <2> QED
    BY <1>1, <1>3, <2>1, <2>2 DEF Verdict, ListVerdict
<1>4. CASE h \notin S
  BY <1>1, <1>4 DEF Verdict
<1> QED
  BY <1>3, <1>4

\* A host is open in the abstract run while the concrete one waits for it.
LEMMA OpenIsPending == Fleet!Open = {h \in Host : h \in run.pending}
BY DEF Fleet!Open, Verdict

LEMMA StartIsFleetStart ==
  ASSUME SafetyInv, NEW ids \in SUBSET Host, StartRun(ids)
  PROVE  Fleet!Start(ids)
<1>1. /\ run'.pending = ids /\ run'.ok = {} /\ run'.needsSudo = {}
      /\ run'.failed = {} /\ run'.skipped = {}
  BY DEF StartRun, NoRun
<1>2. \A h \in Host : Verdict(h)' = IF h \in ids THEN "open" ELSE "out"
  BY <1>1 DEF Verdict
<1>3. run.pending = {}
  BY DEF StartRun, SafetyInv, RunAccounting
<1>4. Fleet!Open = {}
  BY <1>3, OpenIsPending
<1> QED
  BY <1>2, <1>4 DEF Fleet!Start, StartRun

\* Cancelling drops the hosts nobody has started on; with none of them it shows nothing.
LEMMA CancelIsFleetCancel ==
  ASSUME SafetyInv, CancelRun
  PROVE  (\E H \in SUBSET Host : Fleet!Cancel(H)) \/ UNCHANGED Fleet!vars
<1> DEFINE dropped == run.pending \ running
<1>1. dropped \in SUBSET run.pending /\ run.pending \subseteq Host
  BY DEF SafetyInv, TypeOK, RunState
<1>2. run' = Settled(dropped, "skipped") /\ UNCHANGED quitting
  BY DEF CancelRun
<1>3. \A h \in Host : Verdict(h)' = IF h \in dropped THEN "skipped" ELSE Verdict(h)
  <2> HIDE DEF dropped
  <2> QED
    BY <1>1, <1>2, SettledVerdict DEF SafetyInv, ListVerdict
<1>4. CASE dropped = {}
  BY <1>2, <1>3, <1>4 DEF Fleet!vars
<1>5. CASE dropped # {}
  <2>1. dropped \subseteq Fleet!Open
    BY <1>1, OpenIsPending
  <2>2. Fleet!Cancel(dropped)
    <3> HIDE DEF dropped
    <3> QED
      BY <1>2, <1>3, <1>5, <2>1 DEF Fleet!Cancel
  <2> QED
    BY <1>1, <2>2
<1> QED
  BY <1>4, <1>5

\* The goroutine that finishes gives its host's verdict if the run still waits for
\* the host, and nothing changes for the run otherwise.
LEMMA FinishIsFleetSettle ==
  ASSUME SafetyInv, NEW j \in Job, Finish(j)
  PROVE  (\E h \in Host : Fleet!Settle(h)) \/ UNCHANGED Fleet!vars
<1> DEFINE g == job[j].host
           list == ListOf(job[j].res)
<1>1. run' = Finished(g, job[j].res) /\ UNCHANGED quitting
  BY DEF Finish
<1>2. CASE run.active /\ g \in run.pending
  <2>1. list \in {"ok", "needsSudo", "failed", "skipped"}
    BY DEF ListOf
  <2>2. run' = Settled({g}, list) /\ {g} \in SUBSET run.pending /\ g \in Host
    BY <1>1, <1>2 DEF Finished, SafetyInv, TypeOK, RunState
  <2> HIDE DEF g, list
  <2>3. \A h \in Host : Verdict(h)' = IF h = g THEN ListVerdict(list) ELSE Verdict(h)
    BY <2>1, <2>2, SettledVerdict DEF SafetyInv
  <2>4. ListVerdict(list) \in Fleet!Final
    BY <2>1 DEF ListVerdict, Fleet!Final
  <2>5. Verdict(g) = "open"
    BY <1>2 DEF Verdict
  <2>6. Fleet!Settle(g)
    BY <1>1, <2>2, <2>3, <2>4, <2>5 DEF Fleet!Settle
  <2> QED
    BY <2>2, <2>6
<1>3. CASE ~(run.active /\ g \in run.pending)
  BY <1>1, <1>3 DEF Finished, Fleet!vars, Verdict
<1> QED
  BY <1>2, <1>3

LEMMA RestartIsFleetRestart ==
  ASSUME Restart
  PROVE  Fleet!Restart
<1>1. /\ run'.pending = {} /\ run'.ok = {} /\ run'.needsSudo = {}
      /\ run'.failed = {} /\ run'.skipped = {} /\ quitting' = FALSE
  BY DEF Restart, NoRun
<1> QED
  BY <1>1 DEF Fleet!Restart, Verdict

\* A step that leaves the run and the life of the core alone shows nothing.
LEMMA RunUntouched ==
  ASSUME UNCHANGED <<run, quitting>>
  PROVE  UNCHANGED Fleet!vars
BY DEF Fleet!vars, Verdict

\* Every step of the scheduler is a step of FleetRun or shows nothing of the run.
LEMMA FleetStep == SafetyInv /\ [Next]_vars => [Fleet!Next]_(Fleet!vars)
<1> SUFFICES ASSUME SafetyInv, [Next]_vars PROVE Fleet!Next \/ UNCHANGED Fleet!vars
  OBVIOUS
<1>1. CASE UNCHANGED <<run, quitting>>
  BY <1>1, RunUntouched
<1>2. CASE \E ids \in SUBSET Host : StartRun(ids)
  BY <1>2, StartIsFleetStart DEF Fleet!Next
<1>3. CASE CancelRun
  BY <1>3, CancelIsFleetCancel DEF Fleet!Next
<1>4. CASE \E j \in Job : Finish(j)
  BY <1>4, FinishIsFleetSettle DEF Fleet!Next
<1>5. CASE Quit
  <2>1. Fleet!Quit
    BY <1>5 DEF Quit, Fleet!Quit, Verdict
  <2> QED
    BY <2>1 DEF Fleet!Next
<1>6. CASE Restart
  BY <1>6, RestartIsFleetRestart DEF Fleet!Next
<1>7. CASE UNCHANGED vars
  BY <1>7, RunUntouched DEF vars
<1>8. CASE \E p \in Proc : CheckStep(p)
  BY <1>8, RunUntouched DEF CheckStep, FindBusy, TakeHost, CollectFails, CollectEnds,
    Record, LeaveHost
<1>9. CASE \E j \in Job : \/ AcquireSlot(j) \/ Abandon(j) \/ DropCancelled(j) \/ DropNotDue(j)
                          \/ StartJob(j) \/ HostNotFound(j)
  BY <1>9, RunUntouched DEF AcquireSlot, Abandon, DropCancelled, DropNotDue, StartJob, HostNotFound
<1>10. CASE \/ \E h \in Host, m \in BOOLEAN : SaveHost(h, m)
            \/ \E i \in Intervals : SetInterval(i)
            \/ \E h \in Host : DeleteHost(h) \/ Forget(h) \/ Elapse(h)
            \/ TickRead \/ TickPlan
            \/ \E r \in Req, h \in Host : RequestCheck(r, h)
  BY <1>10, RunUntouched DEF SaveHost, SetInterval, DeleteHost, Forget, Elapse, TickRead,
    TickPlan, RequestCheck
<1>11. Next => \/ \E ids \in SUBSET Host : StartRun(ids)
               \/ CancelRun \/ Quit \/ Restart
               \/ \E j \in Job : Finish(j)
               \/ \E p \in Proc : CheckStep(p)
               \/ \E j \in Job : \/ AcquireSlot(j) \/ Abandon(j) \/ DropCancelled(j)
                                 \/ DropNotDue(j) \/ StartJob(j) \/ HostNotFound(j)
               \/ \E h \in Host, m \in BOOLEAN : SaveHost(h, m)
               \/ \E i \in Intervals : SetInterval(i)
               \/ \E h \in Host : DeleteHost(h) \/ Forget(h) \/ Elapse(h)
               \/ TickRead \/ TickPlan
               \/ \E r \in Req, h \in Host : RequestCheck(r, h)
  BY DEF Next, JobStep, Proc
<1> QED
  BY <1>2, <1>3, <1>4, <1>5, <1>6, <1>7, <1>8, <1>9, <1>10, <1>11

\* The scheduler with its goroutines, slots and cancellations implements a run as its
\* users understand it: every host gets one verdict, which stays until the next run,
\* and no run starts while another waits (startRun, cancelRun, finishRunLocked).
THEOREM ImplementsRun == Spec => Fleet!Spec
<1>1. Init => Fleet!Init
  BY DEF Init, Fleet!Init, NoRun, Verdict
<1> QED
  BY <1>1, FleetStep, Safety, PTL DEF Spec, Fleet!Spec

=============================================================================
