--------------------------- MODULE ExecJobsProofs ---------------------------
(***************************************************************************)
(* Proofs about ExecJobs, for any jobs, hosts and size of the hub's        *)
(* channel: a job shown as done shows the outcome of every host.           *)
(***************************************************************************)
EXTENDS ExecJobs, SequenceTheorems, TLAPS

\* The i-th event on its way is of host h in job j; no event of j comes after it.
Of(s, i, j, h) == s[i].job = j /\ s[i].state # "exec_done" /\ s[i].host = h
NoneOf(s, j) == \A i \in 1 .. Len(s) : s[i].job # j

\* A job is not finished before its hosts are, and not begun before it is asked for.
Begun ==
  \A j \in Job :
    /\ jobReq[j] = "none" => NoneOf(wire, j) /\ \A h \in ExecHost : progress[j][h] = "none"
    /\ j \in finished => \A h \in ExecHost : progress[j][h] \in Final

\* What the window has of a job it was told all about, with what is still on its way,
\* is what the core knows.
Follows(j) ==
  /\ \A i \in 1 .. Len(wire) :
       wire[i].job = j /\ wire[i].state = "exec_done" =>
         j \in finished /\ \A k \in 1 .. Len(wire) : k > i => wire[k].job # j
  /\ \A h \in ExecHost : \A i \in 1 .. Len(wire) :
       Of(wire, i, j, h) /\ (\A k \in 1 .. Len(wire) : k > i => ~Of(wire, k, j, h)) =>
         wire[i].state = progress[j][h]
  /\ \A h \in ExecHost :
       progress[j][h] \notin {"none", "waiting"} /\ (\A i \in 1 .. Len(wire) : ~Of(wire, i, j, h)) =>
         jobs[j].results[h] = progress[j][h]
  /\ jobs[j].done => j \in finished /\ NoneOf(wire, j)

Told(j) == jobReq[j] # "refused" /\ j \notin missed
ExecInv == ExecTypeOK /\ Begun /\ \A j \in Job : Told(j) => Follows(j)

AnyEvent == ExecEvent \cup DoneEvent

LEMMA Events ==
  /\ \A e \in AnyEvent : e.job \in Job /\ (e.state # "exec_done" => e \in ExecEvent /\ e.host \in ExecHost)
  /\ \A j \in Job, h \in ExecHost : \A s \in {"running", "done", "error"} :
       [job |-> j, host |-> h, state |-> s] \in AnyEvent
  /\ \A j \in Job : [job |-> j, state |-> "exec_done"] \in AnyEvent
BY DEF AnyEvent, ExecEvent, DoneEvent

LEMMA AppendFacts ==
  ASSUME NEW s \in Seq(AnyEvent), NEW e \in AnyEvent
  PROVE  /\ Append(s, e) \in Seq(AnyEvent) /\ Len(Append(s, e)) = Len(s) + 1
         /\ Len(s) \in Nat
         /\ \A i \in 1 .. Len(s) : Append(s, e)[i] = s[i]
         /\ Append(s, e)[Len(s) + 1] = e
OBVIOUS

LEMMA TailFacts ==
  ASSUME NEW s \in Seq(AnyEvent), s # <<>>
  PROVE  /\ Tail(s) \in Seq(AnyEvent) /\ Len(Tail(s)) = Len(s) - 1 /\ Len(s) \in Nat \ {0}
         /\ \A i \in 1 .. Len(Tail(s)) : Tail(s)[i] = s[i + 1]
         /\ Head(s) = s[1] /\ Head(s) \in AnyEvent
OBVIOUS

\* DoneShowsAll follows: nothing of a job shown as done is on its way any more.
LEMMA DoneFollows == ExecInv => DoneShowsAll
<1> SUFFICES ASSUME ExecInv, NEW j \in Job, jobs[j].done, Told(j), NEW h \in ExecHost
             PROVE  jobs[j].results[h] \in Final
  BY DEF DoneShowsAll, Told
<1>1. Follows(j)
  BY DEF ExecInv
<1>2. j \in finished /\ NoneOf(wire, j)
  BY <1>1 DEF Follows
<1>3. progress[j][h] \in Final
  BY <1>2 DEF ExecInv, Begun
<1>4. jobs[j].results[h] = progress[j][h]
  BY <1>1, <1>2, <1>3 DEF Follows, NoneOf, Of, Final
<1> QED
  BY <1>3, <1>4

-----------------------------------------------------------------------------

LEMMA InitExecInv == ASSUME ExecAssumption, ExecInit PROVE ExecInv
<1>1. ExecTypeOK
  BY DEF ExecAssumption, ExecInit, ExecTypeOK, State, FreshJob
<1>2. Len(wire) = 0
  BY DEF ExecInit
<1> QED
  BY <1>1, <1>2 DEF ExecInit, ExecInv, Begun, NoneOf, Follows, FreshJob

\* A step of the core in job j that publishes e: e is the last event of its host, or of
\* the job.
LEMMA PublishInv ==
  ASSUME ExecAssumption, ExecInv, NEW j \in Job, NEW e \in AnyEvent, e.job = j, Publish(e),
         j \notin finished, jobReq[j] # "none",
         progress' \in [Job -> [ExecHost -> State]], finished' \subseteq Job,
         \A i \in Job \ {j} : progress'[i] = progress[i] /\ (i \in finished' <=> i \in finished),
         j \in finished' => \A h \in ExecHost : progress'[j][h] \in Final,
         e.state = "exec_done" => j \in finished' /\ progress' = progress,
         e.state # "exec_done" =>
           /\ finished' = finished
           /\ e.state = progress'[j][e.host]
           /\ \A h \in ExecHost \ {e.host} : progress'[j][h] = progress[j][h],
         UNCHANGED <<jobReq, wireUp, jobs, lastJob>>
  PROVE  ExecInv'
<1>1. wire \in Seq(AnyEvent)
  BY DEF ExecInv, ExecTypeOK, AnyEvent
<1>2. wire' \in Seq(AnyEvent) /\ Len(wire') <= MaxQueue /\ missed' \subseteq Job
  <2>1. CASE wireUp /\ Len(wire) < MaxQueue
    <3>1. wire' = Append(wire, e) /\ missed' = missed
      BY <2>1 DEF Publish
    <3> QED
      BY <1>1, <2>1, <3>1, AppendFacts DEF ExecInv, ExecTypeOK, ExecAssumption
  <2>2. CASE ~(wireUp /\ Len(wire) < MaxQueue)
    <3>1. wire' = wire /\ missed' = missed \cup {j}
      BY <2>2 DEF Publish
    <3> QED
      BY <1>1, <3>1 DEF ExecInv, ExecTypeOK
  <2> QED
    BY <2>1, <2>2
<1>3. ExecTypeOK'
  BY <1>2 DEF ExecInv, ExecTypeOK, AnyEvent
<1>4. CASE wireUp /\ Len(wire) < MaxQueue
  <2>1. wire' = Append(wire, e) /\ missed' = missed
    BY <1>4 DEF Publish
  <2>2. /\ Len(wire') = Len(wire) + 1 /\ Len(wire) \in Nat
        /\ \A i \in 1 .. Len(wire') : wire'[i] = IF i = Len(wire') THEN e ELSE wire[i]
    BY <1>1, <2>1, AppendFacts
  <2>3. Begun'
    BY <2>2 DEF ExecInv, Begun, NoneOf
  <2>4. ASSUME NEW i \in Job, Told(i)'
        PROVE  Follows(i)'
    <3>1. Told(i) /\ Follows(i)
      BY <2>1, <2>4 DEF Told, ExecInv
    <3>2. CASE i # j
      <4>1. \A k \in 1 .. Len(wire') : wire'[k].job = i => k \in 1 .. Len(wire) /\ wire'[k] = wire[k]
        BY <2>2, <3>2
      <4>2. \A k \in 1 .. Len(wire) : k \in 1 .. Len(wire') /\ wire'[k] = wire[k]
        BY <2>2
      <4>3. progress'[i] = progress[i] /\ (i \in finished' <=> i \in finished) /\ jobs' = jobs
        BY <3>2
      <4>4. \A k \in 1 .. Len(wire'), h \in ExecHost :
              Of(wire', k, i, h) => k \in 1 .. Len(wire) /\ Of(wire, k, i, h)
        BY <4>1 DEF Of
      <4>5. \A k \in 1 .. Len(wire), h \in ExecHost : Of(wire, k, i, h) => Of(wire', k, i, h)
        BY <4>2 DEF Of
      <4>6. ASSUME NEW k \in 1 .. Len(wire'), wire'[k].job = i, wire'[k].state = "exec_done"
            PROVE  i \in finished' /\ \A m \in 1 .. Len(wire') : m > k => wire'[m].job # i
        BY <3>1, <4>1, <4>3, <4>6 DEF Follows
      <4>7. ASSUME NEW h \in ExecHost, NEW k \in 1 .. Len(wire'), Of(wire', k, i, h),
                   \A m \in 1 .. Len(wire') : m > k => ~Of(wire', m, i, h)
            PROVE  wire'[k].state = progress'[i][h]
        BY <3>1, <4>1, <4>2, <4>3, <4>4, <4>5, <4>7 DEF Follows
      <4>8. ASSUME NEW h \in ExecHost, progress'[i][h] \notin {"none", "waiting"},
                   \A k \in 1 .. Len(wire') : ~Of(wire', k, i, h)
            PROVE  jobs'[i].results[h] = progress'[i][h]
        BY <3>1, <4>2, <4>3, <4>5, <4>8 DEF Follows
      <4>9. jobs'[i].done => i \in finished' /\ NoneOf(wire', i)
        BY <3>1, <4>1, <4>3 DEF Follows, NoneOf
      <4> QED
        BY <4>6, <4>7, <4>8, <4>9 DEF Follows
    <3>3. CASE i = j
      <4>1. \A k \in 1 .. Len(wire) : wire[k].job = j => wire[k].state # "exec_done"
        BY <3>1, <3>3 DEF Follows
      <4>2. ~jobs[j].done
        BY <3>1, <3>3 DEF Follows
      <4>3. CASE e.state = "exec_done"
        BY <2>2, <3>1, <3>3, <4>1, <4>2, <4>3 DEF Follows, NoneOf, Of
      <4>4. CASE e.state # "exec_done"
        <5>1. Of(wire', Len(wire'), j, e.host) /\ e.host \in ExecHost
          <6>1. wire'[Len(wire')] = e
            BY <2>2
          <6> QED
            BY <4>4, <6>1, Events DEF Of
        <5>2. \A k \in 1 .. Len(wire') : wire'[k].job = j => wire'[k].state # "exec_done"
          BY <2>2, <4>1, <4>4
        <5>3. ASSUME NEW h \in ExecHost, NEW k \in 1 .. Len(wire'), Of(wire', k, j, h),
                     \A m \in 1 .. Len(wire') : m > k => ~Of(wire', m, j, h)
              PROVE  wire'[k].state = progress'[j][h]
          <6>1. CASE k = Len(wire')
            BY <2>2, <4>4, <5>3, <6>1 DEF Of
          <6>2. CASE k # Len(wire')
            <7>1. h # e.host
              BY <2>2, <5>1, <5>3, <6>2
            <7>2. k \in 1 .. Len(wire) /\ Of(wire, k, j, h) /\ wire'[k] = wire[k]
              BY <2>2, <5>3, <6>2 DEF Of
            <7>3. \A m \in 1 .. Len(wire) : m > k => ~Of(wire, m, j, h)
              BY <2>2, <5>3 DEF Of
            <7> QED
              BY <3>1, <3>3, <4>4, <7>1, <7>2, <7>3 DEF Follows
          <6> QED
            BY <6>1, <6>2
        <5>4. ASSUME NEW h \in ExecHost, progress'[j][h] \notin {"none", "waiting"},
                     \A k \in 1 .. Len(wire') : ~Of(wire', k, j, h)
              PROVE  jobs'[j].results[h] = progress'[j][h]
          <6>1. h # e.host
            BY <2>2, <5>1, <5>4
          <6>2. \A k \in 1 .. Len(wire) : ~Of(wire, k, j, h)
            BY <2>2, <5>4 DEF Of
          <6> QED
            BY <3>1, <3>3, <4>4, <5>4, <6>1, <6>2 DEF Follows
        <5> QED
          BY <3>3, <4>2, <5>2, <5>3, <5>4 DEF Follows
      <4> QED
        BY <4>3, <4>4
    <3> QED
      BY <3>2, <3>3
  <2> QED
    BY <1>3, <2>3, <2>4 DEF ExecInv
<1>5. CASE ~(wireUp /\ Len(wire) < MaxQueue)
  <2>1. wire' = wire /\ missed' = missed \cup {j}
    BY <1>5 DEF Publish
  <2>2. Begun'
    BY <2>1 DEF ExecInv, Begun
  <2>3. ASSUME NEW i \in Job, Told(i)'
        PROVE  Follows(i)'
    BY <2>1, <2>3 DEF ExecInv, Told, Follows
  <2> QED
    BY <1>3, <2>2, <2>3 DEF ExecInv
<1> QED
  BY <1>4, <1>5

LEMMA HostInv ==
  ASSUME ExecAssumption, ExecInv, NEW j \in Job, NEW h \in ExecHost, HostRuns(j, h) \/ HostEnds(j, h)
  PROVE  ExecInv'
<1>1. PICK s \in {"running", "done", "error"} :
        /\ progress' = [progress EXCEPT ![j][h] = s]
        /\ Publish([job |-> j, host |-> h, state |-> s])
  BY DEF HostRuns, HostEnds, Final
<1>2. progress \in [Job -> [ExecHost -> State]] /\ progress[j][h] \in {"waiting", "running"}
  BY DEF HostRuns, HostEnds, ExecInv, ExecTypeOK
<1> DEFINE e == [job |-> j, host |-> h, state |-> s]
<1>3. e \in AnyEvent /\ e.job = j /\ e.host = h /\ e.state = s
  BY Events
<1>4. j \notin finished /\ jobReq[j] # "none"
  BY <1>2 DEF ExecInv, Begun, Final
<1>5. progress' \in [Job -> [ExecHost -> State]] /\ progress'[j][h] = s
  BY <1>1, <1>2 DEF State
<1>6. /\ \A i \in Job \ {j} : progress'[i] = progress[i]
      /\ \A g \in ExecHost \ {h} : progress'[j][g] = progress[j][g]
  BY <1>1, <1>2
<1>7. finished' = finished /\ finished \subseteq Job /\ UNCHANGED <<jobReq, wireUp, jobs, lastJob>>
  BY DEF HostRuns, HostEnds, ExecInv, ExecTypeOK
<1> HIDE DEF e
<1>8. Publish(e)
  BY <1>1 DEF e
<1> QED
  BY <1>3, <1>4, <1>5, <1>6, <1>7, <1>8, PublishInv

LEMMA FinishInv ==
  ASSUME ExecAssumption, ExecInv, NEW j \in Job, JobFinishes(j)
  PROVE  ExecInv'
<1> DEFINE e == [job |-> j, state |-> "exec_done"]
<1>1. e \in AnyEvent /\ e.job = j /\ e.state = "exec_done" /\ Publish(e)
  BY Events DEF JobFinishes
<1>2. /\ j \notin finished /\ finished' = finished \cup {j}
      /\ UNCHANGED <<jobReq, progress, wireUp, jobs, lastJob>>
      /\ \A h \in ExecHost : progress[j][h] \in Final
  BY DEF JobFinishes
<1>3. jobReq[j] # "none"
  BY <1>2 DEF ExecInv, Begun, ExecAssumption, Final
<1> HIDE DEF e
<1> QED
  BY <1>1, <1>2, <1>3, PublishInv DEF ExecInv, ExecTypeOK

\* Requests: of a job that begins, nothing is known yet; of one that is refused, no more
\* is promised.
LEMMA RequestInv ==
  ASSUME ExecAssumption, ExecInv, NEW j \in Job,
         RunExec(j) \/ StartExec(j) \/ Accepted(j) \/ ExecRefused(j)
  PROVE  ExecInv'
<1>1. UNCHANGED <<finished, wire, missed, wireUp>>
  BY DEF RunExec, StartExec, Accepted, ExecRefused
<1>2. CASE RunExec(j)
  <2>1. /\ jobReq[j] = "none" /\ progress' = progress
        /\ jobReq' = [jobReq EXCEPT ![j] = "posted"] /\ jobs' = [jobs EXCEPT ![j] = FreshJob]
    BY <1>2 DEF RunExec
  <2>2. ExecTypeOK'
    BY <1>2, <2>1 DEF RunExec, ExecInv, ExecTypeOK, FreshJob, State
  <2>3. /\ \A i \in Job : jobReq'[i] = "none" => jobReq[i] = "none"
        /\ \A i \in Job \ {j} : jobReq'[i] = jobReq[i] /\ jobs'[i] = jobs[i]
        /\ jobs'[j].done = FALSE
    BY <2>1 DEF ExecInv, ExecTypeOK, FreshJob
  <2>4. Begun'
    BY <1>1, <2>1, <2>3 DEF ExecInv, Begun, NoneOf
  <2>5. NoneOf(wire, j) /\ \A h \in ExecHost : progress[j][h] = "none"
    BY <2>1 DEF ExecInv, Begun
  <2>6. Follows(j)'
    BY <1>1, <2>1, <2>3, <2>5 DEF Follows, NoneOf, Of
  <2>7. \A i \in Job \ {j} : Told(i)' => Follows(i)'
    BY <1>1, <2>1, <2>3 DEF ExecInv, Told, Follows, NoneOf, Of
  <2> QED
    BY <2>2, <2>4, <2>6, <2>7 DEF ExecInv
<1>3. CASE StartExec(j)
  <2>1. /\ jobReq[j] = "posted" /\ progress' = [progress EXCEPT ![j] = [h \in ExecHost |-> "waiting"]]
        /\ \A h \in ExecHost : progress[j][h] = "none"
        /\ UNCHANGED <<jobReq, jobs>>
    BY <1>3 DEF StartExec, Started, ExecInv, ExecTypeOK
  <2>2. ExecTypeOK'
    BY <1>3, <2>1 DEF StartExec, ExecInv, ExecTypeOK, State
  <2>3. /\ \A i \in Job \ {j} : progress'[i] = progress[i]
        /\ \A h \in ExecHost : progress'[j][h] = "waiting"
    BY <2>1 DEF ExecInv, ExecTypeOK
  <2>4. j \notin finished
    BY <2>1 DEF ExecInv, Begun, ExecAssumption, Final
  <2>5. Begun'
    BY <1>1, <2>1, <2>3, <2>4 DEF ExecInv, Begun, NoneOf
  <2>6. ASSUME Told(j)' PROVE Follows(j)'
    <3>1. Follows(j)
      BY <1>1, <2>1, <2>6 DEF ExecInv, Told
    <3>2. ASSUME NEW h \in ExecHost, NEW i \in 1 .. Len(wire), Of(wire, i, j, h),
                 \A k \in 1 .. Len(wire) : k > i => ~Of(wire, k, j, h)
          PROVE  FALSE
      <4>1. wire[i].state = "none"
        BY <2>1, <3>1, <3>2 DEF Follows
      <4>2. wire[i] \in AnyEvent /\ wire[i].state # "exec_done"
        BY <3>2 DEF ExecInv, ExecTypeOK, AnyEvent, Of
      <4> QED
        BY <4>1, <4>2, Events DEF ExecEvent
    <3>3. /\ \A i \in 1 .. Len(wire) : ~(wire[i].job = j /\ wire[i].state = "exec_done")
          /\ ~jobs[j].done
      BY <2>4, <3>1 DEF Follows
    <3>4. wire' = wire /\ jobs' = jobs
      BY <1>1, <2>1
    <3> QED
      BY <2>3, <3>2, <3>3, <3>4 DEF Follows, Of
  <2>7. \A i \in Job \ {j} : Told(i)' => Follows(i)'
    BY <1>1, <2>1, <2>3 DEF ExecInv, Told, Follows, NoneOf, Of
  <2> QED
    BY <2>2, <2>5, <2>6, <2>7 DEF ExecInv
<1>4. CASE Accepted(j) \/ ExecRefused(j)
  <2>1. PICK r \in {"accepted", "refused"} :
          /\ jobReq[j] = "posted" /\ jobReq' = [jobReq EXCEPT ![j] = r]
          /\ r = "refused" \/ jobs' = jobs
    BY <1>4 DEF Accepted, ExecRefused
  <2>2. /\ progress' = progress /\ lastJob' = lastJob
        /\ jobs' \in [Job -> [results: [ExecHost -> State], done: BOOLEAN]]
        /\ \A i \in Job \ {j} : jobs'[i] = jobs[i]
    <3> DEFINE Dropped == [FreshJob EXCEPT !.done = TRUE]
    <3>1. Dropped \in [results: [ExecHost -> State], done: BOOLEAN]
      BY DEF FreshJob, State
    <3>2. jobs' = jobs \/ jobs' = [jobs EXCEPT ![j] = Dropped]
      BY <1>4 DEF Accepted, ExecRefused
    <3>3. jobs \in [Job -> [results: [ExecHost -> State], done: BOOLEAN]]
      BY DEF ExecInv, ExecTypeOK
    <3>4. progress' = progress /\ lastJob' = lastJob
      BY <1>4 DEF Accepted, ExecRefused
    <3> HIDE DEF Dropped
    <3> QED
      BY <3>1, <3>2, <3>3, <3>4
  <2>3. /\ jobReq' \in [Job -> {"none", "posted", "accepted", "refused"}] /\ jobReq'[j] = r
        /\ \A i \in Job \ {j} : jobReq'[i] = jobReq[i]
    BY <2>1 DEF ExecInv, ExecTypeOK
  <2>4. ExecTypeOK'
    BY <1>1, <2>2, <2>3 DEF ExecInv, ExecTypeOK
  <2>5. Begun'
    BY <1>1, <2>1, <2>2, <2>3 DEF ExecInv, Begun, NoneOf
  <2>6. \A i \in Job : Told(i)' => Told(i) /\ jobs'[i] = jobs[i]
    BY <1>1, <2>1, <2>2, <2>3 DEF Told
  <2>7. ASSUME NEW i \in Job, Told(i)' PROVE Follows(i)'
    BY <1>1, <2>2, <2>6, <2>7 DEF ExecInv, Follows, NoneOf, Of
  <2> QED
    BY <2>4, <2>5, <2>7 DEF ExecInv
<1> QED
  BY <1>2, <1>3, <1>4

\* The window takes the event at the head: what it tells is what the events behind it,
\* and the core, do not take back.
LEMMA EventInv ==
  ASSUME ExecAssumption, ExecInv, OnExecEvent
  PROVE  ExecInv'
<1> DEFINE e == Head(wire)
<1>1. /\ wire # <<>> /\ wire' = Tail(wire)
      /\ jobs' = IF e.state = "exec_done"
                 THEN [jobs EXCEPT ![e.job].done = TRUE]
                 ELSE [jobs EXCEPT ![e.job].results[e.host] = e.state]
      /\ UNCHANGED <<jobReq, progress, finished, wireUp, lastJob, missed>>
  BY DEF OnExecEvent
<1>2. wire \in Seq(AnyEvent) /\ Len(wire) <= MaxQueue
  BY DEF ExecInv, ExecTypeOK, AnyEvent
<1>3. /\ wire' \in Seq(AnyEvent) /\ Len(wire) \in Nat \ {0} /\ Len(wire') = Len(wire) - 1
      /\ \A i \in 1 .. Len(wire') : wire'[i] = wire[i + 1]
      /\ e = wire[1] /\ e \in AnyEvent
  BY <1>1, <1>2, TailFacts
<1> HIDE DEF e
<1>4. /\ \A k \in 1 .. Len(wire') : k + 1 \in 1 .. Len(wire) /\ wire'[k] = wire[k + 1]
      /\ \A k \in 1 .. Len(wire) : k # 1 => k - 1 \in 1 .. Len(wire') /\ wire'[k - 1] = wire[k]
  BY <1>3
<1>5. jobs \in [Job -> [results: [ExecHost -> State], done: BOOLEAN]]
  BY DEF ExecInv, ExecTypeOK
<1>6. e.job \in Job /\ (e.state # "exec_done" => e.host \in ExecHost /\ e.state \in State)
  BY <1>3, Events DEF ExecEvent, State
<1>7. jobs' \in [Job -> [results: [ExecHost -> State], done: BOOLEAN]]
  BY <1>1, <1>5, <1>6
<1>8. ExecTypeOK'
  <2>1. Len(wire') <= MaxQueue
    BY <1>2, <1>3 DEF ExecAssumption
  <2> QED
    BY <1>1, <1>3, <1>7, <2>1 DEF ExecInv, ExecTypeOK, AnyEvent
<1>9. Begun'
  BY <1>1, <1>4 DEF ExecInv, Begun, NoneOf
<1>10. ASSUME NEW i \in Job, Told(i)' PROVE Follows(i)'
  <2>1. Follows(i)
    BY <1>1, <1>10 DEF ExecInv, Told
  <2>2. ASSUME NEW k \in 1 .. Len(wire'), wire'[k].job = i, wire'[k].state = "exec_done"
        PROVE  i \in finished' /\ \A m \in 1 .. Len(wire') : m > k => wire'[m].job # i
    <3>1. k + 1 \in 1 .. Len(wire) /\ wire[k + 1].job = i /\ wire[k + 1].state = "exec_done"
      BY <1>4, <2>2
    <3>2. i \in finished /\ \A m \in 1 .. Len(wire) : m > k + 1 => wire[m].job # i
      BY <2>1, <3>1 DEF Follows
    <3> QED
      BY <1>1, <1>4, <3>2
  <2>3. ASSUME NEW h \in ExecHost, NEW k \in 1 .. Len(wire'), Of(wire', k, i, h),
               \A m \in 1 .. Len(wire') : m > k => ~Of(wire', m, i, h)
        PROVE  wire'[k].state = progress'[i][h]
    <3>1. k + 1 \in 1 .. Len(wire) /\ Of(wire, k + 1, i, h) /\ wire'[k] = wire[k + 1]
      BY <1>4, <2>3 DEF Of
    <3>2. \A m \in 1 .. Len(wire) : m > k + 1 => ~Of(wire, m, i, h)
      <4>1. ASSUME NEW m \in 1 .. Len(wire), m > k + 1 PROVE ~Of(wire, m, i, h)
        <5>1. m - 1 \in 1 .. Len(wire') /\ m - 1 > k /\ wire'[m - 1] = wire[m]
          BY <1>4, <4>1
        <5> QED
          BY <2>3, <5>1 DEF Of
      <4> QED
        BY <4>1
    <3> QED
      BY <1>1, <2>1, <3>1, <3>2 DEF Follows
  <2>4. ASSUME NEW h \in ExecHost, progress'[i][h] \notin {"none", "waiting"},
               \A k \in 1 .. Len(wire') : ~Of(wire', k, i, h)
        PROVE  jobs'[i].results[h] = progress'[i][h]
    <3>1. \A k \in 1 .. Len(wire) : k # 1 => ~Of(wire, k, i, h)
      BY <1>4, <2>4 DEF Of
    <3>2. CASE Of(wire, 1, i, h)
      <4>1. e.job = i /\ e.host = h /\ e.state # "exec_done"
        BY <1>3, <3>2 DEF Of
      <4>2. e.state = progress[i][h]
        BY <1>3, <2>1, <3>1, <3>2 DEF Follows
      <4>3. jobs'[i].results[h] = e.state
        BY <1>1, <1>5, <1>6, <4>1
      <4> QED
        BY <1>1, <4>2, <4>3
    <3>3. CASE ~Of(wire, 1, i, h)
      <4>1. jobs[i].results[h] = progress[i][h]
        BY <1>1, <2>1, <2>4, <3>1, <3>3 DEF Follows
      <4>2. ~(e.job = i /\ e.host = h) \/ e.state = "exec_done"
        BY <1>3, <3>3 DEF Of
      <4>3. jobs'[i].results[h] = jobs[i].results[h]
        <5>1. CASE e.state = "exec_done"
          BY <1>1, <1>5, <1>6, <5>1
        <5>2. CASE e.state # "exec_done"
          BY <1>1, <1>5, <1>6, <4>2, <5>2
        <5> QED
          BY <5>1, <5>2
      <4> QED
        BY <1>1, <4>1, <4>3
    <3> QED
      BY <3>2, <3>3
  <2>5. ASSUME jobs'[i].done PROVE i \in finished' /\ NoneOf(wire', i)
    <3>1. CASE jobs[i].done
      BY <1>1, <1>4, <2>1, <3>1 DEF Follows, NoneOf
    <3>2. CASE ~jobs[i].done
      <4>1. e.state = "exec_done" /\ e.job = i
        BY <1>1, <1>5, <1>6, <2>5, <3>2
      <4>2. i \in finished /\ \A m \in 1 .. Len(wire) : m > 1 => wire[m].job # i
        BY <1>3, <2>1, <4>1 DEF Follows
      <4> QED
        BY <1>1, <1>4, <4>2 DEF NoneOf
    <3> QED
      BY <3>1, <3>2
  <2> QED
    BY <2>2, <2>3, <2>4, <2>5 DEF Follows
<1> QED
  BY <1>8, <1>9, <1>10 DEF ExecInv

\* The socket: nothing is promised of a job whose events were on their way.
LEMMA WireInv ==
  ASSUME ExecAssumption, ExecInv, WireBreaks \/ WireConnects
  PROVE  ExecInv'
<1>1. CASE WireBreaks
  <2>1. /\ wire' = <<>> /\ wireUp' = FALSE
        /\ missed' = missed \cup {wire[i].job : i \in 1 .. Len(wire)}
        /\ UNCHANGED <<jobReq, progress, finished, jobs, lastJob>>
    BY <1>1 DEF WireBreaks
  <2>2. wire \in Seq(AnyEvent)
    BY DEF ExecInv, ExecTypeOK, AnyEvent
  <2>3. missed' \subseteq Job
    BY <2>1, <2>2, Events DEF ExecInv, ExecTypeOK
  <2>4. wire' \in Seq(AnyEvent) /\ Len(wire') = 0
    BY <2>1
  <2>5. ExecTypeOK'
    <3>1. Len(wire') <= MaxQueue
      BY <2>4 DEF ExecAssumption
    <3>2. wireUp' \in BOOLEAN
      BY <2>1
    <3> QED
      BY <2>1, <2>3, <2>4, <3>1, <3>2 DEF ExecInv, ExecTypeOK, AnyEvent
  <2>6. Begun'
    BY <2>1, <2>4 DEF ExecInv, Begun, NoneOf
  <2>7. ASSUME NEW j \in Job, Told(j)' PROVE Follows(j)'
    <3>1. NoneOf(wire, j) /\ Told(j)
      BY <2>1, <2>7 DEF Told, NoneOf
    <3> QED
      BY <2>1, <2>4, <3>1 DEF ExecInv, Follows, NoneOf, Of
  <2> QED
    BY <2>5, <2>6, <2>7 DEF ExecInv
<1>2. CASE WireConnects
  BY <1>2 DEF WireConnects, ExecInv, ExecTypeOK, Begun, NoneOf, Told, Follows, Of
<1> QED
  BY <1>1, <1>2

LEMMA NextExecInv == ASSUME ExecAssumption, ExecInv, [ExecNext]_execVars PROVE ExecInv'
<1>1. ASSUME NEW j \in Job, RunExec(j) \/ StartExec(j) \/ Accepted(j) \/ ExecRefused(j)
      PROVE  ExecInv'
  BY <1>1, RequestInv
<1>2. ASSUME NEW j \in Job, JobFinishes(j) PROVE ExecInv'
  BY <1>2, FinishInv
<1>3. ASSUME NEW j \in Job, NEW h \in ExecHost, HostRuns(j, h) \/ HostEnds(j, h)
      PROVE  ExecInv'
  BY <1>3, HostInv
<1>4. CASE OnExecEvent
  BY <1>4, EventInv
<1>5. CASE WireBreaks \/ WireConnects
  BY <1>5, WireInv
<1>6. CASE UNCHANGED execVars
  BY <1>6 DEF execVars, ExecInv, ExecTypeOK, Begun, NoneOf, Told, Follows, Of
<1> QED
  BY <1>1, <1>2, <1>3, <1>4, <1>5, <1>6 DEF ExecNext

\* The inductive invariant of the window's jobs and the core's.
THEOREM ExecSafe == ASSUME ExecAssumption PROVE ExecSpec => []ExecInv
<1>1. ExecInit => ExecInv
  BY InitExecInv
<1>2. ExecInv /\ [ExecNext]_execVars => ExecInv'
  BY NextExecInv
<1> QED
  BY <1>1, <1>2, PTL DEF ExecSpec

\* For any hosts and any place in the hub's channel: a job shown as done shows the
\* outcome of every host (startExec, Hub.Publish, onEvent).
THEOREM DoneShowsOutcomes == ASSUME ExecAssumption PROVE ExecSpec => []DoneShowsAll
<1>1. ExecInv => DoneShowsAll
  BY DoneFollows
<1> QED
  BY <1>1, ExecSafe, PTL

=============================================================================
