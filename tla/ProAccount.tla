----------------------------- MODULE ProAccount -----------------------------
(***************************************************************************)
(* The Termward Pro account in the window (Pro.tsx, cloudApi, setCloud and *)
(* refreshCloud of store.ts).  The core keeps the account and sends its    *)
(* whole status with every answer and, on a change, as an event; the       *)
(* window shows the status it was given last.  Answers and events travel   *)
(* on connections of their own, so an older status may come after a newer. *)
(***************************************************************************)
EXTENDS Naturals, Sequences

CONSTANTS
  Req,        \* requests under way at a time
  MaxOps,     \* bound: what the user does
  MaxFaults,  \* bound: times the socket breaks, the cloud comes or goes, or a plan runs out
  MaxTold     \* bound: events under way when the account is reloaded

\* What the constants must satisfy.
ProAssumption == MaxOps \in Nat /\ MaxFaults \in Nat /\ MaxTold \in Nat

VARIABLES
  core,       \* the core's status (cloud/service.go)
  paid,       \* what the cloud knows: the plan runs
  stored,     \*   ... and a channel exists
  net,        \* the cloud can be reached
  cloud,      \* the status the window shows
  reqs,       \* the requests under way
  online,     \* the events socket is open
  events,     \* statuses sent and not yet delivered
  ops, faults

proVars == <<core, paid, stored, net, cloud, reqs, online, events, ops, faults>>

Status == [signedIn: BOOLEAN, plan: BOOLEAN, order: {"none", "waiting", "timedOut", "ended"},
           channel: BOOLEAN, fw: BOOLEAN, notice: BOOLEAN]
SignedOut(fw, notice) ==
  [signedIn |-> FALSE, plan |-> FALSE, order |-> "none", channel |-> FALSE,
   fw |-> fw, notice |-> notice]
Nothing == SignedOut(FALSE, FALSE)

Op == {"status", "refresh", "quietRefresh", "signOut", "checkout", "order", "stopWaiting",
       "addChannel", "deleteChannel", "testChannel", "revokeSelf", "revokeOther",
       "forwarding", "dismissNotice"}
\* saved: the forwarding switch asked for; back: what the window showed before.
\* granted: the cloud created the order, the core has not stored it yet.
Request == [op: Op, pc: {"asked", "granted", "answered", "failed"},
            status: Status, saved: BOOLEAN, back: Status]
Free == [pc |-> "free"]

ProTypeOK ==
  /\ core \in Status /\ cloud \in Status
  /\ paid \in BOOLEAN /\ stored \in BOOLEAN /\ net \in BOOLEAN /\ online \in BOOLEAN
  /\ reqs \in [Req -> Request \cup {Free}]
  /\ events \in Seq(Status)
  /\ ops \in 0 .. MaxOps /\ faults \in 0 .. MaxFaults

ProInit ==
  /\ paid \in BOOLEAN /\ stored = FALSE
  /\ core = [SignedOut(FALSE, FALSE) EXCEPT !.signedIn = TRUE, !.plan = paid]
  /\ cloud = core
  /\ net = TRUE /\ online = TRUE
  /\ reqs = [r \in Req |-> Free] /\ events = <<>>
  /\ ops = 0 /\ faults = 0

-----------------------------------------------------------------------------
(* The user, by what the window shows.  A section's own button is disabled   *)
(* while its request runs.                                                   *)

Busy(op) == \E r \in Req : reqs[r] # Free /\ reqs[r].op \in op
Ask(r, op, saved, back) ==
  /\ reqs[r] = Free
  /\ reqs' = [reqs EXCEPT ![r] = [op |-> op, pc |-> "asked", status |-> Nothing,
                                  saved |-> saved, back |-> back]]
UserAsks(r, op) ==
  /\ ops < MaxOps /\ ops' = ops + 1
  /\ Ask(r, op, FALSE, Nothing)
  /\ UNCHANGED <<core, paid, stored, net, cloud, online, events, faults>>

\* One flag for the button in the callout, quiet, and the one below (Account).
RefreshAccount(r) ==
  /\ cloud.signedIn /\ ~Busy({"refresh", "quietRefresh"})
  /\ \E op \in {"refresh", "quietRefresh"} : UserAsks(r, op)

\* Confirmed in a dialog, as are the removals below.
SignOut(r) == cloud.signedIn /\ UserAsks(r, "signOut")

\* The packs are disabled while an order is waited for (Plan).
Buy(r) == cloud.signedIn /\ cloud.order # "waiting" /\ ~Busy({"checkout"}) /\ UserAsks(r, "checkout")

\* "Check now" and "Dismiss" or "Stop waiting" (OrderBanner).
Open == {"waiting", "timedOut"}
CheckOrder(r) == cloud.signedIn /\ cloud.order \in Open /\ ~Busy({"order"}) /\ UserAsks(r, "order")
StopWaiting(r) == cloud.signedIn /\ cloud.order # "none" /\ UserAsks(r, "stopWaiting")

AddChannel(r) ==
  /\ cloud.signedIn /\ cloud.plan /\ ~Busy({"addChannel"})
  /\ UserAsks(r, "addChannel")
TestChannel(r) ==
  /\ cloud.signedIn /\ cloud.channel /\ cloud.plan /\ ~Busy({"testChannel"})
  /\ UserAsks(r, "testChannel")
DeleteChannel(r) == cloud.signedIn /\ cloud.channel /\ UserAsks(r, "deleteChannel")

RevokeDevice(r) ==
  /\ cloud.signedIn
  /\ \E op \in {"revokeSelf", "revokeOther"} : UserAsks(r, op)

\* Shown at once; the switches are never disabled (Forwarding).
SaveForwarding(r) ==
  /\ cloud.signedIn
  /\ ops < MaxOps /\ ops' = ops + 1
  /\ Ask(r, "forwarding", ~cloud.fw, cloud)
  /\ cloud' = [cloud EXCEPT !.fw = ~@]
  /\ UNCHANGED <<core, paid, stored, net, online, events, faults>>

DismissNotice(r) == cloud.notice /\ UserAsks(r, "dismissNotice")

-----------------------------------------------------------------------------
(* The core.  A change, the event that tells of it and the reading of the    *)
(* answer's status are one step; both then travel on their own.  A checkout  *)
(* takes two: whoever is signed in by then, it stores the order it was given. *)

\* The core's status after GET /v1/me.
Refreshed(s) ==
  IF s.signedIn /\ net THEN [s EXCEPT !.plan = paid', !.channel = stored'] ELSE s

\* notify: only a window that is connected hears of it.
Tell(status) == events' = IF online THEN Append(events, status) ELSE events

\* Needs the cloud, and a device that is signed in.
Signed(op) ==
  op \in {"refresh", "quietRefresh", "checkout", "order", "addChannel", "deleteChannel",
          "testChannel", "revokeSelf", "revokeOther"}
Refuses(op) == Signed(op) /\ ~(net /\ core.signedIn)

\* What the cloud may say of an order.
Found == {"pending", "paid", "cancelled"}
\* applyOrder: the core takes it over with the plan that comes along, and reloads the
\* account once it is paid.
Applied(found) ==
  LET s == [core EXCEPT !.plan = paid',
                        !.order = IF @ \in Open /\ found # "pending" THEN "ended" ELSE @]
  IN  CASE core.order = "none" -> core
        [] core.order \in Open /\ found = "paid" -> Refreshed(s)
        [] OTHER -> s

\* What an operation makes of the core's status.
Result(op, saved, found) ==
  CASE op \in {"signOut", "revokeSelf"} ->
         IF core.signedIn THEN SignedOut(core.fw, FALSE) ELSE core
    [] op = "order" -> Applied(found)
    [] op = "stopWaiting" -> [core EXCEPT !.order = "none"]
    [] op = "forwarding" -> [core EXCEPT !.fw = saved]
    [] op = "dismissNotice" -> [core EXCEPT !.notice = FALSE]
    [] op = "status" -> core
    [] OTHER -> Refreshed(core)

\* status and dismissNotice tell nobody, nor does a sign-out that finds nobody in or
\* the answer about an order that was forgotten.
Announced(op) ==
  /\ op \notin {"status", "dismissNotice"}
  /\ op = "signOut" => core.signedIn
  /\ op = "order" => core.order # "none"

\* The answers about an order and a test carry none.
CarriesStatus(op) == op \notin {"order", "testChannel"}

\* Creating a channel needs a plan, by the cloud's account of it.
Unpaid(op) == op = "addChannel" /\ ~paid

Handle(r) ==
  LET q == reqs[r] IN
  /\ q # Free /\ q.pc = "asked" /\ ~Refuses(q.op) /\ ~Unpaid(q.op) /\ q.op # "checkout"
  /\ stored' = CASE q.op = "addChannel" -> TRUE [] q.op = "deleteChannel" -> FALSE [] OTHER -> stored
  /\ \E found \in (IF q.op = "order" THEN Found ELSE {"pending"}) :
       /\ paid' = (paid \/ found = "paid")
       /\ core' = Result(q.op, q.saved, found)
  /\ IF Announced(q.op) THEN Tell(core') ELSE UNCHANGED events
  /\ reqs' = [reqs EXCEPT ![r].pc = "answered",
                          ![r].status = IF CarriesStatus(q.op) THEN core' ELSE Nothing]
  /\ UNCHANGED <<net, cloud, online, ops, faults>>

\* The cloud's answer to a checkout is back in the core.
Granted(r) ==
  LET q == reqs[r] IN
  /\ q # Free /\ q.pc = "asked" /\ ~Refuses(q.op) /\ q.op = "checkout"
  /\ reqs' = [reqs EXCEPT ![r].pc = "granted"]
  /\ UNCHANGED <<core, paid, stored, net, cloud, online, events, ops, faults>>

\* The order is stored, also on an account that was signed out meanwhile.
StoreOrder(r) ==
  /\ reqs[r] # Free /\ reqs[r].pc = "granted"
  /\ core' = [core EXCEPT !.order = "waiting"]
  /\ Tell(core')
  /\ reqs' = [reqs EXCEPT ![r].pc = "answered", ![r].status = core']
  /\ UNCHANGED <<paid, stored, net, cloud, online, ops, faults>>

Fails(r) ==
  /\ reqs' = [reqs EXCEPT ![r].pc = "failed", ![r].status = Nothing]
  /\ UNCHANGED <<core, paid, stored, net, cloud, online, events, ops>>

\* Refused by the cloud, or not signed in.
Refuse(r) ==
  /\ reqs[r] # Free /\ reqs[r].pc = "asked" /\ Refuses(reqs[r].op)
  /\ Fails(r)
  /\ UNCHANGED faults

\* react to 402: the plan is over; the window is told, and the request fails.
PaymentRequired(r) ==
  /\ reqs[r] # Free /\ reqs[r].pc = "asked" /\ ~Refuses(reqs[r].op) /\ Unpaid(reqs[r].op)
  /\ core' = [core EXCEPT !.plan = FALSE]
  /\ Tell(core')
  /\ reqs' = [reqs EXCEPT ![r].pc = "failed", ![r].status = Nothing]
  /\ UNCHANGED <<paid, stored, net, cloud, online, ops, faults>>

\* The request or its answer is lost.
Lose(r) ==
  /\ reqs[r] # Free /\ reqs[r].pc \in {"asked", "answered"}
  /\ faults < MaxFaults /\ faults' = faults + 1
  /\ Fails(r)

\* refreshLoop: the account is reloaded every few hours, and the window told.
PeriodicRefresh ==
  /\ core.signedIn /\ Len(events) <= MaxTold
  /\ UNCHANGED <<paid, stored>>
  /\ core' = Refreshed(core)
  /\ Tell(core')
  /\ UNCHANGED <<net, cloud, reqs, online, ops, faults>>

\* pollOrder: the cloud says how the order ended, or the core stops asking.
OrderEnds ==
  /\ core.order = "waiting" /\ UNCHANGED stored
  /\ \/ \E found \in Found \ {"pending"} :
          net /\ core.signedIn /\ paid' = (paid \/ found = "paid") /\ core' = Applied(found)
     \/ UNCHANGED paid /\ core' = [core EXCEPT !.order = "timedOut"]
  /\ Tell(core')
  /\ UNCHANGED <<net, cloud, reqs, online, ops, faults>>

\* react: the cloud answers that the device was removed.
SignedOutByCloud ==
  /\ core.signedIn /\ net /\ faults < MaxFaults /\ faults' = faults + 1
  /\ core' = SignedOut(core.fw, TRUE)
  /\ Tell(core')
  /\ UNCHANGED <<paid, stored, net, cloud, reqs, online, ops>>

\* The time paid for is over.
PlanRunsOut ==
  /\ paid /\ paid' = FALSE
  /\ faults < MaxFaults /\ faults' = faults + 1
  /\ UNCHANGED <<core, stored, net, cloud, reqs, online, events, ops>>

CloudComesAndGoes ==
  /\ faults < MaxFaults /\ faults' = faults + 1
  /\ net' = ~net
  /\ UNCHANGED <<core, paid, stored, cloud, reqs, online, events, ops>>

-----------------------------------------------------------------------------
(* What the window makes of answers and events. *)

\* The answer's status is shown, whatever is shown by then.
Answered(r) ==
  LET q == reqs[r] IN
  /\ q # Free /\ q.pc = "answered"
  /\ cloud' = IF CarriesStatus(q.op) THEN q.status ELSE cloud
  /\ reqs' = [reqs EXCEPT ![r] = Free]
  /\ UNCHANGED <<core, paid, stored, net, online, events, ops, faults>>

\* A refused switch goes back to all that was shown when it was turned; a quiet
\* refresh asks for the status instead of a toast.
Failed(r) ==
  LET q == reqs[r] IN
  /\ q # Free /\ q.pc = "failed"
  /\ cloud' = IF q.op = "forwarding" THEN q.back ELSE cloud
  /\ reqs' = [reqs EXCEPT ![r] =
                IF q.op = "quietRefresh"
                THEN [@ EXCEPT !.op = "status", !.pc = "asked"] ELSE Free]
  /\ UNCHANGED <<core, paid, stored, net, online, events, ops, faults>>

\* Mutated form of OnCloudEvent: read and dropped.
OnCloudEventDropped ==
  /\ events # <<>> /\ events' = Tail(events)
  /\ UNCHANGED <<core, paid, stored, net, cloud, reqs, online, ops, faults>>

OnCloudEvent ==
  /\ events # <<>>
  /\ cloud' = Head(events) /\ events' = Tail(events)
  /\ UNCHANGED <<core, paid, stored, net, reqs, online, ops, faults>>

\* What was on its way is lost.
SocketBreaks ==
  /\ online /\ faults < MaxFaults /\ faults' = faults + 1
  /\ online' = FALSE /\ events' = <<>>
  /\ UNCHANGED <<core, paid, stored, net, cloud, reqs, ops>>

\* subscribeEvents reconnects, and the status is asked for (boot, refreshCloud).
SocketOpens(r) ==
  /\ ~online /\ online' = TRUE
  /\ Ask(r, "status", FALSE, Nothing)
  /\ UNCHANGED <<core, paid, stored, net, cloud, events, ops, faults>>

-----------------------------------------------------------------------------
User(r) ==
  \/ RefreshAccount(r) \/ SignOut(r) \/ Buy(r) \/ CheckOrder(r) \/ StopWaiting(r)
  \/ AddChannel(r) \/ TestChannel(r) \/ DeleteChannel(r) \/ RevokeDevice(r)
  \/ SaveForwarding(r) \/ DismissNotice(r)

Core(r) == Handle(r) \/ Granted(r) \/ StoreOrder(r) \/ Refuse(r) \/ PaymentRequired(r)

ProNext ==
  \/ \E r \in Req :
       \/ User(r)
       \/ Core(r) \/ Lose(r) \/ Answered(r) \/ Failed(r) \/ SocketOpens(r)
  \/ PeriodicRefresh \/ OrderEnds \/ SignedOutByCloud \/ PlanRunsOut \/ CloudComesAndGoes
  \/ OnCloudEvent \/ SocketBreaks

\* The core and the window go on; refreshLoop runs as long as the core does.
ProFairness ==
  /\ \A r \in Req :
       /\ WF_proVars(Core(r))
       /\ WF_proVars(Answered(r) \/ Failed(r))
  /\ WF_proVars(\E r \in Req : SocketOpens(r))
  /\ WF_proVars(PeriodicRefresh) /\ WF_proVars(OnCloudEvent)

Spec == ProInit /\ [][ProNext]_proVars /\ ProFairness

-----------------------------------------------------------------------------
(* Properties. *)

\* Whatever order answers and events come in, a window that shows something else than
\* the core's account shows it again before long and keeps showing it, as long as the
\* account stays signed in: refreshLoop tells it anew (setCloud, the "cloud" event).
WindowCatchesUp == []<>(~core.signedIn) \/ <>[](cloud = core)

=============================================================================
