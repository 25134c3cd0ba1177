------------------------------- MODULE HwSync ------------------------------
(***************************************************************************)
(* What a window shows of the hardware checks of one host: the spinner and *)
(* the "Run check" button it disables (store.ts, startHardwareCheck,       *)
(* onEvent, refreshHwFleet and syncHwRunning).  The window hears of checks *)
(* three ways that are not ordered among each other: the answers to its    *)
(* own requests, events over a WebSocket that may be down, and snapshots   *)
(* of the fleet it asks for.  The core is module HwScheduler's, reduced to *)
(* one host: one check at a time, start, progress and done published.      *)
(***************************************************************************)
EXTENDS Naturals, Sequences

CONSTANTS
  HwCall,       \* calls of startHardwareCheck
  Snapshot,     \* bound: requests for the fleet under way
  Nobody, Other,\* who runs a check: no one, or the schedule, a run, another window
  MaxEvents,    \* bound: events not yet read by the window
  MaxOther      \* bound: checks started elsewhere

\* What the constants must satisfy.
HwSyncAssumption ==
  /\ Nobody \notin HwCall /\ Other \notin HwCall /\ Nobody # Other
  /\ MaxEvents \in Nat /\ MaxOther \in Nat

VARIABLES
  \* the core
  checking,     \* who holds the host (hwBusy)
  finishing,    \* "done" is published, the host not yet released
  others,       \* checks started elsewhere so far
  \* between core and window
  online, events, request, snapshot,
  \* the window
  hwPending,    \* the host is in hwPending
  running,      \* the spinner is shown and the button disabled
  uncovered     \* history: the calls whose spinner the answer to another call took down

hwSyncVars == <<checking, finishing, others, online, events, request, snapshot, hwPending,
                running, uncovered>>

\* Between the request and its answer.
UnderWay(r) == request[r] \in {"posted", "done", "busy", "failed"}

HwTypeOK ==
  /\ checking \in HwCall \cup {Nobody, Other}
  /\ finishing \in BOOLEAN /\ others \in 0 .. MaxOther
  /\ online \in BOOLEAN
  /\ events \in Seq({"start", "progress", "done"})
  /\ request \in [HwCall -> {"idle", "connecting", "posted", "done", "busy", "failed"}]
  /\ snapshot \in [Snapshot -> {"none", "asked", "busy", "free"}]
  /\ hwPending \in BOOLEAN /\ running \in BOOLEAN
  /\ uncovered \subseteq HwCall

\* The page is loaded; its socket is not open yet.
HwInit ==
  /\ checking = Nobody /\ finishing = FALSE /\ others = 0
  /\ online = FALSE /\ events = <<>>
  /\ request = [r \in HwCall |-> "idle"]
  /\ snapshot = [s \in Snapshot |-> "none"]
  /\ hwPending = FALSE /\ running = FALSE /\ uncovered = {}

-----------------------------------------------------------------------------
(* The core (runCheck). *)

\* Events reach a connected window only.
PublishHw(kind) ==
  /\ Len(events) < MaxEvents
  /\ events' = IF online THEN Append(events, kind) ELSE events

\* A request of this window starts a check, or is told that one is running.
TakeRequest(r) ==
  /\ request[r] = "posted" /\ checking # r
  /\ IF checking = Nobody
     THEN /\ checking' = r /\ PublishHw("start")
          /\ UNCHANGED request
     ELSE /\ request' = [request EXCEPT ![r] = "busy"]
          /\ UNCHANGED <<checking, events>>
  /\ UNCHANGED <<finishing, others, online, snapshot, hwPending, running, uncovered>>

StartElsewhere ==
  /\ checking = Nobody /\ others < MaxOther
  /\ checking' = Other /\ others' = others + 1
  /\ PublishHw("start")
  /\ UNCHANGED <<finishing, online, request, snapshot, hwPending, running, uncovered>>

PublishProgress ==
  /\ checking # Nobody /\ ~finishing
  /\ PublishHw("progress")
  /\ UNCHANGED <<checking, finishing, others, online, request, snapshot, hwPending, running, uncovered>>

PublishDone ==
  /\ checking # Nobody /\ ~finishing
  /\ PublishHw("done")
  /\ finishing' = TRUE
  /\ UNCHANGED <<checking, others, online, request, snapshot, hwPending, running, uncovered>>

\* The host is released and, when the check was ours, the request answered.
ReleaseHost ==
  /\ finishing
  /\ checking' = Nobody /\ finishing' = FALSE
  /\ \E answer \in {"done", "failed"} :
       request' = IF checking \in HwCall THEN [request EXCEPT ![checking] = answer] ELSE request
  /\ UNCHANGED <<others, online, events, snapshot, hwPending, running, uncovered>>

\* GET /api/hardware/fleet is answered with the state of that moment.
AnswerSnapshot(s) ==
  /\ snapshot[s] = "asked"
  /\ snapshot' = [snapshot EXCEPT ![s] = IF checking = Nobody THEN "free" ELSE "busy"]
  /\ UNCHANGED <<checking, finishing, others, online, events, request, hwPending, running, uncovered>>

-----------------------------------------------------------------------------
(* The window. *)

\* Asks for the fleet (refreshHwFleet); asks again only while few are under way (bound).
AskSnapshot ==
  \E s \in Snapshot :
    /\ snapshot[s] = "none"
    /\ snapshot' = [snapshot EXCEPT ![s] = "asked"]

\* A button, the palette or a menu; hwPending is looked at before ensureConnected, so a
\* second call can pass while the first connects.
StartHardwareCheck(r) ==
  /\ request[r] = "idle" /\ ~hwPending
  /\ request' = [request EXCEPT ![r] = "connecting"]
  /\ UNCHANGED <<checking, finishing, others, online, events, snapshot, hwPending, running, uncovered>>

Connected(r) ==
  /\ request[r] = "connecting"
  /\ request' = [request EXCEPT ![r] = "posted"]
  /\ hwPending' = TRUE /\ running' = TRUE
  /\ UNCHANGED <<checking, finishing, others, online, events, snapshot, uncovered>>

NotConnected(r) ==
  /\ request[r] = "connecting"
  /\ request' = [request EXCEPT ![r] = "idle"]
  /\ UNCHANGED <<checking, finishing, others, online, events, snapshot, hwPending, running, uncovered>>

\* Mutated form of HwAnswered: after hardware_busy the spinner waits for the other check.
HwAnsweredUnlessBusy(r) ==
  /\ request[r] \in {"done", "busy", "failed"}
  /\ request' = [request EXCEPT ![r] = "idle"]
  /\ running' = (request[r] = "busy") /\ hwPending' = (request[r] = "busy")
  /\ UNCHANGED uncovered
  /\ IF request[r] = "busy" THEN AskSnapshot ELSE UNCHANGED snapshot
  /\ UNCHANGED <<checking, finishing, others, online, events>>

\* The answer: the result, a failure (the sudo dialog may ask for another try), or
\* hardware_busy, which shows the check that runs by asking for the fleet.  It takes
\* down the spinner of another call that is under way as well.
HwAnswered(r) ==
  /\ request[r] \in {"done", "busy", "failed"}
  /\ request' = [request EXCEPT ![r] = "idle"]
  /\ running' = FALSE /\ hwPending' = FALSE
  /\ uncovered' = {q \in HwCall : UnderWay(q)} \ {r}
  /\ IF request[r] = "busy" THEN AskSnapshot ELSE UNCHANGED snapshot
  /\ UNCHANGED <<checking, finishing, others, online, events>>

\* onEvent: hardware_start, hardware_progress, hardware_done.
OnEvent ==
  /\ events # <<>>
  /\ events' = Tail(events)
  /\ running' = CASE Head(events) = "start" -> running \/ ~hwPending
                  [] Head(events) = "progress" -> TRUE
                  [] Head(events) = "done" -> running /\ hwPending
  /\ UNCHANGED <<checking, finishing, others, online, request, snapshot, hwPending, uncovered>>

\* Mutated form of Synced: whatever the window itself has asked for.
SyncedAnyway(state) == state = "busy"
Synced(state) == IF hwPending THEN running ELSE state = "busy"

\* syncHwRunning
ApplySnapshot(s) ==
  /\ snapshot[s] \in {"busy", "free"}
  /\ snapshot' = [snapshot EXCEPT ![s] = "none"]
  /\ running' = Synced(snapshot[s])
  /\ UNCHANGED <<checking, finishing, others, online, events, request, hwPending, uncovered>>

\* The socket breaks: what was on its way is lost.
Disconnect ==
  /\ online
  /\ online' = FALSE /\ events' = <<>>
  /\ UNCHANGED <<checking, finishing, others, request, snapshot, hwPending, running, uncovered>>

\* subscribeEvents connects (again): the window asks for the fleet.
Reconnect ==
  /\ ~online
  /\ online' = TRUE
  /\ AskSnapshot
  /\ UNCHANGED <<checking, finishing, others, events, request, hwPending, running, uncovered>>

\* Saved settings may change when hosts are next checked: the window asks for the fleet.
SettingsSaved ==
  /\ AskSnapshot
  /\ UNCHANGED <<checking, finishing, others, online, events, request, hwPending, running, uncovered>>

-----------------------------------------------------------------------------
HwNext ==
  \/ \E r \in HwCall :
       TakeRequest(r) \/ StartHardwareCheck(r) \/ Connected(r) \/ NotConnected(r) \/ HwAnswered(r)
  \/ \E s \in Snapshot : AnswerSnapshot(s) \/ ApplySnapshot(s)
  \/ StartElsewhere \/ PublishProgress \/ PublishDone \/ ReleaseHost
  \/ OnEvent \/ Disconnect \/ Reconnect \/ SettingsSaved

\* Checks end, requests are answered, events are delivered, the socket reconnects.
\* Strong where a step waits for a place in events or snapshot, which are bounds.
HwFairness ==
  /\ \A r \in HwCall :
       /\ WF_hwSyncVars(TakeRequest(r)) /\ SF_hwSyncVars(HwAnswered(r))
       /\ WF_hwSyncVars(Connected(r) \/ NotConnected(r))
  /\ \A s \in Snapshot : WF_hwSyncVars(AnswerSnapshot(s)) /\ WF_hwSyncVars(ApplySnapshot(s))
  /\ SF_hwSyncVars(PublishDone) /\ WF_hwSyncVars(ReleaseHost)
  /\ WF_hwSyncVars(OnEvent) /\ WF_hwSyncVars(Reconnect)

HwSyncSpec == HwInit /\ [][HwNext]_hwSyncVars /\ HwFairness

-----------------------------------------------------------------------------
(* Properties. *)

\* While a request of this window is under way its spinner stays and further presses are
\* refused, whatever events of other checks and snapshots arrive (syncHwRunning and
\* hardware_done leave the hosts of hwPending alone).  The exception: two presses that
\* both passed the check of hwPending while they connected; the first answer, mostly
\* hardware_busy to one of them, takes the spinner of the other down.
SpinnerWhileAsked ==
  \A r \in HwCall : UnderWay(r) /\ r \notin uncovered => running /\ hwPending

\* A request of this window ends, also when another check is in its way.
OwnRequestEnds == hwPending ~> ~hwPending

\* No spinner is left up for good: with no check running the button comes back
\* (the comment of syncHwRunning).
SpinnerEnds == running ~> ~running \/ checking # Nobody

=============================================================================
